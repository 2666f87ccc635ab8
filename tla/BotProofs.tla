----------------------------- MODULE BotProofs -----------------------------
(***************************************************************************)
(* At its select! the bot has one set of markets, and each market whose    *)
(* engine lives has one margin, no command gives out what the wallet does  *)
(* not hold, and each profit is compounded once, for any number of mints,  *)
(* any balances, requests and profits, and events of any age.              *)
(*                                                                         *)
(* Neither invariant is inductive: between the parts of add_market,        *)
(* remove_market and close_all the four maps differ.  Domains says how at  *)
(* each point, which makes SameMarkets a case of it.  What is given out is *)
(* a fold over the book, of which only the defining equation is available: *)
(* that a sum exists, and what one margin less or more makes of it, is     *)
(* shown from that.                                                        *)
(***************************************************************************)
EXTENDS Bot, SequenceTheorems, FiniteSetTheorems, WellFoundedInduction, TLAPS

IsState(s) ==
  s = [margin |-> s.margin, view |-> s.view, pnl |-> s.pnl, trades |-> s.trades]

\* The records keep the fields that are updated one by one.
Shapes ==
  /\ book = [m \in DOMAIN book |-> book[m]]
  /\ session = [m \in DOMAIN session |-> session[m]]
  /\ \A m \in DOMAIN session : IsState(session[m])
  /\ tasks = [m \in DOMAIN tasks |-> tasks[m]]
  /\ \A m \in DOMAIN tasks :
       tasks[m] = [margin |-> tasks[m].margin, dead |-> tasks[m].dead]

\* Which markets are in which map while the bot is in the middle of something.
Doing ==
  \/ doing = Select
  \/ \E m \in Mints : doing = Adding(m) \/ doing = Removing(m)
  \/ \E ms \in SUBSET Mints, kill \in BOOLEAN : doing = Closing(ms, kill)
  \/ doing = Stopped

Domains ==
  /\ Doing /\ markets \subseteq Mints
  /\ doing.op = "select" =>
       DOMAIN book = markets /\ DOMAIN session = markets /\ DOMAIN tasks = markets
  /\ doing.op = "adding" =>
       /\ doing.mint \notin markets
       /\ DOMAIN book = markets \cup {doing.mint}
       /\ DOMAIN session = markets /\ DOMAIN tasks = markets
  /\ doing.op = "removing" =>
       /\ doing.mint \notin markets
       /\ DOMAIN book = markets \cup {doing.mint}
       /\ DOMAIN session = markets \cup {doing.mint}
       /\ DOMAIN tasks = markets \cup {doing.mint}
  /\ doing.op = "closing" =>
       markets = {} /\ DOMAIN book = doing.left /\ DOMAIN tasks = doing.left
  /\ doing.op = "stopped" => markets = {}

Inv == Shapes /\ Domains /\ OneMargin

-----------------------------------------------------------------------------
LEMMA InitInv == Init => Inv
BY DEF Init, Inv, Shapes, Domains, Doing, OneMargin, Select

\* An action that leaves the maps and the bot's place alone keeps Inv.
LEMMA KeepsMaps ==
  ASSUME Inv, UNCHANGED <<book, markets, session, tasks, doing>>
  PROVE  Inv'
BY DEF Inv, Shapes, Domains, Doing, OneMargin

\* The first and the second part of add_market.
LEMMA AddInv ==
  ASSUME Inv, NEW m \in Mints,
         (\E a \in Allocs : AddMarket(m, a)) \/ AddDone(m) \/ AddFailed(m)
  PROVE  Inv'
<1> USE DEF Inv
<1>1. ASSUME NEW a \in Allocs, AddMarket(m, a) PROVE Inv'
  <2>1. CASE Allocates(a)
    <3>1. Shapes'
      BY <1>1, <2>1 DEF AddMarket, With, Shapes
    <3>2. Domains'
      BY <1>1, <2>1 DEF AddMarket, With, Domains, Doing, Select, Adding
    <3>3. OneMargin'
      BY <1>1, <2>1 DEF AddMarket, With, OneMargin, Domains, Select
    <3> QED
      BY <3>1, <3>2, <3>3
  <2>2. CASE ~Allocates(a)
    BY <1>1, <2>2, KeepsMaps DEF AddMarket
  <2> QED
    BY <2>1, <2>2
<1>2. CASE AddDone(m)
  <2>1. Shapes'
    BY <1>2 DEF AddDone, With, Shapes, NewState, IsState
  <2>2. Domains'
    BY <1>2 DEF AddDone, With, Domains, Doing, Select, Adding
  <2>3. OneMargin'
    BY <1>2 DEF AddDone, With, OneMargin, Domains, NewState, Adding
  <2> QED
    BY <2>1, <2>2, <2>3
<1>3. CASE AddFailed(m)
  <2>1. Shapes'
    BY <1>3 DEF AddFailed, Without, Shapes
  <2>2. Domains'
    BY <1>3 DEF AddFailed, Without, Domains, Doing, Select, Adding
  <2>3. OneMargin'
    BY <1>3 DEF AddFailed, Without, OneMargin, Domains, Adding
  <2> QED
    BY <2>1, <2>2, <2>3
<1> QED
  BY <1>1, <1>2, <1>3

\* remove_market.
LEMMA RemoveInv ==
  ASSUME Inv, NEW m \in Mints, RemoveMarket(m) \/ RemoveDone(m)
  PROVE  Inv'
<1> USE DEF Inv
<1>1. CASE RemoveMarket(m)
  <2>1. Shapes' /\ OneMargin'
    BY <1>1 DEF RemoveMarket, Shapes, OneMargin
  <2>2. Domains'
    BY <1>1 DEF RemoveMarket, Domains, Doing, Select, Removing
  <2> QED
    BY <2>1, <2>2
<1>2. CASE RemoveDone(m)
  <2>1. Shapes'
    BY <1>2 DEF RemoveDone, Without, Shapes
  <2>2. Domains'
    BY <1>2 DEF RemoveDone, Without, Domains, Doing, Select, Removing
  <2>3. OneMargin'
    BY <1>2 DEF RemoveDone, Without, OneMargin, Domains, Removing
  <2> QED
    BY <2>1, <2>2, <2>3
<1> QED
  BY <1>1, <1>2

\* close_all.
LEMMA CloseInv ==
  ASSUME Inv,
         \/ \E kill \in BOOLEAN : CloseAll(kill)
         \/ \E m \in Mints : CloseNext(m)
         \/ CloseDone
  PROVE  Inv'
<1> USE DEF Inv
<1>1. ASSUME NEW kill \in BOOLEAN, CloseAll(kill) PROVE Inv'
  <2>1. Shapes' /\ OneMargin'
    BY <1>1 DEF CloseAll, Shapes, OneMargin
  <2>2. Domains'
    BY <1>1 DEF CloseAll, Domains, Doing, Select, Closing
  <2> QED
    BY <2>1, <2>2
<1>2. ASSUME NEW m \in Mints, CloseNext(m) PROVE Inv'
  <2>1. Shapes'
    BY <1>2 DEF CloseNext, Without, Shapes
  <2>2. PICK ms \in SUBSET Mints, kill \in BOOLEAN : doing = Closing(ms, kill)
    BY <1>2 DEF CloseNext, Domains, Doing, Select, Adding, Removing, Stopped
  <2>3. doing' = Closing(ms \ {m}, kill)
    BY <1>2, <2>2 DEF CloseNext, Closing
  <2>4. Domains'
    BY <1>2, <2>2, <2>3 DEF CloseNext, Without, Domains, Doing, Closing
  <2>5. OneMargin'
    BY <1>2 DEF CloseNext, OneMargin, Domains
  <2> QED
    BY <2>1, <2>4, <2>5
<1>3. CASE CloseDone
  <2>1. Shapes'
    BY <1>3 DEF CloseDone, Shapes
  <2>2. DOMAIN tasks = {} /\ markets = {}
    BY <1>3 DEF CloseDone, Domains
  <2>3. Domains'
    BY <1>3, <2>2 DEF CloseDone, Domains, Doing, Select, Stopped
  <2>4. OneMargin'
    BY <1>3, <2>2 DEF CloseDone, OneMargin
  <2> QED
    BY <2>1, <2>3, <2>4
<1> QED
  BY <1>1, <1>2, <1>3

\* Told and the two ways a session's margin moves with it.
LEMMA MovedInv ==
  ASSUME Inv, doing = Select, NEW m \in markets, NEW n, NEW s, IsState(s),
         book' = With(book, m, n), Told(m, n),
         session' = [session EXCEPT ![m] = [s EXCEPT !.margin = n]],
         UNCHANGED <<markets, doing>>
  PROVE  Inv'
<1> USE DEF Inv
<1>1. m \in DOMAIN book /\ m \in DOMAIN session /\ m \in DOMAIN tasks
  BY DEF Domains, Select
<1>2. session'[m] = [margin |-> n, view |-> s.view, pnl |-> s.pnl, trades |-> s.trades]
  BY <1>1 DEF Shapes, IsState
<1>3. tasks'[m] = [margin |-> n, dead |-> tasks[m].dead]
  BY <1>1 DEF Shapes, Told
<1>4. \A x \in DOMAIN session : x # m => session'[x] = session[x]
  BY DEF Shapes
<1>5. \A x \in DOMAIN tasks : x # m => tasks'[x] = tasks[x]
  BY DEF Shapes, Told
<1>6. /\ DOMAIN book' = DOMAIN book /\ DOMAIN session' = DOMAIN session
      /\ DOMAIN tasks' = DOMAIN tasks
  BY <1>1 DEF With, Told
<1>7. Shapes'
  <2>1. book' = [x \in DOMAIN book' |-> book'[x]]
    BY DEF With
  <2>2. session' = [x \in DOMAIN session' |-> session'[x]]
    BY <1>6
  <2>3. tasks' = [x \in DOMAIN tasks' |-> tasks'[x]]
    BY <1>6 DEF Told
  <2> QED
    BY <1>2, <1>3, <1>4, <1>5, <1>6, <2>1, <2>2, <2>3 DEF Shapes, IsState
<1>8. Domains'
  BY <1>6 DEF Domains, Doing, Select
<1>9. OneMargin'
  <2>1. \A x \in markets : x \in DOMAIN book /\ x \in DOMAIN session /\ x \in DOMAIN tasks
    BY DEF Domains, Select
  <2>2. book'[m] = n /\ \A x \in DOMAIN book : x # m => book'[x] = book[x]
    BY DEF With
  <2> QED
    BY <1>2, <1>3, <1>4, <1>5, <2>1, <2>2 DEF OneMargin
<1> QED
  BY <1>7, <1>8, <1>9

\* A session that keeps its margin, while the book of a market without an
\* engine may change.
LEMMA SameMarginInv ==
  ASSUME Inv, doing = Select, NEW m \in markets, NEW s, IsState(s),
         s.margin = session[m].margin,
         book' = book \/ (tasks[m].dead /\ \E n : book' = With(book, m, n)),
         session' = [session EXCEPT ![m] = s],
         UNCHANGED <<markets, tasks, doing>>
  PROVE  Inv'
<1> USE DEF Inv
<1>1. m \in DOMAIN book /\ m \in DOMAIN session /\ m \in DOMAIN tasks
  BY DEF Domains, Select
<1>2. session'[m] = s /\ \A x \in DOMAIN session : x # m => session'[x] = session[x]
  BY <1>1 DEF Shapes
<1>3. DOMAIN book' = DOMAIN book /\ DOMAIN session' = DOMAIN session
  BY <1>1 DEF With
<1>4. \A x \in DOMAIN book : x # m \/ ~tasks[m].dead => book'[x] = book[x]
  BY DEF With
<1>5. Shapes'
  <2>1. book' = [x \in DOMAIN book' |-> book'[x]]
    BY DEF With, Shapes
  <2>2. session' = [x \in DOMAIN session' |-> session'[x]]
    BY <1>3
  <2> QED
    BY <1>2, <1>3, <2>1, <2>2 DEF Shapes
<1>6. Domains'
  BY <1>3 DEF Domains, Doing, Select
<1>7. OneMargin'
  <2>1. \A x \in markets : x \in DOMAIN book /\ x \in DOMAIN session
    BY DEF Domains, Select
  <2> QED
    BY <1>2, <1>4, <2>1 DEF OneMargin
<1> QED
  BY <1>5, <1>6, <1>7

LEMMA UpdateInv ==
  ASSUME Inv, NEW m \in Mints, NEW n, UpdateMargin(m, n)
  PROVE  Inv'
<1> USE DEF Inv
<1>1. doing = Select /\ m \in markets /\ IsState(session[m])
  BY DEF UpdateMargin, Domains, Select, Shapes
<1>2. CASE ~Updatable(m, n)
  BY <1>2, KeepsMaps DEF UpdateMargin
<1>3. CASE Updatable(m, n) /\ ~tasks[m].dead
  <2>1. session' = [session EXCEPT ![m] = [session[m] EXCEPT !.margin = n]]
    BY <1>3 DEF UpdateMargin
  <2> QED
    BY <1>1, <1>3, <2>1, MovedInv DEF UpdateMargin
<1>4. CASE Updatable(m, n) /\ tasks[m].dead
  <2>1. session' = [session EXCEPT ![m] = session[m]]
    BY <1>4 DEF UpdateMargin, Shapes
  <2> QED
    BY <1>1, <1>4, <2>1, SameMarginInv DEF UpdateMargin
<1> QED
  BY <1>2, <1>3, <1>4

LEMMA CompoundInv ==
  ASSUME Inv, doing = Select, NEW m \in markets, NEW g, NEW s, IsState(s),
         s.margin = session[m].margin, Compound(m, g, s),
         UNCHANGED <<markets, doing>>
  PROVE  Inv'
<1> DEFINE n == Compounded(session[m].margin, g)
<1>1. CASE n = session[m].margin
  <2>1. book' = book /\ tasks' = tasks /\ session' = [session EXCEPT ![m] = s]
    BY <1>1 DEF Compound
  <2> QED
    BY <2>1, SameMarginInv
<1>2. CASE n # session[m].margin /\ tasks[m].dead
  BY <1>2, SameMarginInv DEF Compound
<1>3. CASE n # session[m].margin /\ ~tasks[m].dead
  BY <1>3, MovedInv DEF Compound
<1> QED
  BY <1>1, <1>2, <1>3

LEMMA HandleInv ==
  ASSUME Inv, Handle
  PROVE  Inv'
<1>1. doing = Select /\ markets' = markets /\ doing' = doing
  BY DEF Handle
<1>2. PICK e : e = Head(events)
  OBVIOUS
<1>3. PICK m : m = e.mint
  OBVIOUS
<1>4. PICK s : s = session[m]
  OBVIOUS
<1>5. CASE m \notin DOMAIN session
  BY <1>1, <1>2, <1>3, <1>5, KeepsMaps DEF Handle
<1>6. CASE m \in DOMAIN session
  <2>1. m \in markets /\ IsState(s)
    BY <1>1, <1>4, <1>6 DEF Inv, Domains, Select, Shapes
  <2>2. ASSUME NEW v, session' = [session EXCEPT ![m].view = v],
               book' = book, tasks' = tasks
        PROVE  Inv'
    <3>1. PICK t : t = [s EXCEPT !.view = v]
      OBVIOUS
    <3>2. IsState(t) /\ t.margin = session[m].margin
      BY <1>4, <2>1, <3>1 DEF IsState
    <3>3. session' = [session EXCEPT ![m] = t]
      BY <1>4, <2>2, <3>1
    <3> QED
      BY <1>1, <2>1, <2>2, <3>2, <3>3, SameMarginInv
  <2>3. CASE e.type = "EngineState"
    BY <1>2, <1>3, <1>6, <2>2, <2>3 DEF Handle
  <2>4. CASE e.type # "EngineState"
    <3>1. HandleTrade(e)
      BY <1>2, <1>3, <1>6, <2>4 DEF Handle
    <3>2. CASE e.key \in s.trades
      BY <1>3, <1>4, <2>2, <3>1, <3>2 DEF HandleTrade
    <3>3. CASE e.key \notin s.trades
      <4>1. PICK t : t = Recorded(e)
        OBVIOUS
      <4>2. t = [s EXCEPT !.view = "Idle", !.trades = @ \cup {e.key},
                          !.pnl = @ + e.pnl]
        BY <1>3, <1>4, <4>1 DEF Recorded
      <4>3. IsState(t) /\ t.margin = session[m].margin
        BY <1>4, <2>1, <4>2 DEF IsState
      <4>4. Compound(m, e.pnl, t)
        BY <1>3, <1>4, <3>1, <3>3, <4>1 DEF HandleTrade
      <4> QED
        BY <1>1, <2>1, <4>3, <4>4, CompoundInv
    <3> QED
      BY <3>2, <3>3
  <2> QED
    BY <2>3, <2>4
<1> QED
  BY <1>5, <1>6

\* What happens outside the bot's task.
LEMMA OutsideInv ==
  ASSUME Inv, Outside
  PROVE  Inv'
<1>1. ASSUME NEW m \in Mints, NEW v, MarketTells(m, v) PROVE Inv'
  BY <1>1, KeepsMaps DEF MarketTells
<1>2. ASSUME NEW m \in Mints, NEW g, Traded(m, g) PROVE Inv'
  BY <1>2, KeepsMaps DEF Traded
<1>3. ASSUME NEW m \in Mints, EngineDies(m) PROVE Inv'
  <2>1. m \in DOMAIN tasks /\ tasks' = [tasks EXCEPT ![m].dead = TRUE]
        /\ UNCHANGED <<book, markets, session, doing>>
    BY <1>3 DEF EngineDies
  <2>2. PICK t : t = tasks[m]
    OBVIOUS
  <2>3. t = [margin |-> t.margin, dead |-> t.dead]
    BY <2>1, <2>2 DEF Inv, Shapes
  <2>4. [t EXCEPT !.dead = TRUE] = [margin |-> t.margin, dead |-> TRUE]
    <3>1. ASSUME NEW d PROVE [t EXCEPT !.dead = d] = [margin |-> t.margin, dead |-> d]
      BY <2>3
    <3> QED
      BY <3>1, Zenon
  <2>5. DOMAIN tasks' = DOMAIN tasks /\ tasks'[m] = [margin |-> t.margin, dead |-> TRUE]
        /\ \A x \in DOMAIN tasks : x # m => tasks'[x] = tasks[x]
    BY <2>1, <2>2, <2>4
  <2>6. tasks' = [x \in DOMAIN tasks' |-> tasks'[x]]
    BY <2>1
  <2>7. Shapes'
    <3>1. \A x \in DOMAIN tasks' :
            tasks'[x] = [margin |-> tasks'[x].margin, dead |-> tasks'[x].dead]
      <4>1. tasks'[m] = [margin |-> tasks'[m].margin, dead |-> tasks'[m].dead]
        BY <2>5
      <4>2. \A x \in DOMAIN tasks :
              tasks[x] = [margin |-> tasks[x].margin, dead |-> tasks[x].dead]
        BY DEF Inv, Shapes
      <4> QED
        BY <2>5, <4>1, <4>2
    <3>2. /\ book' = [x \in DOMAIN book' |-> book'[x]]
          /\ session' = [x \in DOMAIN session' |-> session'[x]]
      BY <2>1 DEF Inv, Shapes
    <3>3. \A x \in DOMAIN session' : IsState(session'[x])
      BY <2>1 DEF Inv, Shapes
    <3> QED
      BY <2>6, <3>1, <3>2, <3>3 DEF Shapes, IsState
  <2>8. Domains'
    BY <2>1, <2>5 DEF Inv, Domains, Doing
  <2>9. OneMargin'
    BY <2>1, <2>2, <2>5 DEF Inv, OneMargin, Domains, Doing, Select, Stopped, Adding,
                      Removing, Closing
  <2> QED
    BY <2>7, <2>8, <2>9 DEF Inv
<1>4. ASSUME NEW w, WalletMoves(w) PROVE Inv'
  BY <1>4, KeepsMaps DEF WalletMoves
<1> QED
  BY <1>1, <1>2, <1>3, <1>4 DEF Outside

LEMMA NextInv ==
  ASSUME Inv, [Next]_vars
  PROVE  Inv'
<1>1. CASE Commands
  BY <1>1, AddInv, RemoveInv, UpdateInv, CloseInv DEF Commands
<1>2. CASE Continues
  BY <1>2, AddInv, RemoveInv, CloseInv DEF Continues
<1>3. CASE Sync
  BY <1>3, KeepsMaps DEF Sync
<1>4. CASE UNCHANGED vars
  BY <1>4, KeepsMaps DEF vars
<1> QED
  BY <1>1, <1>2, <1>3, <1>4, HandleInv, OutsideInv DEF Next

-----------------------------------------------------------------------------
\* At its select! the bot has the same markets in its book, its session, its
\* handles and the tasks that run.
THEOREM MarketsAgree == Spec => []SameMarkets
<1>1. Inv => SameMarkets
  BY DEF Inv, Domains, SameMarkets, Select
<1> QED
  BY <1>1, InitInv, NextInv, PTL DEF Spec

\* The book, the session and a living engine have one margin.
THEOREM MarginsAgree == Spec => []OneMargin
<1>1. Inv => OneMargin
  BY DEF Inv
<1> QED
  BY <1>1, InitInv, NextInv, PTL DEF Spec

-----------------------------------------------------------------------------
\* Types.

Event == [type : {"EngineState"}, mint : Mints, view : Views]
           \cup [type : {"Trade"}, mint : Mints, key : Key, pnl : Gains]

BotTypes == TypeOK /\ events \in Seq(Event)

\* An allocation that is granted is a positive number.
LEMMA GrantedIsPositive ==
  ASSUME NEW a, Allocates(a)
  PROVE  Requested(a) \in Nat /\ Requested(a) > 0
<1>1. \A x, y : x \in 1 .. y => x \in Nat /\ x > 0
  OBVIOUS
<1> QED
  BY <1>1 DEF Allocates

LEMMA CompoundedType ==
  ASSUME NEW n \in Nat, NEW g \in Int
  PROVE  Compounded(n, g) \in Nat
BY DEF Compounded

\* A map of mints to amounts or records stays one, with a value more or less.
LEMMA MapTypes ==
  ASSUME NEW S, NEW f, DOMAIN f \subseteq Mints, \A x \in DOMAIN f : f[x] \in S,
         NEW m \in Mints
  PROVE  /\ \A v \in S : /\ DOMAIN With(f, m, v) \subseteq Mints
                        /\ \A x \in DOMAIN With(f, m, v) : With(f, m, v)[x] \in S
         /\ DOMAIN Without(f, m) \subseteq Mints
         /\ \A x \in DOMAIN Without(f, m) : Without(f, m)[x] \in S
<1>1. ASSUME NEW v \in S
      PROVE  /\ DOMAIN With(f, m, v) \subseteq Mints
             /\ \A x \in DOMAIN With(f, m, v) : With(f, m, v)[x] \in S
  <2>1. /\ DOMAIN With(f, m, v) = DOMAIN f \cup {m}
        /\ \A x \in DOMAIN f \cup {m} : With(f, m, v)[x] = IF x = m THEN v ELSE f[x]
    BY DEF With
  <2> QED
    BY <2>1
<1>2. /\ DOMAIN Without(f, m) \subseteq Mints
      /\ \A x \in DOMAIN Without(f, m) : Without(f, m)[x] \in S
  BY DEF Without
<1> QED
  BY <1>1, <1>2

\* The maps keep their types, whoever changes which of them.
LEMMA MapsTypes ==
  ASSUME BotTypes, UNCHANGED <<wallet, events, signed>>, total' \in {total, wallet},
         markets' \subseteq Mints,
         DOMAIN book' \subseteq Mints, \A x \in DOMAIN book' : book'[x] \in Nat,
         DOMAIN session' \subseteq Mints,
         \A x \in DOMAIN session' : session'[x] \in MarketState,
         DOMAIN tasks' \subseteq Mints,
         \A x \in DOMAIN tasks' : tasks'[x] \in [margin : Nat, dead : BOOLEAN]
  PROVE  BotTypes'
BY DEF BotTypes, TypeOK

\* The market is taken off the book, its tasks are aborted, and its session goes.
LEMMA WithoutTypes ==
  ASSUME BotTypes, NEW m \in Mints, UNCHANGED <<wallet, total, markets, events, signed>>,
         book' = Without(book, m), tasks' = Without(tasks, m),
         session' = session \/ session' = Without(session, m)
  PROVE  BotTypes'
<1> DEFINE Task == [margin : Nat, dead : BOOLEAN]
<1>1. DOMAIN book' \subseteq Mints /\ \A x \in DOMAIN book' : book'[x] \in Nat
  BY MapTypes DEF BotTypes, TypeOK
<1>2. DOMAIN tasks' \subseteq Mints /\ \A x \in DOMAIN tasks' : tasks'[x] \in Task
  <2>1. DOMAIN tasks \subseteq Mints /\ \A x \in DOMAIN tasks : tasks[x] \in Task
    BY DEF BotTypes, TypeOK
  <2> HIDE DEF Task
  <2> QED
    BY <2>1, MapTypes
<1>3. DOMAIN session' \subseteq Mints /\ \A x \in DOMAIN session' : session'[x] \in MarketState
  <2>1. CASE session' = session
    BY <2>1 DEF BotTypes, TypeOK
  <2>2. CASE session' = Without(session, m)
    BY <2>2, MapTypes DEF BotTypes, TypeOK
  <2> QED
    BY <2>1, <2>2
<1> QED
  BY <1>1, <1>2, <1>3 DEF BotTypes, TypeOK

LEMMA CommandTypes ==
  ASSUME Inv, BotTypes, Commands \/ Continues \/ Sync
  PROVE  BotTypes'
<1> USE DEF Inv
<1> DEFINE Task == [margin : Nat, dead : BOOLEAN]
<1>0. /\ markets \subseteq Mints
      /\ DOMAIN book \subseteq Mints /\ \A x \in DOMAIN book : book[x] \in Nat
      /\ DOMAIN session \subseteq Mints /\ \A x \in DOMAIN session : session[x] \in MarketState
      /\ DOMAIN tasks \subseteq Mints /\ \A x \in DOMAIN tasks : tasks[x] \in Task
  BY DEF BotTypes, TypeOK
<1>1. ASSUME NEW m \in Mints, NEW a \in Allocs, AddMarket(m, a) PROVE BotTypes'
  <2>1. CASE Allocates(a)
    BY <1>0, <1>1, <2>1, MapTypes, GrantedIsPositive, MapsTypes DEF AddMarket, Synced
  <2>2. CASE ~Allocates(a)
    BY <1>0, <1>1, <2>2, MapsTypes DEF AddMarket, Synced
  <2> QED
    BY <2>1, <2>2
<1>2. ASSUME NEW m \in Mints, AddDone(m) PROVE BotTypes'
  <2>1. book[m] \in Nat
    BY <1>0, <1>2 DEF AddDone, Domains, Adding
  <2>2. NewState(book[m]) \in MarketState /\ [margin |-> book[m], dead |-> FALSE] \in Task
    BY <2>1 DEF NewState, MarketState, Views
  <2> QED
    BY <1>0, <1>2, <2>2, MapTypes, MapsTypes DEF AddDone
<1>3. ASSUME NEW m \in Mints, AddFailed(m) PROVE BotTypes'
  BY <1>0, <1>3, MapTypes, MapsTypes DEF AddFailed
<1>4. ASSUME NEW m \in Mints, RemoveMarket(m) \/ RemoveDone(m) \/ CloseNext(m) PROVE BotTypes'
  <2>1. CASE RemoveMarket(m)
    BY <1>0, <2>1, MapsTypes DEF RemoveMarket
  <2>2. CASE RemoveDone(m)
    <3>1. /\ UNCHANGED <<wallet, total, markets, events, signed>>
          /\ book' = Without(book, m) /\ tasks' = Without(tasks, m)
          /\ session' = session \/ session' = Without(session, m)
      BY <2>2 DEF RemoveDone
    <3> QED
      BY <3>1, WithoutTypes
  <2>3. CASE CloseNext(m)
    <3>1. /\ UNCHANGED <<wallet, total, markets, events, signed>>
          /\ book' = Without(book, m) /\ tasks' = Without(tasks, m)
          /\ session' = session \/ session' = Without(session, m)
      BY <2>3 DEF CloseNext
    <3> QED
      BY <3>1, WithoutTypes
  <2> QED
    BY <1>4, <2>1, <2>2, <2>3
<1>5. CASE (\E kill \in BOOLEAN : CloseAll(kill)) \/ CloseDone \/ Sync
  BY <1>0, <1>5, MapsTypes DEF CloseAll, CloseDone, Sync, Synced
<1>6. ASSUME NEW m \in Mints, NEW n \in Updates, UpdateMargin(m, n) PROVE BotTypes'
  <2>1. n \in Nat
    BY BotAssumption
  <2>2. DOMAIN book' \subseteq Mints /\ \A x \in DOMAIN book' : book'[x] \in Nat
    BY <1>0, <1>6, <2>1, MapTypes DEF UpdateMargin
  <2>3. \A s \in MarketState : [s EXCEPT !.margin = n] \in MarketState
    BY <2>1 DEF MarketState
  <2>4. \A t \in Task : [t EXCEPT !.margin = n] \in Task
    BY <2>1
  <2>5. DOMAIN session' = DOMAIN session /\ \A x \in DOMAIN session' : session'[x] \in MarketState
    BY <1>0, <1>6, <2>3 DEF UpdateMargin
  <2>6. DOMAIN tasks' = DOMAIN tasks /\ \A x \in DOMAIN tasks' : tasks'[x] \in Task
    BY <1>0, <1>6, <2>4 DEF UpdateMargin, Told
  <2> QED
    BY <1>0, <1>6, <2>2, <2>5, <2>6, MapsTypes DEF UpdateMargin, Synced
<1> QED
  BY <1>1, <1>2, <1>3, <1>4, <1>5, <1>6 DEF Commands, Continues

\* An event is about a mint, and a Trade of a market has a key and a pnl.
LEMMA EventIs ==
  ASSUME NEW e \in Event
  PROVE  /\ e.mint \in Mints /\ e.type \in {"EngineState", "Trade"}
         /\ e.type = "EngineState" => e.view \in Views
         /\ e.type = "Trade" => e.key \in Key /\ e.pnl \in Int
BY BotAssumption DEF Event

LEMMA HandleTypes ==
  ASSUME Inv, BotTypes, Handle
  PROVE  BotTypes'
<1> DEFINE Task == [margin : Nat, dead : BOOLEAN]
<1>1. PICK e \in Event : e = Head(events)
  BY HeadTailProperties DEF BotTypes, Handle
<1>2. Tail(events) \in Seq(Event) /\ events' = Tail(events)
  BY HeadTailProperties DEF BotTypes, Handle
<1>3. PICK m \in Mints : m = e.mint
  BY EventIs
<1>4. /\ UNCHANGED <<wallet, total, markets, signed>> /\ markets \subseteq Mints
      /\ DOMAIN book \subseteq Mints /\ \A x \in DOMAIN book : book[x] \in Nat
      /\ DOMAIN session \subseteq Mints /\ \A x \in DOMAIN session : session[x] \in MarketState
      /\ DOMAIN tasks \subseteq Mints /\ \A x \in DOMAIN tasks : tasks[x] \in Task
  BY DEF BotTypes, TypeOK, Handle
<1>5. SUFFICES /\ DOMAIN book' \subseteq Mints /\ \A x \in DOMAIN book' : book'[x] \in Nat
               /\ DOMAIN session' = DOMAIN session
               /\ \A x \in DOMAIN session' : session'[x] \in MarketState
               /\ DOMAIN tasks' = DOMAIN tasks /\ \A x \in DOMAIN tasks' : tasks'[x] \in Task
  BY <1>2, <1>4 DEF BotTypes, TypeOK
<1>6. CASE m \notin DOMAIN session
  BY <1>1, <1>3, <1>4, <1>6 DEF Handle
<1>7. CASE m \in DOMAIN session
  <2>1. PICK s \in MarketState : s = session[m]
    BY <1>4, <1>7
  <2>2. ASSUME NEW v \in Views, session' = [session EXCEPT ![m].view = v],
               book' = book, tasks' = tasks
        PROVE  \A x \in DOMAIN session' : session'[x] \in MarketState
    <3>1. [s EXCEPT !.view = v] \in MarketState
      BY DEF MarketState
    <3> QED
      BY <1>4, <1>7, <2>1, <2>2, <3>1
  <2>3. CASE e.type = "EngineState"
    <3>1. /\ session' = [session EXCEPT ![m].view = e.view] /\ e.view \in Views
          /\ book' = book /\ tasks' = tasks
      BY <1>1, <1>3, <1>7, <2>3, EventIs DEF Handle
    <3> QED
      BY <1>4, <2>2, <3>1
  <2>4. CASE e.type = "Trade"
    <3>1. HandleTrade(e) /\ e.key \in Key /\ e.pnl \in Int
      BY <1>1, <1>3, <1>7, <2>4, EventIs DEF Handle
    <3>2. CASE e.key \in s.trades
      <4>1. session' = [session EXCEPT ![m].view = "Idle"] /\ book' = book /\ tasks' = tasks
        BY <1>3, <2>1, <3>1, <3>2 DEF HandleTrade
      <4>2. "Idle" \in Views
        BY DEF Views
      <4> QED
        BY <1>4, <2>2, <4>1, <4>2
    <3>3. CASE e.key \notin s.trades
      <4> DEFINE t == Recorded(e)
                 n == Compounded(s.margin, e.pnl)
      <4>1. t \in MarketState
        <5>1. t = [s EXCEPT !.view = "Idle", !.trades = s.trades \cup {e.key},
                            !.pnl = s.pnl + e.pnl]
          BY <1>3, <2>1 DEF Recorded, MarketState
        <5>2. "Idle" \in Views /\ s.trades \cup {e.key} \in SUBSET Key /\ s.pnl + e.pnl \in Int
          BY <3>1 DEF MarketState, Views
        <5> HIDE DEF t
        <5> QED
          BY <5>1, <5>2 DEF MarketState
      <4>2. s.margin \in Nat /\ n \in Nat
        BY <3>1, CompoundedType DEF MarketState
      <4>3. [t EXCEPT !.margin = n] \in MarketState
        BY <4>1, <4>2 DEF MarketState
      <4>4. Compound(m, e.pnl, t)
        BY <1>3, <2>1, <3>1, <3>3 DEF HandleTrade
      <4> HIDE DEF t, n
      <4>5. \/ book' = book
            \/ book' = With(book, m, s.margin) \/ book' = With(book, m, n)
        BY <2>1, <4>4 DEF Compound, n
      <4>6. DOMAIN book' \subseteq Mints /\ \A x \in DOMAIN book' : book'[x] \in Nat
        <5>1. \A v \in Nat : /\ DOMAIN With(book, m, v) \subseteq Mints
                             /\ \A x \in DOMAIN With(book, m, v) : With(book, m, v)[x] \in Nat
          BY <1>4, MapTypes
        <5> QED
          BY <1>4, <4>2, <4>5, <5>1
      <4>7. \/ session' = [session EXCEPT ![m] = t]
            \/ session' = [session EXCEPT ![m] = [t EXCEPT !.margin = n]]
        BY <2>1, <4>4 DEF Compound, n
      <4>8. DOMAIN session' = DOMAIN session
            /\ \A x \in DOMAIN session' : session'[x] \in MarketState
        BY <1>4, <4>1, <4>3, <4>7
      <4>9. DOMAIN tasks' = DOMAIN tasks /\ \A x \in DOMAIN tasks' : tasks'[x] \in Task
        <5>1. tasks' = tasks \/ tasks' = [tasks EXCEPT ![m].margin = n]
          BY <2>1, <4>4 DEF Compound, Told, n
        <5>2. \A x \in Task : [x EXCEPT !.margin = n] \in Task
          BY <4>2
        <5> QED
          BY <1>4, <5>1, <5>2
      <4> QED
        BY <4>6, <4>8, <4>9
    <3> QED
      BY <3>2, <3>3
  <2> QED
    BY <2>3, <2>4, EventIs
<1> QED
  BY <1>6, <1>7

LEMMA OutsideTypes ==
  ASSUME BotTypes, Outside
  PROVE  BotTypes'
<1> USE DEF BotTypes, TypeOK
<1>1. ASSUME NEW e \in Event PROVE Append(events, e) \in Seq(Event)
  BY AppendProperties
<1>2. ASSUME NEW m \in Mints, NEW v \in {"Idle", "Open"}, MarketTells(m, v) PROVE BotTypes'
  <2>1. View(m, v) \in Event
    BY DEF View, Event, Views
  <2> QED
    BY <1>1, <1>2, <2>1 DEF MarketTells
<1>3. ASSUME NEW m \in Mints, NEW g \in Gains, Traded(m, g) PROVE BotTypes'
  <2>1. Trade(m, Reason, g) \in Event
    BY DEF Trade, Event, Key
  <2>2. signed < MaxTx => signed + 1 \in 1 .. MaxTx /\ Trade(m, signed + 1, g) \in Event
    BY BotAssumption DEF Trade, Event, Key
  <2> QED
    BY <1>1, <1>3, <2>1, <2>2 DEF Traded
<1>4. ASSUME NEW m \in Mints, EngineDies(m) PROVE BotTypes'
  <2>1. \A t \in [margin : Nat, dead : BOOLEAN] :
          [t EXCEPT !.dead = TRUE] \in [margin : Nat, dead : BOOLEAN]
    OBVIOUS
  <2>2. /\ DOMAIN tasks' = DOMAIN tasks
        /\ \A x \in DOMAIN tasks' : tasks'[x] \in [margin : Nat, dead : BOOLEAN]
    BY <1>4, <2>1 DEF EngineDies
  <2> QED
    BY <1>4, <2>2 DEF EngineDies
<1>5. ASSUME NEW w \in Wallets, WalletMoves(w) PROVE BotTypes'
  BY <1>5, BotAssumption DEF WalletMoves
<1> QED
  BY <1>2, <1>3, <1>4, <1>5 DEF Outside

LEMMA BotTypesNext == Inv /\ BotTypes /\ [Next]_vars => BotTypes'
<1> SUFFICES ASSUME Inv, BotTypes, [Next]_vars PROVE BotTypes'
  OBVIOUS
<1>1. CASE UNCHANGED vars
  BY <1>1 DEF BotTypes, TypeOK, vars
<1> QED
  BY <1>1, CommandTypes, HandleTypes, OutsideTypes DEF Next

LEMMA BotTypesInit == Init => BotTypes
BY BotAssumption, EmptySeq DEF Init, BotTypes, TypeOK

\* Balances and margins are amounts, and the maps are about known mints.
THEOREM BotTypeCorrect == Spec => []TypeOK
<1>1. BotTypes => TypeOK
  BY DEF BotTypes
<1> QED
  BY <1>1, BotTypesInit, BotTypesNext, InitInv, NextInv, PTL DEF Spec

-----------------------------------------------------------------------------
\* Profits.

\* A market the event is not about, or whose figures it leaves.
LEMMA StaysWithPnl ==
  ASSUME Inv, BotTypes, NEW m \in DOMAIN session,
         session'[m].margin = session[m].margin, session'[m].pnl = session[m].pnl,
         book[m] = session[m].margin => book'[m] = session[m].margin
  PROVE  MovesWithPnl(m)
<1>1. session[m].pnl \in Int /\ session[m].margin \in Nat
  BY DEF BotTypes, TypeOK, MarketState
<1> QED
  BY <1>1 DEF MovesWithPnl, Compounded

\* A Trade that is counted, in a session that becomes s by it.
LEMMA CompoundMoves ==
  ASSUME Inv, BotTypes, doing = Select, NEW m \in markets, NEW g \in Int, NEW s,
         IsState(s), s.margin = session[m].margin, s.pnl = session[m].pnl + g,
         Compound(m, g, s)
  PROVE  MovesWithPnl(m) /\ \A x \in markets : x # m => MovesWithPnl(x)
<1> DEFINE n == Compounded(session[m].margin, g)
<1>1. \A x \in markets : x \in DOMAIN book /\ x \in DOMAIN session /\ x \in DOMAIN tasks
  BY DEF Inv, Domains, Select
<1>2. session[m].pnl \in Int /\ session[m].margin \in Nat
  BY <1>1 DEF BotTypes, TypeOK, MarketState
<1>3. (session[m].pnl + g) - session[m].pnl = g
  BY <1>2
<1>4. \/ session' = [session EXCEPT ![m] = s]
      \/ session' = [session EXCEPT ![m] = [s EXCEPT !.margin = n]]
  BY DEF Compound
<1>5. book' = book \/ \E v : book' = With(book, m, v)
  BY DEF Compound
<1>6. ASSUME NEW x \in markets, x # m PROVE MovesWithPnl(x)
  <2>1. session'[x] = session[x]
    BY <1>1, <1>4, <1>6
  <2>2. book'[x] = book[x]
    BY <1>1, <1>5, <1>6 DEF With
  <2> QED
    BY <1>1, <2>1, <2>2, StaysWithPnl
<1>7. MovesWithPnl(m)
  <2>1. CASE n = session[m].margin
    <3>1. session'[m] = s /\ book' = book
      BY <1>1, <2>1 DEF Compound
    <3> QED
      BY <1>3, <2>1, <3>1 DEF MovesWithPnl
  <2>2. CASE n # session[m].margin /\ tasks[m].dead
    <3>1. session'[m] = s /\ book' = With(book, m, session[m].margin)
      BY <1>1, <2>2 DEF Compound
    <3>2. book'[m] = session[m].margin
      BY <1>1, <3>1 DEF With
    <3> QED
      BY <2>2, <3>1, <3>2 DEF MovesWithPnl
  <2>3. CASE n # session[m].margin /\ ~tasks[m].dead
    <3>1. session'[m] = [s EXCEPT !.margin = n] /\ book' = With(book, m, n)
      BY <1>1, <2>3 DEF Compound
    <3>2. session'[m].margin = n /\ session'[m].pnl = s.pnl
      BY <3>1 DEF IsState
    <3>3. book'[m] = n
      BY <1>1, <3>1 DEF With
    <3> QED
      BY <1>3, <2>3, <3>2, <3>3 DEF MovesWithPnl
  <2> QED
    BY <2>1, <2>2, <2>3
<1> QED
  BY <1>6, <1>7

LEMMA HandleMoves ==
  ASSUME Inv, BotTypes, Handle
  PROVE  \A m \in markets : MovesWithPnl(m)
<1>1. doing = Select /\ \A x \in markets : x \in DOMAIN book /\ x \in DOMAIN session
  BY DEF Handle, Inv, Domains, Select
<1>2. PICK e \in Event : e = Head(events)
  BY HeadTailProperties DEF BotTypes, Handle
<1>3. PICK m : m = e.mint
  OBVIOUS
<1>4. ASSUME NEW v, m \in DOMAIN session, session' = [session EXCEPT ![m].view = v], book' = book
      PROVE  \A x \in markets : MovesWithPnl(x)
  <2>1. session[m] \in MarketState
    BY <1>4 DEF BotTypes, TypeOK
  <2>2. \A s \in MarketState : LET t == [s EXCEPT !.view = v]
                               IN  t.margin = s.margin /\ t.pnl = s.pnl
    BY DEF MarketState
  <2>3. \A x \in DOMAIN session : /\ session'[x].margin = session[x].margin
                                  /\ session'[x].pnl = session[x].pnl
    BY <1>4, <2>1, <2>2
  <2> QED
    BY <1>1, <1>4, <2>3, StaysWithPnl
<1>5. CASE m \notin DOMAIN session
  BY <1>1, <1>2, <1>3, <1>5, StaysWithPnl DEF Handle
<1>6. CASE m \in DOMAIN session /\ e.type = "EngineState"
  BY <1>2, <1>3, <1>4, <1>6 DEF Handle
<1>7. CASE m \in DOMAIN session /\ e.type = "Trade"
  <2>1. HandleTrade(e) /\ e.pnl \in Int /\ m \in markets
    BY <1>1, <1>2, <1>3, <1>7, EventIs DEF Handle, Inv, Domains, Select
  <2>2. CASE e.key \in session[m].trades
    BY <1>3, <1>4, <1>7, <2>1, <2>2 DEF HandleTrade
  <2>3. CASE e.key \notin session[m].trades
    <3>1. PICK s : s = session[m]
      OBVIOUS
    <3>2. s = [margin |-> s.margin, view |-> s.view, pnl |-> s.pnl, trades |-> s.trades]
      BY <1>7, <3>1 DEF Inv, Shapes, IsState
    <3>3. PICK t : t = Recorded(e)
      OBVIOUS
    <3>4. t = [s EXCEPT !.view = "Idle", !.trades = @ \cup {e.key}, !.pnl = @ + e.pnl]
      BY <1>3, <3>1, <3>3 DEF Recorded
    <3>5. IsState(t) /\ t.margin = s.margin /\ t.pnl = s.pnl + e.pnl
      BY <3>2, <3>4 DEF IsState
    <3>6. Compound(m, e.pnl, t)
      BY <1>3, <2>1, <2>3, <3>3 DEF HandleTrade
    <3> QED
      BY <1>1, <2>1, <3>1, <3>5, <3>6, CompoundMoves
  <2> QED
    BY <2>2, <2>3
<1> QED
  BY <1>5, <1>6, <1>7, EventIs

\* An event moves a margin as it moves the pnl, once, and the book with it.
THEOREM Compounding == Spec => CompoundsWhatItCounts
<1>1. Inv /\ BotTypes /\ [Next]_vars =>
        [\A m \in markets \cap markets' : events' # events => MovesWithPnl(m)]_vars
  <2> SUFFICES ASSUME Inv, BotTypes, Next, NEW m \in markets, m \in markets', events' # events
               PROVE  MovesWithPnl(m)
    OBVIOUS
  <2>1. CASE Handle
    BY <2>1, HandleMoves
  <2>2. CASE Outside
    <3>1. doing # Stopped /\ UNCHANGED <<book, session>>
      BY <2>2 DEF Outside, MarketTells, Traded, EngineDies, WalletMoves, Running
    <3>2. m \in DOMAIN session
      <4>1. m \in DOMAIN session \/ ~UNCHANGED <<markets, doing, session>>
        BY <3>1 DEF Inv, Domains, Doing, Select, Adding, Removing, Closing
      <4> QED
        BY <2>2, <4>1 DEF Outside, MarketTells, Traded, EngineDies, WalletMoves
    <3> QED
      BY <3>1, <3>2, StaysWithPnl
  <2>3. CASE Commands \/ Continues \/ Sync \/ UNCHANGED vars
    BY <2>3 DEF Commands, Continues, Sync, vars, AddMarket, AddDone, AddFailed, RemoveMarket,
                RemoveDone, UpdateMargin, CloseAll, CloseNext, CloseDone
  <2> QED
    BY <2>1, <2>2, <2>3 DEF Next
<1> QED
  BY <1>1, BotTypesInit, BotTypesNext, InitInv, NextInv, PTL DEF Spec, CompoundsWhatItCounts

-----------------------------------------------------------------------------
\* Sums over the book: Used is a fold, so what it adds up is shown from the
\* equation that defines it, by induction on the number of markets.

\* A set of natural numbers that has 0 and, with each number, the next.
LEMMA AllNumbers ==
  ASSUME NEW P \in SUBSET Nat, 0 \in P, \A n \in P : n + 1 \in P
  PROVE  P = Nat
<1> DEFINE T == Nat \ P
           R == OpToRel(<, Nat)
<1>1. SUFFICES ASSUME T # {} PROVE FALSE
  OBVIOUS
<1>2. IsWellFoundedOn(R, Nat)
  BY NatLessThanWellFounded
<1>3. T \subseteq Nat
  OBVIOUS
<1>4. PICK x \in T : \A y \in T : ~ (<<y, x>> \in R)
  <2> HIDE DEF T, R
  <2> QED
    BY <1>1, <1>2, <1>3, WFMin
<1>5. \A y \in T : ~ (y < x)
  BY <1>4 DEF OpToRel
<1>6. x # 0 /\ x - 1 \in Nat /\ x - 1 < x
  OBVIOUS
<1>7. x - 1 \in P
  BY <1>5, <1>6
<1>8. (x - 1) + 1 \in P
  BY <1>7
<1> QED
  BY <1>6, <1>8

\* The market the fold takes next, and what is left.
Taken(s) == CHOOSE x \in s : TRUE
Rest(s)  == s \ {Taken(s)}

\* The sets of at most n markets of D, and what the fold makes of each.
Sets(D, n) == {s \in SUBSET D : Cardinality(s) <= n}

Summed(S, b, it) ==
  it = [s \in S |-> IF s = {} THEN 0 ELSE b[Taken(s)] + it[Rest(s)]]

\* it is what the fold makes of the sets of markets of b, which is about D.
SumOf(D, b, it) ==
  IsFiniteSet(D) /\ (\A x \in D : b[x] \in Int) /\ Summed(SUBSET D, b, it)

LEMMA TakenIs ==
  ASSUME NEW s, s # {}, IsFiniteSet(s)
  PROVE  /\ Taken(s) \in s /\ IsFiniteSet(Rest(s)) /\ Rest(s) \subseteq s
         /\ Cardinality(s) \in Nat /\ Cardinality(s) # 0
         /\ Cardinality(Rest(s)) = Cardinality(s) - 1
<1>1. Taken(s) \in s
  BY DEF Taken
<1> QED
  BY <1>1, FS_RemoveElement, FS_EmptySet, FS_CardinalityType DEF Rest

LEMMA SumExists ==
  ASSUME NEW D, IsFiniteSet(D), NEW b
  PROVE  \E it : Summed(SUBSET D, b, it)
<1> DEFINE P == {n \in Nat : \E it : Summed(Sets(D, n), b, it)}
<1>1. ASSUME NEW s \in SUBSET D PROVE IsFiniteSet(s) /\ Cardinality(s) \in Nat
  BY FS_Subset, FS_CardinalityType
<1>2. 0 \in P
  <2> DEFINE f == [s \in Sets(D, 0) |-> 0]
  <2>1. ASSUME NEW s \in Sets(D, 0) PROVE s = {}
    <3>1. s \in SUBSET D /\ Cardinality(s) <= 0
      BY DEF Sets
    <3> QED
      BY <1>1, <3>1, TakenIs
  <2>2. Summed(Sets(D, 0), b, f)
    BY <2>1 DEF Summed
  <2> HIDE DEF f
  <2> QED
    BY <2>2
<1>3. ASSUME NEW n \in P PROVE n + 1 \in P
  <2>1. PICK it : Summed(Sets(D, n), b, it)
    BY <1>3
  <2> DEFINE f == [s \in Sets(D, n + 1) |-> IF s = {} THEN 0 ELSE b[Taken(s)] + it[Rest(s)]]
  <2>2. \A s \in Sets(D, n) : s \in Sets(D, n + 1) /\ f[s] = it[s]
    <3>1. \A s \in Sets(D, n) : s \in Sets(D, n + 1)
      BY <1>1 DEF Sets
    <3>2. \A s \in Sets(D, n) : it[s] = IF s = {} THEN 0 ELSE b[Taken(s)] + it[Rest(s)]
      BY <2>1 DEF Summed
    <3> QED
      BY <3>1, <3>2
  <2>3. \A s \in Sets(D, n + 1) : s # {} => Rest(s) \in Sets(D, n)
    BY <1>1, TakenIs DEF Sets
  <2>4. Summed(Sets(D, n + 1), b, f)
    BY <2>2, <2>3 DEF Summed
  <2> HIDE DEF f
  <2> QED
    BY <2>4
<1>4. P \in SUBSET Nat
  OBVIOUS
<1>5. Cardinality(D) \in P
  <2>1. P = Nat
    <3> HIDE DEF P
    <3> QED
      BY <1>2, <1>3, <1>4, AllNumbers
  <2> QED
    BY <2>1, FS_CardinalityType
<1>6. Sets(D, Cardinality(D)) = SUBSET D
  BY FS_Subset DEF Sets
<1> QED
  BY <1>5, <1>6

\* Which market is taken first makes no difference.
Adds(D, b, it) ==
  \A s \in SUBSET D : it[s] \in Int /\ \A m \in s : it[s] = b[m] + it[s \ {m}]

LEMMA SumTakes ==
  ASSUME NEW D, NEW b, NEW it, SumOf(D, b, it)
  PROVE  Adds(D, b, it)
<1> DEFINE Good(s) == it[s] \in Int /\ \A m \in s : it[s] = b[m] + it[s \ {m}]
           P == {n \in Nat : \A s \in SUBSET D : Cardinality(s) <= n => Good(s)}
<1>1. ASSUME NEW s \in SUBSET D PROVE IsFiniteSet(s) /\ Cardinality(s) \in Nat
  BY FS_Subset, FS_CardinalityType DEF SumOf
<1>2. /\ it[{}] = 0
      /\ \A s \in SUBSET D : s # {} => it[s] = b[Taken(s)] + it[Rest(s)]
  BY DEF Summed, SumOf
<1>3. 0 \in P
  <2>1. ASSUME NEW s \in SUBSET D, Cardinality(s) <= 0 PROVE Good(s)
    <3>1. s = {}
      BY <1>1, <2>1, TakenIs
    <3> QED
      BY <1>2, <3>1
  <2> HIDE DEF Good
  <2> QED
    BY <2>1
<1>4. ASSUME NEW n \in P PROVE n + 1 \in P
  <2>1. ASSUME NEW s \in SUBSET D, Cardinality(s) <= n + 1, s # {} PROVE Good(s)
    <3>1. IsFiniteSet(s) /\ n \in Nat /\ Cardinality(s) \in Nat
      BY <1>1
    <3>2. ASSUME NEW t \in SUBSET s, NEW m \in t
          PROVE  Good(t \ {m})
      <4>1. IsFiniteSet(t) /\ Cardinality(t) \in Nat /\ Cardinality(t) <= Cardinality(s)
        BY <3>1, FS_Subset, FS_CardinalityType
      <4>2. t \ {m} \in SUBSET D /\ Cardinality(t \ {m}) <= n
        <5>1. Cardinality(t \ {m}) = Cardinality(t) - 1
          BY <4>1, FS_RemoveElement
        <5> HIDE DEF P, Good
        <5> QED
          BY <2>1, <3>1, <4>1, <5>1
      <4> HIDE DEF Good
      <4> QED
        BY <4>2
    <3> DEFINE c == Taken(s)
    <3>3. c \in s /\ Rest(s) = s \ {c} /\ it[s] = b[c] + it[s \ {c}]
      BY <1>2, <2>1, <3>1, TakenIs DEF Rest
    <3> HIDE DEF c, P
    <3>4. ASSUME NEW m \in s PROVE Good(s \ {m}) /\ b[m] \in Int
      <4>1. b[m] \in Int /\ s \in SUBSET s
        BY DEF SumOf
      <4> HIDE DEF Good
      <4> QED
        BY <3>2, <4>1
    <3>5. it[s] \in Int
      <4>1. it[s \ {c}] \in Int /\ b[c] \in Int
        BY <3>3, <3>4
      <4> QED
        BY <3>3, <4>1
    <3>6. ASSUME NEW m \in s PROVE it[s] = b[m] + it[s \ {m}]
      <4>1. CASE m = c
        BY <3>3, <4>1
      <4>2. CASE m # c
        <5>1. m \in s \ {c} /\ c \in s \ {m} /\ (s \ {c}) \ {m} = (s \ {m}) \ {c}
          BY <3>3, <4>2
        <5> DEFINE x == it[(s \ {c}) \ {m}]
        <5>2. Good(s \ {c}) /\ Good(s \ {m}) /\ b[c] \in Int /\ b[m] \in Int
          BY <3>3, <3>4
        <5>3. Good((s \ {c}) \ {m})
          <6>1. s \ {c} \in SUBSET s
            OBVIOUS
          <6> HIDE DEF Good
          <6> QED
            BY <3>2, <5>1, <6>1
        <5>4. it[s \ {c}] = b[m] + x /\ it[s \ {m}] = b[c] + x /\ x \in Int
          BY <5>1, <5>2, <5>3
        <5> HIDE DEF x
        <5> QED
          BY <3>3, <5>2, <5>4
      <4> QED
        BY <4>1, <4>2
    <3> QED
      BY <3>5, <3>6
  <2>2. Good({})
    BY <1>2
  <2> HIDE DEF Good
  <2> QED
    BY <2>1, <2>2
<1>5. P = Nat
  <2>1. P \in SUBSET Nat
    OBVIOUS
  <2> HIDE DEF P
  <2> QED
    BY <1>3, <1>4, <2>1, AllNumbers
<1> QED
  <2> HIDE DEF Good
  <2>1. \A s \in SUBSET D : Good(s)
    BY <1>1, <1>5
  <2> QED
    BY <2>1 DEF Good, Adds

\* Books that agree on the markets of s have the same sum there.
LEMMA SumsAgree ==
  ASSUME NEW D, NEW b, NEW f, SumOf(D, b, f), NEW E, NEW c, NEW g, SumOf(E, c, g),
         NEW S, S \subseteq D, S \subseteq E, \A x \in S : b[x] = c[x]
  PROVE  f[S] = g[S]
<1> DEFINE P == {n \in Nat : \A s \in SUBSET S : Cardinality(s) <= n => f[s] = g[s]}
<1>1. ASSUME NEW s \in SUBSET S
      PROVE  /\ IsFiniteSet(s) /\ Cardinality(s) \in Nat
             /\ f[s] = IF s = {} THEN 0 ELSE b[Taken(s)] + f[Rest(s)]
             /\ g[s] = IF s = {} THEN 0 ELSE c[Taken(s)] + g[Rest(s)]
  <2>1. s \in SUBSET D /\ s \in SUBSET E
    OBVIOUS
  <2>2. IsFiniteSet(s) /\ Cardinality(s) \in Nat
    BY <2>1, FS_Subset, FS_CardinalityType DEF SumOf
  <2> QED
    BY <2>1, <2>2 DEF Summed, SumOf
<1>2. 0 \in P
  <2>1. ASSUME NEW s \in SUBSET S, Cardinality(s) <= 0 PROVE f[s] = g[s]
    <3>1. s = {}
      BY <1>1, <2>1, TakenIs
    <3> QED
      BY <1>1, <3>1
  <2> QED
    BY <2>1
<1>3. ASSUME NEW n \in P PROVE n + 1 \in P
  <2>1. ASSUME NEW s \in SUBSET S, Cardinality(s) <= n + 1 PROVE f[s] = g[s]
    <3>1. CASE s = {}
      BY <1>1, <3>1
    <3>2. CASE s # {}
      <4>1. /\ Taken(s) \in S /\ Rest(s) \in SUBSET S
            /\ Cardinality(Rest(s)) = Cardinality(s) - 1
        BY <1>1, <3>2, TakenIs
      <4>2. f[Rest(s)] = g[Rest(s)]
        BY <1>1, <2>1, <4>1
      <4> HIDE DEF P
      <4> QED
        BY <1>1, <3>2, <4>1, <4>2
    <3> QED
      BY <3>1, <3>2
  <2> QED
    BY <2>1
<1>4. P = Nat
  <2>1. P \in SUBSET Nat
    OBVIOUS
  <2> HIDE DEF P
  <2> QED
    BY <1>2, <1>3, <2>1, AllNumbers
<1>5. S \in SUBSET S
  OBVIOUS
<1> QED
  BY <1>1, <1>4, <1>5

LEMMA UsedIs ==
  ASSUME NEW b, IsFiniteSet(DOMAIN b), \A x \in DOMAIN b : b[x] \in Int
  PROVE  \E it : SumOf(DOMAIN b, b, it) /\ Used(b) = it[DOMAIN b]
<1> DEFINE F == CHOOSE it : Summed(SUBSET DOMAIN b, b, it)
<1>1. Summed(SUBSET DOMAIN b, b, F)
  BY SumExists
<1>2. Used(b) = F[DOMAIN b]
  BY DEF Used, FoldFunction, FoldFunctionOnSet, MapThenFoldSet, Summed, Taken, Rest
<1>3. SumOf(DOMAIN b, b, F)
  BY <1>1 DEF SumOf
<1> QED
  BY <1>2, <1>3

\* With a market added or changed, Used grows by what its margin does.
LEMMA UsedMoves ==
  ASSUME NEW b, IsFiniteSet(DOMAIN b), \A x \in DOMAIN b : b[x] \in Int,
         NEW m, NEW v \in Int
  PROVE  /\ Used(b) \in Int
         /\ Used(With(b, m, v)) = (Used(b) - (IF m \in DOMAIN b THEN b[m] ELSE 0)) + v
<1>1. PICK c : c = With(b, m, v)
  OBVIOUS
<1>2. PICK D : D = DOMAIN b
  OBVIOUS
<1>3. PICK E : E = D \cup {m}
  OBVIOUS
<1>4. PICK S : S = D \ {m}
  OBVIOUS
<1>5. DOMAIN c = E /\ c[m] = v /\ \A x \in S : b[x] = c[x]
  BY <1>1, <1>2, <1>3, <1>4 DEF With
<1>6. IsFiniteSet(D) /\ \A x \in D : b[x] \in Int
  BY <1>2
<1>7. IsFiniteSet(E) /\ \A x \in E : c[x] \in Int
  <2>1. IsFiniteSet(E)
    BY <1>3, <1>6, FS_AddElement
  <2> QED
    BY <1>3, <1>4, <1>5, <1>6, <2>1
<1>8. PICK f : SumOf(D, b, f) /\ Used(b) = f[D]
  BY <1>2, <1>6, UsedIs
<1>9. PICK g : SumOf(E, c, g) /\ Used(c) = g[E]
  BY <1>5, <1>7, UsedIs
<1>10. Adds(D, b, f)
  BY <1>8, SumTakes
<1>11. Adds(E, c, g)
  BY <1>9, SumTakes
<1>12. f[S] = g[S] /\ f[S] \in Int
  <2>1. S \subseteq D /\ S \subseteq E
    BY <1>3, <1>4
  <2>2. f[S] = g[S]
    BY <1>5, <1>8, <1>9, <2>1, SumsAgree
  <2> QED
    BY <1>10, <2>1, <2>2 DEF Adds
<1>13. Used(c) = v + f[S]
  <2>1. E \in SUBSET E /\ m \in E /\ E \ {m} = S
    BY <1>3, <1>4
  <2> QED
    BY <1>5, <1>9, <1>11, <1>12, <2>1 DEF Adds
<1>14. Used(b) = (IF m \in D THEN b[m] ELSE 0) + f[S]
  <2>1. CASE m \in D
    BY <1>4, <1>8, <1>10, <2>1 DEF Adds
  <2>2. CASE m \notin D
    <3>1. S = D
      BY <1>4, <2>2
    <3> QED
      BY <1>8, <1>12, <2>2, <3>1
  <2> QED
    BY <2>1, <2>2
<1>15. (IF m \in D THEN b[m] ELSE 0) \in Int
  BY <1>6
<1>16. Used(c) = (Used(b) - (IF m \in D THEN b[m] ELSE 0)) + v /\ Used(b) \in Int
  BY <1>12, <1>13, <1>14, <1>15
<1> QED
  BY <1>1, <1>2, <1>16

LEMMA BookIs ==
  ASSUME BotTypes
  PROVE  IsFiniteSet(DOMAIN book) /\ \A x \in DOMAIN book : book[x] \in Int
BY BotAssumption, FS_Subset DEF BotTypes, TypeOK

\* A book with fewer markets, or the same, raises nothing.
LEMMA NotRaised ==
  ASSUME BotTypes, \/ book' = book \/ book' = <<>>
                   \/ \E m : book' = Without(book, m)
  PROVE  ~Raises
<1>1. \A x \in DOMAIN book' : x \in DOMAIN book /\ book'[x] = book[x]
  <2>1. DOMAIN <<>> = {}
    OBVIOUS
  <2>2. CASE \E m : book' = Without(book, m)
    BY <2>2 DEF Without
  <2> QED
    BY <2>1, <2>2
<1>2. \A x \in DOMAIN book : ~(book[x] > book[x])
  BY BookIs
<1> QED
  BY <1>1, <1>2 DEF Raises

\* What is free covers what a new market gets.
LEMMA AddCovered ==
  ASSUME Inv, BotTypes, NEW m \in Mints, NEW a \in Allocs, AddMarket(m, a), Raises
  PROVE  Used(book') <= total'
<1> DEFINE n == Requested(a)
<1>1. Allocates(a)
  BY NotRaised DEF AddMarket
<1>2. book' = With(book, m, n) /\ m \notin DOMAIN book /\ total' = wallet
  BY <1>1 DEF AddMarket, Synced, Inv, Domains, Select
<1>3. n \in Int /\ n > 0 /\ n <= Free(wallet)
  <2>1. \A x, y : x \in 1 .. y => x \in Int /\ x > 0 /\ x <= y
    OBVIOUS
  <2> QED
    BY <1>1, <2>1 DEF Allocates
<1> HIDE DEF n
<1>4. Used(book) \in Int /\ Used(book') = Used(book) - 0 + n
  BY <1>2, <1>3, BookIs, UsedMoves
<1>5. wallet \in Int
  BY DEF BotTypes, TypeOK
<1> QED
  BY <1>2, <1>3, <1>4, <1>5 DEF Free

\* What is free and what the market has cover what it gets.
LEMMA UpdateCovered ==
  ASSUME Inv, BotTypes, NEW m \in Mints, NEW n \in Updates, UpdateMargin(m, n), Raises
  PROVE  Used(book') <= total'
<1>1. Updatable(m, n)
  BY NotRaised DEF UpdateMargin
<1>2. book' = With(book, m, n) /\ m \in DOMAIN book /\ total' = wallet
  BY <1>1 DEF UpdateMargin, Synced, Inv, Domains, Select
<1>3. n \in Int /\ wallet \in Int /\ book[m] \in Int
  BY <1>2, BookIs, BotAssumption DEF BotTypes, TypeOK
<1>4. Used(book) \in Int /\ Used(book') = (Used(book) - book[m]) + n
  BY <1>2, <1>3, BookIs, UsedMoves
<1>5. n > book[m]
  <2>1. PICK x \in DOMAIN book' : x \notin DOMAIN book \/ book'[x] > book[x]
    BY DEF Raises
  <2>2. x # m => x \in DOMAIN book /\ book'[x] = book[x]
    BY <1>2, <2>1 DEF With
  <2>3. x # m => ~(book'[x] > book[x])
    BY <2>2, BookIs
  <2> QED
    BY <1>2, <2>1, <2>2, <2>3 DEF With
<1>6. n <= Free(total') + book[m]
  BY <1>1 DEF Updatable
<1> QED
  BY <1>2, <1>3, <1>4, <1>5, <1>6 DEF Free

\* No command raises a margin beyond what the wallet was just found to hold:
\* what Free saturates away is not given out, however far the book is overdrawn.
THEOREM RaisesAreCovered == Spec => RaisesCovered
<1>1. Inv /\ BotTypes /\ [Next]_vars =>
        [Raises /\ events' = events => Used(book') <= total']_vars
  <2> SUFFICES ASSUME Inv, BotTypes, Next, Raises, events' = events
               PROVE  Used(book') <= total'
    OBVIOUS
  <2>1. CASE Commands
    <3>1. CASE UNCHANGED book
      BY <3>1, NotRaised
    <3> QED
      BY <2>1, <3>1, AddCovered, UpdateCovered DEF Commands, RemoveMarket, CloseAll
  <2>2. CASE Continues
    BY <2>2, NotRaised DEF Continues, AddDone, AddFailed, RemoveDone, CloseNext, CloseDone
  <2>3. CASE Handle
    <3>1. events \in Seq(Event) /\ events # <<>> /\ events' = Tail(events)
      BY <2>3 DEF Handle, BotTypes
    <3>2. Len(Tail(events)) # Len(events)
      BY <3>1, HeadTailProperties
    <3> QED
      BY <3>1, <3>2
  <2>4. CASE Outside \/ Sync \/ UNCHANGED vars
    BY <2>4, NotRaised DEF Outside, MarketTells, Traded, EngineDies, WalletMoves, Sync, vars
  <2> QED
    BY <2>1, <2>2, <2>3, <2>4 DEF Next
<1> QED
  BY <1>1, BotTypesInit, BotTypesNext, InitInv, NextInv, PTL DEF Spec, RaisesCovered

=============================================================================
