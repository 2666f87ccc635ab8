---------------------------- MODULE ConsoleProofs ----------------------------
(***************************************************************************)
(* What a key does and what quitting asks, for any number of mints, keys   *)
(* pressed, capacity of the queue and threads.                             *)
(*                                                                         *)
(* Neither is inductive.  A key that waits concerns the market selected    *)
(* unless that market is gone for as long as the key waits, which needs to *)
(* know that a snapshot is answered after every command sent before it     *)
(* (Line).  Quitting in time is a count of the graces that are over        *)
(* (Leave).                                                                *)
(***************************************************************************)
EXTENDS Console, SequenceTheorems, FiniteSetTheorems, TLAPS

LEMMA ConsoleConstants ==
  /\ Mints \subseteq Nat /\ IsFiniteSet(Mints) /\ None \notin Mints
  /\ QueueCap \in Nat \ {0} /\ Presses \in Nat
  /\ Threads \in Nat /\ Cardinality(Mints) \in Nat
BY ConsoleAssumption, FS_CardinalityType

-----------------------------------------------------------------------------
\* The list: sorted by mint, each mint has a place of its own and each place
\* below the length has a mint.

LEMMA PlaceBelow ==
  ASSUME NEW s, DOMAIN s \subseteq Mints, NEW m \in DOMAIN s
  PROVE  /\ IsFiniteSet(DOMAIN s) /\ Cardinality(DOMAIN s) \in Nat
         /\ Place(s, m) \in Nat /\ Place(s, m) < Cardinality(DOMAIN s)
<1> DEFINE D == DOMAIN s
           L == {x \in D : x < m}
<1>1. IsFiniteSet(D) /\ Cardinality(D) \in Nat
  BY ConsoleConstants, FS_Subset, FS_CardinalityType
<1>2. m \in Nat /\ m \notin L /\ L \subseteq D
  <2>1. m \in Nat
    BY ConsoleConstants
  <2>2. ~(m < m)
    BY <2>1
  <2> QED
    BY <2>1, <2>2
<1>3. /\ IsFiniteSet(L) /\ Cardinality(L) \in Nat /\ Cardinality(L) <= Cardinality(D)
      /\ Cardinality(L) # Cardinality(D)
  <2>1. IsFiniteSet(L) /\ Cardinality(L) <= Cardinality(D)
        /\ (Cardinality(D) = Cardinality(L) => D = L)
    <3> HIDE DEF D, L
    <3> QED
      BY <1>1, <1>2, FS_Subset
  <2>2. D # L
    BY <1>2
  <2> HIDE DEF D, L
  <2> QED
    BY <2>1, <2>2, FS_CardinalityType
<1> QED
  BY <1>1, <1>3 DEF Place

LEMMA PlacesDiffer ==
  ASSUME NEW s, DOMAIN s \subseteq Mints, NEW m \in DOMAIN s, NEW o \in DOMAIN s, m < o
  PROVE  Place(s, m) < Place(s, o)
<1> DEFINE L == {x \in DOMAIN s : x < m}
           H == {x \in DOMAIN s : x < o}
<1>1. L \subseteq H /\ m \in H /\ m \notin L
  <2>1. m \in Nat /\ o \in Nat /\ \A x \in DOMAIN s : x \in Nat
    BY ConsoleConstants
  <2>2. ~(m < m) /\ \A x \in DOMAIN s : x < m => x < o
    BY <2>1
  <2> QED
    BY <2>2
<1>2. IsFiniteSet(H)
  <2>1. IsFiniteSet(DOMAIN s) /\ H \subseteq DOMAIN s
    BY PlaceBelow
  <2> HIDE DEF H
  <2> QED
    BY <2>1, FS_Subset
<1>3. Cardinality(L) < Cardinality(H)
  <2> HIDE DEF L, H
  <2>1. /\ IsFiniteSet(L) /\ Cardinality(L) <= Cardinality(H)
        /\ Cardinality(H) = Cardinality(L) => H = L
    BY <1>1, <1>2, FS_Subset
  <2>2. Cardinality(L) \in Nat /\ Cardinality(H) \in Nat
    BY <1>2, <2>1, FS_CardinalityType
  <2> QED
    BY <1>1, <2>1, <2>2
<1> QED
  BY <1>3 DEF Place

LEMMA PlaceIsOne ==
  ASSUME NEW s, DOMAIN s \subseteq Mints, NEW m \in DOMAIN s, NEW o \in DOMAIN s,
         Place(s, m) = Place(s, o)
  PROVE  m = o
<1>1. m \in Nat /\ o \in Nat /\ Place(s, m) \in Nat
  BY ConsoleConstants, PlaceBelow
<1>2. ~(m < o) /\ ~(o < m)
  BY <1>1, PlacesDiffer
<1> QED
  BY <1>1, <1>2

LEMMA PlaceTaken ==
  ASSUME NEW s, DOMAIN s \subseteq Mints, NEW n \in Nat, n < Cardinality(DOMAIN s)
  PROVE  \E m \in DOMAIN s : Place(s, m) = n
<1> DEFINE D == DOMAIN s
           N == 0 .. Cardinality(D) - 1
           f == [m \in D |-> Place(s, m)]
<1>1. IsFiniteSet(D) /\ Cardinality(D) \in Nat
  BY ConsoleConstants, FS_Subset, FS_CardinalityType
<1>2. IsFiniteSet(N) /\ Cardinality(N) = Cardinality(D) /\ n \in N
  <2>1. PICK k \in Nat : k = Cardinality(D)
    BY <1>1
  <2>2. k - 1 \in Int /\ (0 > k - 1 => k = 0) /\ (k - 1) - 0 + 1 = k
    BY <2>1
  <2>3. IsFiniteSet(0 .. k - 1) /\ Cardinality(0 .. k - 1) = k
    <3>1. IsFiniteSet(0 .. k - 1)
          /\ Cardinality(0 .. k - 1) = IF 0 > k - 1 THEN 0 ELSE (k - 1) - 0 + 1
      BY <2>2, FS_Interval
    <3> QED
      BY <2>2, <3>1
  <2>4. n \in 0 .. k - 1
    BY <2>1
  <2> QED
    BY <2>1, <2>3, <2>4
<1>3. f \in Injection(D, N)
  <2>1. f \in [D -> N]
    BY <1>1, PlaceBelow
  <2>2. \A m, o \in D : f[m] = f[o] => m = o
    BY PlaceIsOne
  <2> QED
    BY <2>1, <2>2 DEF Injection, IsInjective
<1>4. f \in Surjection(D, N)
  <2> HIDE DEF D, N, f
  <2> QED
    BY <1>2, <1>3, FS_Injection
<1>5. \E m \in D : f[m] = n
  <2> HIDE DEF f, N
  <2> QED
    BY <1>2, <1>4 DEF Surjection
<1> QED
  BY <1>5

\* The selection is a market of the list, the one at the place selected.
Listed ==
  /\ DOMAIN shown \subseteq Mints /\ selected \in Nat
  /\ IF DOMAIN shown = {} THEN selected = 0 ELSE selected < Cardinality(DOMAIN shown)

LEMMA SelectionIs ==
  ASSUME Listed
  PROVE  /\ Selection \in Mints \cup {None}
         /\ DOMAIN shown # {} => Selection \in DOMAIN shown /\ Place(shown, Selection) = selected
         /\ \A m \in DOMAIN shown : Place(shown, m) = selected => Selection = m
<1>1. CASE DOMAIN shown = {}
  BY <1>1 DEF Selection
<1>2. CASE DOMAIN shown # {}
  <2>1. \E m \in DOMAIN shown : Place(shown, m) = selected
    BY <1>2, PlaceTaken DEF Listed
  <2>2. Selection \in DOMAIN shown /\ Place(shown, Selection) = selected
    BY <1>2, <2>1 DEF Selection
  <2> QED
    BY <2>2, PlaceIsOne DEF Listed
<1> QED
  BY <1>1, <1>2

\* A new list keeps the selection, if it has it.
LEMMA SnapshotKeeps ==
  ASSUME Listed, NEW s, DOMAIN s \subseteq Mints, SetSnapshot(s)
  PROVE  /\ Listed'
         /\ Selection \in DOMAIN s => Selection' = Selection
<1> DEFINE n == Cardinality(DOMAIN s)
<1>1. IsFiniteSet(DOMAIN s) /\ n \in Nat /\ (n = 0 <=> DOMAIN s = {})
  BY ConsoleConstants, FS_Subset, FS_CardinalityType, FS_EmptySet
<1>2. shown' = s
  BY DEF SetSnapshot
<1>3. selected' = IF n = 0 THEN 0
                  ELSE IF Selection \in DOMAIN s THEN Place(s, Selection)
                  ELSE IF selected < n THEN selected ELSE n - 1
  BY DEF SetSnapshot
<1>4. Selection \in DOMAIN s => Place(s, Selection) \in Nat /\ Place(s, Selection) < n
  BY PlaceBelow
<1>5. Listed'
  BY <1>1, <1>2, <1>3, <1>4 DEF Listed
<1>6. ASSUME Selection \in DOMAIN s PROVE Selection' = Selection
  <2>1. DOMAIN s # {} /\ selected' = Place(s, Selection)
    BY <1>1, <1>3, <1>6
  <2>2. Selection' = CHOOSE m \in DOMAIN s : Place(s, m) = Place(s, Selection)
    BY <1>2, <2>1 DEF Selection, Place
  <2>3. \A m \in DOMAIN s : Place(s, m) = Place(s, Selection) => m = Selection
    BY <1>6, PlaceIsOne
  <2> QED
    BY <1>6, <2>2, <2>3
<1> QED
  BY <1>5, <1>6

-----------------------------------------------------------------------------
\* Types, and where the UI and the bot may be.

Cmd == {c \in [op : Ops, mint : Mints \cup {None}, live : BOOLEAN] :
          c.op = "AddMarket" => c.mint \in Mints}

UiIs ==
  \/ \E p \in {"loop", "waiting", "adding", "exited"} : ui = At(p)
  \/ \E c \in Cmd, on \in Mints \cup {None} : ui = SendingFor(c, on)
  \/ \E s : DOMAIN s \subseteq Mints /\ ui = Answered(s)
  \/ \E n \in 0 .. KILL_WAIT_SECS : ui = Leaving(n)

Controls == {"Pause", "Resume", "ForceClose", "Kill"}

ClosingAt(m, left, kill, plan, grace) ==
  [op |-> "closing", mint |-> m, plan |-> plan, left |-> left, kill |-> kill, grace |-> grace]

\* The market a command is about is there until the command is done, and so
\* are those still to be closed.
WorkIs ==
  \/ work = Select \/ work = Stopped
  \/ \E m \in Mints, live \in BOOLEAN : work = Adding(m, live)
  \/ \E m \in DOMAIN session, c \in {"Pause", "Resume"} : work = Telling(m, c)
  \/ \E m \in DOMAIN session, left \in SUBSET DOMAIN session, kill \in BOOLEAN,
        plan \in Seq(Controls), grace \in 0 .. CLOSE_GRACE_SECS :
       /\ work = ClosingAt(m, left, kill, plan, grace)
       /\ m \notin left /\ (plan # <<>> => grace = CLOSE_GRACE_SECS)

Owned ==
  /\ DOMAIN session \subseteq Mints
  /\ paused \cup away \cup sends \cup crossed \subseteq DOMAIN session

Queued == queue \in Seq(Cmd) /\ Len(queue) <= QueueCap

Types ==
  /\ mode \in {"Normal", "Add", "ConfirmQuit"} /\ key.on \in Mints \cup {None}
  /\ UiIs /\ WorkIs /\ Listed /\ Owned /\ Queued

LEMMA MovedIs ==
  ASSUME Listed, NEW step \in {-1, 1}
  PROVE  /\ Moved(step) \in Nat
         /\ IF DOMAIN shown = {} THEN Moved(step) = 0
            ELSE Moved(step) < Cardinality(DOMAIN shown)
<1>1. PICK n \in Nat : n = Cardinality(DOMAIN shown) /\ (n = 0 <=> DOMAIN shown = {})
  BY ConsoleConstants, FS_Subset, FS_CardinalityType, FS_EmptySet DEF Listed
<1>2. Moved(step) = IF n = 0 THEN selected ELSE (selected + n + step) % n
  BY <1>1 DEF Moved
<1>3. selected \in Nat
  BY DEF Listed
<1>4. CASE n = 0
  BY <1>1, <1>2, <1>4 DEF Listed
<1>5. CASE n # 0
  <2>1. PICK x \in Int : x = selected + n + step
    BY <1>3
  <2>2. x % n \in Nat /\ x % n < n
    BY <1>5
  <2>3. Moved(step) = x % n
    BY <1>2, <1>5, <2>1
  <2> QED
    BY <1>1, <1>5, <2>2, <2>3
<1> QED
  BY <1>4, <1>5

LEMMA CommandIs ==
  ASSUME NEW op \in Ops, NEW m \in Mints \cup {None}, op = "AddMarket" => m \in Mints
  PROVE  Command(op, m) \in Cmd /\ Command(op, m).op = op /\ Command(op, m).mint = m
BY DEF Command, Cmd

LEMMA Going ==
  /\ At("loop").at = "loop" /\ At("waiting").at = "waiting"
  /\ At("adding").at = "adding" /\ At("exited").at = "exited"
  /\ \A c, on : SendingFor(c, on).at = "sending" /\ SendingFor(c, on).cmd = c
                /\ SendingFor(c, on).on = on
  /\ \A s : Answered(s).at = "answered" /\ Answered(s).snap = s
  /\ \A n : Leaving(n).at = "leaving" /\ Leaving(n).left = n
BY DEF At, SendingFor, Answered, Leaving

\* What a key makes of the UI.
LEMMA KeyTypes ==
  ASSUME Types, HandleKey
  PROVE  Types'
<1>1. /\ UNCHANGED <<shown, queue, work, session, paused, away, sends, crossed>>
      /\ key' = NoKey /\ ui = At("loop")
      /\ NormalKey(key.code) \/ AddKey(key.code) \/ ConfirmQuitKey(key.code)
  BY DEF HandleKey, AtLoop, botVars, taskVars, seen
<1>2. WorkIs' /\ Owned' /\ Queued' /\ key'.on \in Mints \cup {None}
  BY <1>1 DEF Types, WorkIs, Owned, Queued, NoKey
<1>3. mode' \in {"Normal", "Add", "ConfirmQuit"}
  BY <1>1 DEF Types, NormalKey, AddKey, ConfirmQuitKey
<1>4. Listed'
  <2>1. selected' \in {selected, Moved(-1), Moved(1)}
    BY <1>1 DEF NormalKey, AddKey, ConfirmQuitKey
  <2> QED
    BY <1>1, <2>1, MovedIs DEF Types, Listed
<1>5. UiIs'
  <2>1. \/ ui' = ui
        \/ ui' = Quit
        \/ \E m \in Mints : ui' = Sending(Command("AddMarket", m))
        \/ \E op \in {"RemoveMarket", "PauseMarket", "ResumeMarket"} :
             ui' = SendingFor(Command(op, Selection), key.on)
    <3>1. CASE NormalKey(key.code)
      BY <3>1 DEF NormalKey
    <3>2. CASE AddKey(key.code)
      BY <3>2 DEF AddKey
    <3>3. CASE ConfirmQuitKey(key.code)
      BY <3>3 DEF ConfirmQuitKey
    <3> QED
      BY <1>1, <3>1, <3>2, <3>3
  <2>2. CASE ui' = ui
    BY <1>1, <2>2 DEF UiIs
  <2>3. CASE ui' = Quit
    <3>1. Command("Kill", None) \in Cmd
      BY CommandIs DEF Ops
    <3> QED
      BY <2>3, <3>1 DEF UiIs, Quit, Sending
  <2>4. ASSUME NEW m \in Mints, ui' = Sending(Command("AddMarket", m)) PROVE UiIs'
    <3>1. Command("AddMarket", m) \in Cmd
      BY CommandIs DEF Ops
    <3> QED
      BY <2>4, <3>1 DEF UiIs, Sending
  <2>5. ASSUME NEW op \in {"RemoveMarket", "PauseMarket", "ResumeMarket"},
               ui' = SendingFor(Command(op, Selection), key.on)
        PROVE  UiIs'
    <3>1. Command(op, Selection) \in Cmd
      BY CommandIs, SelectionIs DEF Ops, Types
    <3> QED
      BY <2>5, <3>1 DEF UiIs, Types
  <2> QED
    BY <2>1, <2>2, <2>3, <2>4, <2>5
<1> QED
  BY <1>2, <1>3, <1>4, <1>5 DEF Types

\* The rest of what the UI does, but for taking an answer.
LEMMA UiTypes ==
  ASSUME Types,
         SnapshotTick \/ UiSends \/ UiAnswered \/ AskTimesOut \/ ProcessEnds \/ \E k \in Keys : Press(k)
  PROVE  Types'
<1>1. CASE SnapshotTick
  <2>1. Command("GetSnapshot", None) \in Cmd
    BY CommandIs DEF Ops
  <2>2. UiIs'
    BY <1>1, <2>1 DEF SnapshotTick, Sending, UiIs
  <2> QED
    BY <1>1, <2>2 DEF SnapshotTick, Types, WorkIs, Listed, Owned, Queued, botVars, taskVars, seen
<1>2. CASE UiSends
  <2>1. UNCHANGED <<mode, shown, selected, key, work, session, paused, away, sends, crossed>>
    BY <1>2 DEF UiSends, taskVars, seen
  <2>2. PICK c \in Cmd, on \in Mints \cup {None} : ui = SendingFor(c, on)
    BY <1>2, Going DEF UiSends, Types, UiIs
  <2>3. UiIs'
    <3>1. ui' \in {At("loop"), At("waiting"), At("adding"), Leaving(KILL_WAIT_SECS)}
      BY <1>2 DEF UiSends
    <3> QED
      BY <3>1 DEF UiIs, KILL_WAIT_SECS
  <2>4. Queued'
    <3>1. queue' = Append(queue, c) /\ Len(queue) < QueueCap
      BY <1>2, <2>2, Going DEF UiSends
    <3>2. queue' \in Seq(Cmd) /\ Len(queue') = Len(queue) + 1 /\ Len(queue) \in Nat
      BY <3>1, AppendProperties DEF Types, Queued
    <3> QED
      BY <3>1, <3>2, ConsoleConstants DEF Queued
  <2> QED
    BY <2>1, <2>3, <2>4 DEF Types, WorkIs, Listed, Owned
<1>3. CASE UiAnswered
  <2>1. PICK s : DOMAIN s \subseteq Mints /\ ui = Answered(s)
    BY <1>3, Going DEF UiAnswered, Types, UiIs
  <2>2. SetSnapshot(s) /\ ui' = At("loop")
        /\ UNCHANGED <<mode, key, queue, work, session, paused, away, sends, crossed>>
    BY <1>3, <2>1, Going DEF UiAnswered, botVars, taskVars, seen
  <2>3. Listed'
    BY <2>1, <2>2, SnapshotKeeps DEF Types
  <2>4. UiIs'
    BY <2>2 DEF UiIs
  <2> QED
    BY <2>2, <2>3, <2>4 DEF Types, WorkIs, Owned, Queued
<1>4. CASE AskTimesOut \/ ProcessEnds
  <2>1. ui' \in {At("loop"), At("exited")}
        /\ UNCHANGED <<mode, shown, selected, key, queue, work, session, paused, away, sends, crossed>>
    BY <1>4 DEF AskTimesOut, ProcessEnds, botVars, taskVars, seen
  <2>2. UiIs'
    BY <2>1 DEF UiIs
  <2> QED
    BY <2>1, <2>2 DEF Types, WorkIs, Listed, Owned, Queued
<1>5. ASSUME NEW k \in Keys, Press(k) PROVE Types'
  <2>1. key' = [code |-> k, on |-> Selection]
        /\ UNCHANGED <<ui, mode, shown, selected, queue, work, session, paused, away, sends, crossed>>
    BY <1>5 DEF Press, botVars, taskVars, seen
  <2>2. key'.on \in Mints \cup {None}
    BY <2>1, SelectionIs DEF Types
  <2> QED
    BY <2>1, <2>2 DEF Types, UiIs, WorkIs, Listed, Owned, Queued
<1> QED
  BY <1>1, <1>2, <1>3, <1>4, <1>5

\* Nobody waits for what is in the queue any more.
LEMMA ReplyTypes ==
  ASSUME Types, ReplyTimesOut
  PROVE  Types'
<1>1. /\ ui' = At("loop") /\ mode' = IF ui.at = "adding" THEN "Normal" ELSE mode
      /\ queue' = [i \in DOMAIN queue |-> [queue[i] EXCEPT !.live = FALSE]]
      /\ work' = IF work.op = "adding" THEN [work EXCEPT !.live = FALSE] ELSE work
      /\ UNCHANGED <<shown, selected, key, session, paused, away, sends, crossed>>
  BY DEF ReplyTimesOut, taskVars, seen
<1>2. UiIs' /\ Owned' /\ Listed' /\ mode' \in {"Normal", "Add", "ConfirmQuit"}
      /\ key'.on \in Mints \cup {None}
  BY <1>1 DEF UiIs, Types, Owned, Listed
<1>3. WorkIs'
  <2>1. CASE work.op = "adding"
    <3>1. PICK m \in Mints, live \in BOOLEAN : work = Adding(m, live)
      BY <2>1 DEF Types, WorkIs, Select, Stopped, Telling, ClosingAt
    <3>2. work' = Adding(m, FALSE)
      BY <1>1, <2>1, <3>1 DEF Adding
    <3> QED
      BY <3>2 DEF WorkIs
  <2>2. CASE work.op # "adding"
    BY <1>1, <2>2 DEF Types, WorkIs
  <2> QED
    BY <2>1, <2>2
<1>4. Queued'
  <2>1. queue \in Seq(Cmd) /\ Len(queue) \in Nat /\ DOMAIN queue = 1 .. Len(queue)
    BY DEF Types, Queued
  <2>2. ASSUME NEW c \in Cmd PROVE [c EXCEPT !.live = FALSE] \in Cmd
    BY DEF Cmd
  <2>3. queue' \in [1 .. Len(queue) -> Cmd]
    BY <1>1, <2>1, <2>2
  <2>4. queue' \in Seq(Cmd) /\ Len(queue') = Len(queue)
    BY <2>1, <2>3
  <2> QED
    BY <2>4 DEF Types, Queued
<1> QED
  BY <1>2, <1>3, <1>4 DEF Types

LEMMA PlanIs == <<"Pause", "ForceClose", "Kill">> \in Seq(Controls)
<1>1. "Pause" \in Controls /\ "ForceClose" \in Controls /\ "Kill" \in Controls
  BY DEF Controls
<1> HIDE DEF Controls
<1> QED
  BY <1>1

LEMMA ClosingAtIs ==
  ASSUME NEW m \in DOMAIN session', NEW left \in SUBSET DOMAIN session', m \notin left,
         NEW kill \in BOOLEAN, NEW plan \in Seq(Controls), NEW grace \in 0 .. CLOSE_GRACE_SECS,
         plan # <<>> => grace = CLOSE_GRACE_SECS, work' = ClosingAt(m, left, kill, plan, grace)
  PROVE  WorkIs'
BY DEF WorkIs

LEMMA ClosingIs ==
  ASSUME NEW m \in DOMAIN session', NEW left \in SUBSET DOMAIN session', m \notin left,
         NEW kill \in BOOLEAN, work' = Closing(m, left, kill)
  PROVE  WorkIs'
<1>1. PICK plan \in Seq(Controls) : plan = <<"Pause", "ForceClose", "Kill">>
  BY PlanIs
<1>2. work' = ClosingAt(m, left, kill, plan, CLOSE_GRACE_SECS)
  BY <1>1 DEF Closing, ClosingAt
<1>3. CLOSE_GRACE_SECS \in 0 .. CLOSE_GRACE_SECS
  BY DEF CLOSE_GRACE_SECS
<1> QED
  BY <1>2, <1>3, ClosingAtIs

\* The bot takes a command.
LEMMA TakeTypes ==
  ASSUME Types,
         \/ TakeGetSnapshot \/ TakeAddMarket \/ TakeKill
         \/ \E op \in {"PauseMarket", "ResumeMarket", "RemoveMarket"} : TakeControl(op)
  PROVE  Types'
<1>1. /\ queue # <<>> /\ queue' = Tail(queue) /\ work = Select
      /\ UNCHANGED <<shown, selected, key, session, paused, away, sends, crossed>>
  BY DEF TakeGetSnapshot, TakeAddMarket, TakeKill, TakeControl, Take, taskVars, seen
<1>2. Queued'
  <2>1. queue \in Seq(Cmd) /\ Len(queue) \in Nat /\ Len(queue) <= QueueCap
    BY DEF Types, Queued
  <2>2. Tail(queue) \in Seq(Cmd) /\ Len(Tail(queue)) = Len(queue) - 1
    BY <1>1, <2>1, HeadTailProperties
  <2> QED
    BY <1>1, <2>1, <2>2, ConsoleConstants DEF Queued
<1>3. Listed' /\ Owned' /\ key'.on \in Mints \cup {None}
  BY <1>1 DEF Types, Listed, Owned
<1>4. PICK c \in Cmd : c = Head(queue)
  BY <1>1, HeadTailProperties DEF Types, Queued
<1>5. DOMAIN session \subseteq Mints
  BY DEF Types, Owned
<1>6. CASE TakeGetSnapshot
  <2>1. mode' = mode /\ work' = work /\ (ui' = ui \/ ui' = Answered(session))
    BY <1>6 DEF TakeGetSnapshot
  <2>2. UiIs'
    BY <1>5, <2>1 DEF Types, UiIs
  <2>3. WorkIs'
    BY <1>1, <2>1 DEF WorkIs
  <2> QED
    BY <1>2, <1>3, <2>1, <2>2, <2>3 DEF Types
<1>7. CASE TakeAddMarket
  <2>1. c.op = "AddMarket" /\ c.mint \in Mints /\ c.live \in BOOLEAN
    BY <1>4, <1>7 DEF TakeAddMarket, Take, Cmd
  <2>2. work' \in {work, Adding(c.mint, c.live)} /\ ui' \in {ui, At("loop")} /\ mode' = mode
    BY <1>4, <1>7 DEF TakeAddMarket, AddReply
  <2>3. WorkIs'
    BY <1>1, <2>1, <2>2 DEF WorkIs
  <2>4. UiIs'
    BY <2>2 DEF Types, UiIs
  <2> QED
    BY <1>2, <1>3, <2>2, <2>3, <2>4 DEF Types
<1>8. ASSUME NEW m \in DOMAIN session, NEW left \in SUBSET DOMAIN session, m \notin left,
             NEW kill \in BOOLEAN, work' = Closing(m, left, kill)
      PROVE  WorkIs'
  BY <1>1, <1>8, ClosingIs
<1>9. CASE TakeKill
  <2>1. UNCHANGED <<ui, mode>>
    BY <1>9 DEF TakeKill
  <2>2. WorkIs'
    <3>1. CASE DOMAIN session = {}
      BY <1>9, <3>1 DEF TakeKill, WorkIs
    <3>2. CASE DOMAIN session # {}
      <4>1. PICK m \in DOMAIN session : work' = Closing(m, DOMAIN session \ {m}, TRUE)
        BY <1>9, <3>2 DEF TakeKill
      <4>2. DOMAIN session \ {m} \in SUBSET DOMAIN session /\ m \notin DOMAIN session \ {m}
        OBVIOUS
      <4> QED
        BY <1>8, <4>1, <4>2
    <3> QED
      BY <3>1, <3>2
  <2> QED
    BY <1>2, <1>3, <2>1, <2>2 DEF Types, UiIs
<1>10. ASSUME NEW op \in {"PauseMarket", "ResumeMarket", "RemoveMarket"}, TakeControl(op)
       PROVE  Types'
  <2>1. UNCHANGED <<ui, mode>>
    BY <1>10 DEF TakeControl
  <2>2. WorkIs'
    <3>1. CASE c.mint \notin DOMAIN session
      BY <1>4, <1>10, <3>1 DEF TakeControl, WorkIs
    <3>2. CASE c.mint \in DOMAIN session /\ op = "RemoveMarket"
      <4>1. work' = Closing(c.mint, {}, FALSE)
        BY <1>4, <1>10, <3>2 DEF TakeControl
      <4> QED
        BY <1>8, <3>2, <4>1
    <3>3. CASE c.mint \in DOMAIN session /\ op # "RemoveMarket"
      <4>1. work' \in {Telling(c.mint, "Pause"), Telling(c.mint, "Resume")}
        BY <1>4, <1>10, <3>3 DEF TakeControl
      <4> QED
        BY <1>1, <3>3, <4>1 DEF WorkIs
    <3> QED
      BY <3>1, <3>2, <3>3
  <2> QED
    BY <1>2, <1>3, <2>1, <2>2 DEF Types, UiIs
<1> QED
  BY <1>6, <1>7, <1>9, <1>10

\* What the bot is in the middle of, by its op.
LEMMA WorkOps ==
  ASSUME Types
  PROVE  /\ work.op = "adding" => \E m \in Mints, live \in BOOLEAN : work = Adding(m, live)
         /\ work.op = "telling" =>
              \E m \in DOMAIN session, c \in {"Pause", "Resume"} : work = Telling(m, c)
         /\ work.op = "closing" =>
              \E m \in DOMAIN session, left \in SUBSET DOMAIN session, kill \in BOOLEAN,
                 plan \in Seq(Controls), grace \in 0 .. CLOSE_GRACE_SECS :
                /\ work = ClosingAt(m, left, kill, plan, grace)
                /\ m \notin left /\ (plan # <<>> => grace = CLOSE_GRACE_SECS)
BY DEF Types, WorkIs, Select, Stopped, Adding, Telling, ClosingAt

LEMMA AddEndsTypes ==
  ASSUME Types, AddEnds
  PROVE  Types'
<1>1. PICK m \in Mints, live \in BOOLEAN : work = Adding(m, live)
  BY WorkOps DEF AddEnds
<1>2. work.mint = m /\ work.live = live
  BY <1>1 DEF Adding
<1>3. PICK ok \in BOOLEAN :
        /\ AddReply(live, ok)
        /\ session' = IF ok THEN [x \in DOMAIN session \cup {m} |-> IF x = m THEN FALSE ELSE session[x]]
                      ELSE session
        /\ crossed' = IF ok /\ \E i \in DOMAIN news : news[i].mint = m
                      THEN crossed \cup {m} ELSE crossed
  BY <1>2 DEF AddEnds
<1>4. /\ work' = Select /\ UNCHANGED <<shown, selected, key, queue, paused, away, sends>>
  BY DEF AddEnds, taskVars
<1>5. DOMAIN session' = IF ok THEN DOMAIN session \cup {m} ELSE DOMAIN session
  BY <1>3
<1>6. Owned'
  BY <1>3, <1>4, <1>5 DEF Types, Owned
<1>7. UiIs' /\ mode' \in {"Normal", "Add", "ConfirmQuit"}
  BY <1>3 DEF AddReply, Types, UiIs
<1>8. WorkIs' /\ Listed' /\ Queued' /\ key'.on \in Mints \cup {None}
  BY <1>4 DEF Types, WorkIs, Listed, Queued
<1> QED
  BY <1>6, <1>7, <1>8 DEF Types

LEMMA TellsTypes ==
  ASSUME Types, BotTells
  PROVE  Types'
<1>1. /\ UNCHANGED <<ui, mode, shown, selected, key, queue, session, sends, crossed>>
      /\ work.op \in {"telling", "closing"} /\ work.plan # <<>>
      /\ Hears(work.mint, Head(work.plan))
      /\ work' = IF work.op = "telling" THEN Select ELSE [work EXCEPT !.plan = Tail(@)]
  BY DEF BotTells, uiVars, seen
<1>2. work.mint \in DOMAIN session
  BY <1>1, WorkOps DEF Telling, ClosingAt
<1>3. paused' \subseteq paused \cup {work.mint} /\ away' \subseteq away \cup {work.mint}
  BY <1>1 DEF Hears
<1>4. Owned'
  BY <1>1, <1>2, <1>3 DEF Types, Owned
<1>5. WorkIs'
  <2>1. CASE work.op = "telling"
    BY <1>1, <2>1 DEF WorkIs
  <2>2. CASE work.op = "closing"
    <3>1. PICK m \in DOMAIN session, left \in SUBSET DOMAIN session, kill \in BOOLEAN,
               plan \in Seq(Controls), grace \in 0 .. CLOSE_GRACE_SECS :
            /\ work = ClosingAt(m, left, kill, plan, grace)
            /\ m \notin left /\ (plan # <<>> => grace = CLOSE_GRACE_SECS)
      BY <2>2, WorkOps
    <3>2. work.plan = plan /\ plan # <<>>
      BY <1>1, <3>1 DEF ClosingAt
    <3>3. Tail(plan) \in Seq(Controls)
      BY <3>2, HeadTailProperties
    <3>4. work' = [work EXCEPT !.plan = Tail(work.plan)]
      BY <1>1, <2>2
    <3>5. work' = ClosingAt(m, left, kill, Tail(plan), grace)
      BY <3>1, <3>2, <3>4 DEF ClosingAt
    <3> QED
      <4>1. grace = CLOSE_GRACE_SECS /\ session' = session
        BY <1>1, <3>1, <3>2
      <4> QED
        BY <3>1, <3>3, <3>5, <4>1, ClosingAtIs
  <2> QED
    BY <1>1, <2>1, <2>2
<1> QED
  BY <1>1, <1>4, <1>5 DEF Types, UiIs, Listed, Queued

LEMMA GraceTypes ==
  ASSUME Types, GraceEnds
  PROVE  Types'
<1>1. PICK m \in DOMAIN session, left \in SUBSET DOMAIN session, kill \in BOOLEAN,
           plan \in Seq(Controls), grace \in 0 .. CLOSE_GRACE_SECS :
        work = ClosingAt(m, left, kill, plan, grace) /\ m \notin left
  BY WorkOps DEF GraceEnds, InGrace
<1>2. work.mint = m /\ work.left = left /\ work.kill = kill
  BY <1>1 DEF ClosingAt
<1>3. /\ UNCHANGED <<ui, mode, shown, selected, key, queue>>
      /\ session' = Without(session, m)
      /\ crossed' = crossed \ {m} /\ paused' = paused \ {m} /\ away' = away \ {m}
      /\ sends' = sends \ {m}
      /\ IF left = {} THEN work' = IF kill THEN Stopped ELSE Select
         ELSE \E o \in left : work' = Closing(o, left \ {o}, kill)
  BY <1>2 DEF GraceEnds, uiVars
<1>4. DOMAIN session' = DOMAIN session \ {m}
  BY <1>3 DEF Without
<1>5. Owned'
  BY <1>3, <1>4 DEF Types, Owned
<1>6. WorkIs'
  <2>1. CASE left = {}
    BY <1>3, <2>1 DEF WorkIs
  <2>2. CASE left # {}
    <3>1. PICK o \in left : work' = Closing(o, left \ {o}, kill)
      BY <1>3, <2>2
    <3>2. o \in DOMAIN session' /\ left \ {o} \in SUBSET DOMAIN session' /\ o \notin left \ {o}
      BY <1>1, <1>4
    <3> QED
      BY <3>1, <3>2, ClosingIs
  <2> QED
    BY <2>1, <2>2
<1> QED
  BY <1>3, <1>5, <1>6 DEF Types, UiIs, Listed, Queued

LEMMA TickTypes ==
  ASSUME Types, Tick
  PROVE  Types'
<1>1. /\ work' = IF InGrace THEN [work EXCEPT !.grace = @ - 1] ELSE work
      /\ ui' = IF ui.at = "leaving" THEN [ui EXCEPT !.left = @ - 1] ELSE ui
      /\ UNCHANGED <<mode, shown, selected, key, queue, session, paused, away, sends, crossed>>
      /\ ~CanGoOn
  BY DEF Tick, taskVars
<1>2. UiIs'
  <2>1. CASE ui.at = "leaving"
    <3>1. PICK n \in 0 .. KILL_WAIT_SECS : ui = Leaving(n)
      BY <2>1 DEF Types, UiIs, At, SendingFor, Answered, Leaving
    <3>2. n # 0 /\ ui.left = n
      BY <1>1, <2>1, <3>1 DEF CanGoOn, Leaving
    <3>3. ui' = [ui EXCEPT !.left = ui.left - 1]
      BY <1>1, <2>1
    <3>4. ui' = Leaving(n - 1) /\ n - 1 \in 0 .. KILL_WAIT_SECS
      BY <3>1, <3>2, <3>3 DEF Leaving, KILL_WAIT_SECS
    <3> QED
      BY <3>4 DEF UiIs
  <2>2. CASE ui.at # "leaving"
    BY <1>1, <2>2 DEF Types, UiIs
  <2> QED
    BY <2>1, <2>2
<1>3. WorkIs'
  <2>1. CASE InGrace
    <3>1. PICK m \in DOMAIN session, left \in SUBSET DOMAIN session, kill \in BOOLEAN,
               plan \in Seq(Controls), grace \in 0 .. CLOSE_GRACE_SECS :
            work = ClosingAt(m, left, kill, plan, grace) /\ m \notin left
      BY <2>1, WorkOps DEF InGrace
    <3>2. plan = <<>> /\ work.grace = grace /\ grace # 0
      BY <1>1, <2>1, <3>1 DEF CanGoOn, InGrace, ClosingAt
    <3>3. work' = [work EXCEPT !.grace = work.grace - 1]
      BY <1>1, <2>1
    <3>4. work' = ClosingAt(m, left, kill, plan, grace - 1)
          /\ grace - 1 \in 0 .. CLOSE_GRACE_SECS
      BY <3>1, <3>2, <3>3 DEF ClosingAt, CLOSE_GRACE_SECS
    <3> QED
      <4>1. PICK g \in 0 .. CLOSE_GRACE_SECS : g = grace - 1
        BY <3>4
      <4>2. work' = ClosingAt(m, left, kill, plan, g) /\ session' = session
        BY <1>1, <3>4, <4>1
      <4>3. plan # <<>> => g = CLOSE_GRACE_SECS
        BY <3>2
      <4> QED
        BY <3>1, <4>2, <4>3, ClosingAtIs
  <2>2. CASE ~InGrace
    BY <1>1, <2>2 DEF Types, WorkIs
  <2> QED
    BY <2>1, <2>2
<1> QED
  BY <1>1, <1>2, <1>3 DEF Types, Listed, Owned, Queued

\* The news and the markets.
LEMMA OtherTypes ==
  ASSUME Types,
         HandleNews \/ \E m \in Mints : EngineSends(m) \/ ExecTakesOrder(m) \/ ExecReturns(m)
  PROVE  Types'
<1>1. /\ UNCHANGED <<ui, mode, shown, selected, key, queue, work>>
      /\ DOMAIN session' = DOMAIN session
      /\ paused' = paused /\ crossed' = crossed
  <2>1. CASE HandleNews
    BY <2>1 DEF HandleNews, uiVars, taskVars, seen
  <2>2. CASE \E m \in Mints : EngineSends(m) \/ ExecTakesOrder(m) \/ ExecReturns(m)
    BY <2>2 DEF EngineSends, ExecTakesOrder, ExecReturns, uiVars, botVars, seen
  <2> QED
    BY <2>1, <2>2
<1>2. away' \cup sends' \subseteq DOMAIN session
  BY DEF HandleNews, EngineSends, ExecTakesOrder, ExecReturns, taskVars, Types, Owned
<1> QED
  BY <1>1, <1>2 DEF Types, UiIs, WorkIs, Listed, Owned, Queued

LEMMA TypesNext ==
  ASSUME Types, [Next]_vars
  PROVE  Types'
<1>1. CASE UNCHANGED vars
  BY <1>1 DEF vars, uiVars, botVars, taskVars, seen, Types, UiIs, WorkIs, Listed, Owned, Queued
<1> QED
  BY <1>1, KeyTypes, UiTypes, ReplyTypes, TakeTypes, AddEndsTypes, TellsTypes, GraceTypes,
     TickTypes, OtherTypes
  DEF Next, UiStep, BotStep, Tasks

LEMMA TypesInit == Init => Types
<1> SUFFICES ASSUME Init PROVE Types
  OBVIOUS
<1>1. Command("GetSnapshot", None) \in Cmd
  BY CommandIs DEF Ops
<1>2. UiIs /\ WorkIs
  BY <1>1 DEF Init, Sending, UiIs, WorkIs
<1>3. Listed
  BY DEF Init, Listed
<1>4. Queued
  BY ConsoleConstants, EmptySeq DEF Init, Queued
<1>5. Owned
  BY DEF Init, Owned
<1> QED
  BY <1>2, <1>3, <1>4, <1>5 DEF Init, Types, NoKey

\* The selection is in the list, the queue within its capacity, and what is
\* known of a market is of a market there is.
THEOREM ConsoleTypeCorrect == Spec => []TypeOK
<1>1. Types => TypeOK
  <2> SUFFICES ASSUME Types PROVE TypeOK
    OBVIOUS
  <2>1. Cardinality(DOMAIN shown) \in Nat
    BY ConsoleConstants, FS_Subset, FS_CardinalityType DEF Types, Listed
  <2>2. /\ selected \in 0 .. Cardinality(DOMAIN shown)
        /\ DOMAIN shown # {} => selected < Cardinality(DOMAIN shown)
    BY <2>1 DEF Types, Listed
  <2>3. \A i \in DOMAIN queue : queue[i].op \in Ops
    <3>1. \A i \in DOMAIN queue : queue[i] \in Cmd
      BY DEF Types, Queued
    <3> QED
      BY <3>1 DEF Cmd
  <2> QED
    BY <2>2, <2>3 DEF Types, Listed, Owned, Queued, TypeOK
<1> QED
  BY <1>1, TypesInit, TypesNext, PTL DEF Spec

-----------------------------------------------------------------------------
\* Quitting: of the 5 s the process waits, none is over before the Kill is
\* begun with, and from then on each is one of the graces: 2 s of every market
\* that is done with and what is over of the grace of the one at hand.

Few == Cardinality(Mints) <= 3

KillIsOn == work.op = "closing" /\ work.kill

InTime ==
  IF KillIsOn
  THEN ui.left + 2 * (2 - Cardinality(work.left)) + (CLOSE_GRACE_SECS - work.grace)
         >= KILL_WAIT_SECS
  ELSE work = Stopped \/ ui.left = KILL_WAIT_SECS

Leave ==
  /\ ui.at = "leaving" /\ ~held => InTime
  /\ Exited /\ ~held =>
       /\ work.op \in {"stopped", "closing"}
       /\ work.op = "closing" => work.left = {} /\ work.plan = <<>>

\* A market at hand leaves at most two.
LEMMA LeftIs ==
  ASSUME Types, Few, work.op = "closing"
  PROVE  /\ IsFiniteSet(work.left) /\ Cardinality(work.left) \in 0 .. 2
         /\ work.grace \in 0 .. CLOSE_GRACE_SECS /\ work.kill \in BOOLEAN
         /\ work.left = {} <=> Cardinality(work.left) = 0
         /\ work.plan # <<>> => work.grace = CLOSE_GRACE_SECS
<1>1. PICK m \in DOMAIN session, left \in SUBSET DOMAIN session, kill \in BOOLEAN,
           plan \in Seq(Controls), grace \in 0 .. CLOSE_GRACE_SECS :
        /\ work = ClosingAt(m, left, kill, plan, grace)
        /\ m \notin left /\ (plan # <<>> => grace = CLOSE_GRACE_SECS)
  BY WorkOps
<1>2. /\ work.left = left /\ work.grace = grace /\ work.plan = plan /\ work.kill = kill
  BY <1>1 DEF ClosingAt
<1>3. IsFiniteSet(left) /\ Cardinality(left) \in Nat /\ Cardinality(left) < Cardinality(Mints)
  <2>1. left \subseteq Mints /\ m \in Mints
    BY DEF Types, Owned
  <2>2. left # Mints
    BY <1>1, <2>1
  <2>3. /\ IsFiniteSet(left) /\ Cardinality(left) <= Cardinality(Mints)
        /\ Cardinality(Mints) = Cardinality(left) => Mints = left
    BY <2>1, ConsoleConstants, FS_Subset
  <2>4. Cardinality(left) \in Nat
    BY <2>3, FS_CardinalityType
  <2> QED
    BY <2>2, <2>3, <2>4, ConsoleConstants
<1>4. left = {} <=> Cardinality(left) = 0
  BY <1>3, FS_EmptySet
<1>5. Cardinality(left) \in 0 .. 2
  BY <1>3, ConsoleConstants DEF Few
<1> QED
  BY <1>1, <1>2, <1>3, <1>4, <1>5

LEMMA LeavingIs ==
  ASSUME Types, ui.at = "leaving"
  PROVE  ui.left \in 0 .. KILL_WAIT_SECS
<1>1. PICK n \in 0 .. KILL_WAIT_SECS : ui = Leaving(n)
  BY DEF Types, UiIs, At, SendingFor, Answered, Leaving
<1> QED
  BY <1>1 DEF Leaving

LEMMA InTimeFromFirst ==
  ASSUME Types, Few, ui.left = KILL_WAIT_SECS
  PROVE  InTime
<1>1. CASE KillIsOn
  <2>1. PICK n \in 0 .. 2 : n = Cardinality(work.left)
    BY <1>1, LeftIs DEF KillIsOn
  <2>2. PICK g \in 0 .. CLOSE_GRACE_SECS : g = work.grace
    BY <1>1, LeftIs DEF KillIsOn
  <2>3. KILL_WAIT_SECS + 2 * (2 - n) + (CLOSE_GRACE_SECS - g) >= KILL_WAIT_SECS
    BY DEF KILL_WAIT_SECS, CLOSE_GRACE_SECS
  <2> QED
    BY <1>1, <2>1, <2>2, <2>3 DEF InTime
<1>2. CASE ~KillIsOn
  BY <1>2 DEF InTime
<1> QED
  BY <1>1, <1>2

\* The process ends, when there is no Kill any more or no time.
LEMMA LeaveEnds ==
  ASSUME Types, Few, Leave, ProcessEnds
  PROVE  Leave'
<1>1. /\ ui.at = "leaving" /\ ui' = At("exited") /\ work' = work /\ held' = held
      /\ work = Stopped \/ ui.left = 0
  BY DEF ProcessEnds, botVars, seen
<1>2. ui'.at # "leaving"
  BY <1>1, Going
<1>3. ASSUME ~held
      PROVE  /\ work.op \in {"stopped", "closing"}
             /\ work.op = "closing" => work.left = {} /\ work.plan = <<>>
  <2>1. InTime
    BY <1>1, <1>3 DEF Leave
  <2>2. CASE work = Stopped
    BY <2>2 DEF Stopped
  <2>3. CASE work # Stopped
    <3>1. ui.left = 0 /\ KillIsOn
      BY <1>1, <2>1, <2>3 DEF InTime, KILL_WAIT_SECS
    <3>2. PICK n \in 0 .. 2 : n = Cardinality(work.left)
      BY <3>1, LeftIs DEF KillIsOn
    <3>3. PICK g \in 0 .. CLOSE_GRACE_SECS : g = work.grace
      BY <3>1, LeftIs DEF KillIsOn
    <3>4. 0 + 2 * (2 - n) + (CLOSE_GRACE_SECS - g) >= KILL_WAIT_SECS
      BY <2>1, <3>1, <3>2, <3>3 DEF InTime
    <3>5. n = 0 /\ g # CLOSE_GRACE_SECS
      BY <3>4 DEF KILL_WAIT_SECS, CLOSE_GRACE_SECS
    <3> QED
      BY <3>1, <3>2, <3>3, <3>5, LeftIs DEF KillIsOn
  <2> QED
    BY <2>2, <2>3
<1> QED
  BY <1>1, <1>2, <1>3 DEF Leave

\* A second.
LEMMA LeaveTick ==
  ASSUME Types, Few, Leave, Tick, ~Exited
  PROVE  Leave'
<1>1. /\ work' = IF InGrace THEN [work EXCEPT !.grace = @ - 1] ELSE work
      /\ ui' = IF ui.at = "leaving" THEN [ui EXCEPT !.left = @ - 1] ELSE ui
      /\ held' = (held \/ (ui.at = "leaving" /\ ~(InGrace /\ work.kill)))
      /\ ~CanGoOn
  BY DEF Tick
<1>2. ui'.at = ui.at
  BY <1>1 DEF Types, UiIs, At, SendingFor, Answered, Leaving
<1>3. ~Exited'
  <2>1. CASE ui.at = "leaving"
    BY <1>2, <2>1, Going DEF Exited
  <2>2. CASE ui.at # "leaving"
    BY <1>1, <2>2 DEF Exited
  <2> QED
    BY <2>1, <2>2
<1>4. ASSUME ui'.at = "leaving", ~held' PROVE InTime'
  <2>1. ui.at = "leaving" /\ ~held /\ InGrace /\ work.kill /\ InTime /\ KillIsOn
    BY <1>1, <1>2, <1>4 DEF Leave, KillIsOn, InGrace
  <2>2. PICK n \in 0 .. 2 : n = Cardinality(work.left)
    BY <2>1, LeftIs DEF KillIsOn
  <2>3. PICK g \in 0 .. CLOSE_GRACE_SECS : g = work.grace
    BY <2>1, LeftIs DEF KillIsOn
  <2>4. PICK u \in 0 .. KILL_WAIT_SECS : u = ui.left
    BY <2>1, LeavingIs
  <2>5. u + 2 * (2 - n) + (CLOSE_GRACE_SECS - g) >= KILL_WAIT_SECS
    BY <2>1, <2>2, <2>3, <2>4 DEF InTime
  <2>6. ui'.left = u - 1
    <3>1. PICK k \in 0 .. KILL_WAIT_SECS : ui = Leaving(k)
      BY <2>1 DEF Types, UiIs, At, SendingFor, Answered, Leaving
    <3> QED
      BY <1>1, <2>1, <2>4, <3>1 DEF Leaving
  <2>7. work'.op = "closing" /\ work'.kill /\ work'.left = work.left /\ work'.grace = g - 1
    <3>1. PICK m \in DOMAIN session, left \in SUBSET DOMAIN session, kill \in BOOLEAN,
               plan \in Seq(Controls), grace \in 0 .. CLOSE_GRACE_SECS :
            work = ClosingAt(m, left, kill, plan, grace)
      BY <2>1, WorkOps DEF KillIsOn
    <3> QED
      BY <1>1, <2>1, <2>3, <3>1 DEF ClosingAt
  <2>8. (u - 1) + 2 * (2 - n) + (CLOSE_GRACE_SECS - (g - 1)) >= KILL_WAIT_SECS
    BY <2>5 DEF KILL_WAIT_SECS, CLOSE_GRACE_SECS
  <2> QED
    BY <2>2, <2>6, <2>7, <2>8 DEF InTime, KillIsOn
<1> QED
  BY <1>3, <1>4 DEF Leave

LEMMA InTimeFirstNext ==
  ASSUME Types', Few, ui'.left = KILL_WAIT_SECS
  PROVE  InTime'
<1>1. (Types /\ Few /\ ui.left = KILL_WAIT_SECS => InTime)'
  BY InTimeFromFirst, PTL
<1> QED
  BY <1>1 DEF Few

\* Sending the Kill, and the rest of what the UI does.
LEMMA LeaveUi ==
  ASSUME Types, Types', Few, Leave, ~Exited,
         \/ SnapshotTick \/ HandleKey \/ UiSends \/ UiAnswered \/ AskTimesOut \/ ReplyTimesOut
         \/ \E k \in Keys : Press(k)
  PROVE  Leave'
<1>1. CASE UiSends
  <2>1. work' = work /\ held' = held
        /\ ui' \in {At("loop"), At("waiting"), At("adding"), Leaving(KILL_WAIT_SECS)}
    BY <1>1 DEF UiSends, seen
  <2>2. ~Exited'
    BY <2>1, Going DEF Exited
  <2>3. CASE ui' = Leaving(KILL_WAIT_SECS)
    <3>1. InTime'
      <4>1. ui'.left = KILL_WAIT_SECS
        BY <2>3, Going
      <4> QED
        BY <4>1, InTimeFirstNext
    <3> QED
      BY <2>2, <3>1 DEF Leave
  <2>4. CASE ui' # Leaving(KILL_WAIT_SECS)
    <3>1. ui'.at # "leaving"
      BY <2>1, <2>4, Going
    <3> QED
      BY <2>2, <3>1 DEF Leave
  <2> QED
    BY <2>3, <2>4
<1>2. CASE \E k \in Keys : Press(k)
  BY <1>2 DEF Press, botVars, seen, Leave, InTime, KillIsOn, Exited
<1>3. CASE SnapshotTick \/ HandleKey \/ UiAnswered \/ AskTimesOut \/ ReplyTimesOut
  <2>1. ui' = At("loop") \/ \E c, on : ui' = SendingFor(c, on)
    <3>1. CASE SnapshotTick \/ UiAnswered \/ AskTimesOut \/ ReplyTimesOut
      BY <3>1 DEF SnapshotTick, UiAnswered, AskTimesOut, ReplyTimesOut, Sending
    <3>2. CASE HandleKey
      <4>1. ui = At("loop") /\ (NormalKey(key.code) \/ AddKey(key.code) \/ ConfirmQuitKey(key.code))
        BY <3>2 DEF HandleKey, AtLoop
      <4>2. CASE NormalKey(key.code)
        BY <4>1, <4>2 DEF NormalKey, Quit, Sending
      <4>3. CASE AddKey(key.code)
        BY <4>1, <4>3 DEF AddKey, Quit, Sending
      <4>4. CASE ConfirmQuitKey(key.code)
        BY <4>1, <4>4 DEF ConfirmQuitKey, Quit, Sending
      <4> QED
        BY <4>1, <4>2, <4>3, <4>4
    <3> QED
      BY <1>3, <3>1, <3>2
  <2>2. ui'.at # "leaving" /\ ~Exited'
    BY <2>1, Going DEF Exited
  <2> QED
    BY <2>2 DEF Leave
<1> QED
  BY <1>1, <1>2, <1>3

\* Where no second passes, the bot either leaves the removals alone, or begins
\* with the Kill, or goes on with it.
LEMMA LeaveKept ==
  ASSUME Types, Few, Leave, ~Exited, held' = held, ui' = ui, work'.op # "closing" \/ ~work'.kill,
         KillIsOn => work' = Stopped, work = Stopped => work' = Stopped
  PROVE  Leave'
BY DEF Leave, InTime, KillIsOn, Exited

LEMMA LeaveGone ==
  ASSUME ui' \in {At("loop"), At("waiting")} \/ \E s : ui' = Answered(s)
  PROVE  Leave'
<1>1. ui'.at # "leaving" /\ ~Exited'
  BY Going DEF Exited
<1> QED
  BY <1>1 DEF Leave

LEMMA LeaveTakes ==
  ASSUME Types, Types', Few, Leave, ~Exited,
         \/ TakeGetSnapshot \/ TakeAddMarket \/ TakeKill
         \/ \E op \in {"PauseMarket", "ResumeMarket", "RemoveMarket"} : TakeControl(op)
  PROVE  Leave'
<1>1. work = Select /\ held' = held /\ ~KillIsOn /\ work # Stopped
  <2>1. work = Select /\ held' = held
    BY DEF TakeGetSnapshot, TakeAddMarket, TakeKill, TakeControl, Take, seen
  <2> QED
    BY <2>1 DEF KillIsOn, Select, Stopped
<1>2. CASE TakeGetSnapshot
  <2>1. work' = work /\ (ui' = ui \/ ui' = Answered(session))
    BY <1>2 DEF TakeGetSnapshot
  <2> QED
    BY <1>1, <2>1, LeaveGone, LeaveKept DEF KillIsOn
<1>3. CASE TakeAddMarket
  <2>1. \/ ui' = At("loop")
        \/ ui' = ui /\ (work' = work \/ \E m, live : work' = Adding(m, live))
    BY <1>3 DEF TakeAddMarket, AddReply
  <2> QED
    BY <1>1, <2>1, LeaveGone, LeaveKept DEF KillIsOn, Adding
<1>4. CASE \E op \in {"PauseMarket", "ResumeMarket", "RemoveMarket"} : TakeControl(op)
  <2>1. ui' = ui /\ (work' = Select \/ \E m : \/ work' = Telling(m, "Pause")
                                              \/ work' = Telling(m, "Resume")
                                              \/ work' = Closing(m, {}, FALSE))
    BY <1>4 DEF TakeControl
  <2> QED
    BY <1>1, <2>1, LeaveKept DEF KillIsOn, Select, Telling, Closing
<1>5. CASE TakeKill
  <2>1. ui' = ui
    BY <1>5 DEF TakeKill
  <2>2. CASE ui.at = "leaving" /\ ~held
    <3>1. ui'.left = KILL_WAIT_SECS
      BY <1>1, <2>1, <2>2 DEF Leave, InTime
    <3>2. InTime'
      BY <3>1, InTimeFirstNext
    <3> QED
      BY <2>1, <3>2 DEF Leave, Exited
  <2>3. CASE ~(ui.at = "leaving" /\ ~held)
    BY <1>1, <2>1, <2>3 DEF Leave, Exited
  <2> QED
    BY <2>2, <2>3
<1> QED
  BY <1>2, <1>3, <1>4, <1>5

LEMMA LeaveBot ==
  ASSUME Types, Types', Few, Leave, ~Exited, AddEnds \/ BotTells \/ HandleNews \/ Tasks
  PROVE  Leave'
<1>1. CASE AddEnds
  <2>1. work.op = "adding" /\ work' = Select /\ held' = held /\ (ui' = ui \/ ui' = At("loop"))
    BY <1>1 DEF AddEnds, AddReply
  <2> QED
    BY <2>1, LeaveGone, LeaveKept DEF KillIsOn, Select, Stopped
<1>2. CASE BotTells
  <2>1. /\ ui' = ui /\ held' = held /\ work.op \in {"telling", "closing"}
        /\ work' = IF work.op = "telling" THEN Select ELSE [work EXCEPT !.plan = Tail(@)]
    BY <1>2 DEF BotTells, uiVars, seen
  <2>2. CASE work.op = "telling"
    BY <2>1, <2>2, LeaveKept DEF KillIsOn, Select, Stopped
  <2>3. CASE work.op = "closing"
    <3>1. PICK m \in DOMAIN session, left \in SUBSET DOMAIN session, kill \in BOOLEAN,
               plan \in Seq(Controls), grace \in 0 .. CLOSE_GRACE_SECS :
            work = ClosingAt(m, left, kill, plan, grace)
      BY <2>3, WorkOps
    <3>2. work' = ClosingAt(m, left, kill, Tail(plan), grace)
      BY <2>1, <2>3, <3>1 DEF ClosingAt
    <3>3. /\ work'.op = work.op /\ work'.kill = work.kill /\ work'.left = work.left
          /\ work'.grace = work.grace /\ work # Stopped
      BY <3>1, <3>2 DEF ClosingAt, Stopped
    <3> QED
      BY <2>1, <3>3 DEF Leave, InTime, KillIsOn, Exited
  <2> QED
    BY <2>1, <2>2, <2>3
<1>3. CASE HandleNews \/ Tasks
  <2>1. work' = work /\ ui' = ui /\ held' = held
    BY <1>3 DEF HandleNews, Tasks, EngineSends, ExecTakesOrder, ExecReturns, uiVars, botVars, seen
  <2> QED
    BY <2>1 DEF Leave, InTime, KillIsOn, Exited
<1> QED
  BY <1>1, <1>2, <1>3

\* The next grace: what one market less adds is what the grace over does not
\* count any more.
LEMMA LeaveGrace ==
  ASSUME Types, Types', Few, Leave, ~Exited, GraceEnds
  PROVE  Leave'
<1>1. PICK m \in DOMAIN session, left \in SUBSET DOMAIN session, kill \in BOOLEAN,
           plan \in Seq(Controls), grace \in 0 .. CLOSE_GRACE_SECS :
        work = ClosingAt(m, left, kill, plan, grace)
  BY WorkOps DEF GraceEnds, InGrace
<1>2. /\ work.left = left /\ work.kill = kill /\ work.grace = grace /\ work.op = "closing"
      /\ work # Stopped
  BY <1>1 DEF ClosingAt, Stopped
<1>3. /\ ui' = ui /\ held' = held /\ grace = 0
      /\ IF left = {} THEN work' = IF kill THEN Stopped ELSE Select
         ELSE \E o \in left : work' = Closing(o, left \ {o}, kill)
  BY <1>2 DEF GraceEnds, uiVars
<1>4. CASE left = {}
  BY <1>2, <1>3, <1>4, LeaveKept DEF KillIsOn, Stopped, Select
<1>5. CASE left # {} /\ ~kill
  BY <1>2, <1>3, <1>5, LeaveKept DEF KillIsOn, Closing
<1>6. CASE left # {} /\ kill
  <2>1. PICK o \in left : work' = Closing(o, left \ {o}, kill)
    BY <1>3, <1>6
  <2>2. /\ work'.op = "closing" /\ work'.kill /\ work'.left = left \ {o}
        /\ work'.grace = CLOSE_GRACE_SECS
    BY <1>6, <2>1 DEF Closing
  <2>3. IsFiniteSet(left) /\ Cardinality(left) \in 0 .. 2
    BY <1>2, LeftIs
  <2>4. Cardinality(left \ {o}) = Cardinality(left) - 1
    BY <2>3, FS_RemoveElement
  <2>5. ASSUME ui'.at = "leaving", ~held' PROVE InTime'
    <3>1. InTime /\ KillIsOn
      BY <1>2, <1>3, <1>6, <2>5 DEF Leave, KillIsOn
    <3>2. PICK n \in 0 .. 2 : n = Cardinality(left)
      BY <2>3
    <3>3. PICK u \in 0 .. KILL_WAIT_SECS : u = ui.left
      BY <1>3, <2>5, LeavingIs
    <3>4. u + 2 * (2 - n) + (CLOSE_GRACE_SECS - 0) >= KILL_WAIT_SECS
      BY <1>2, <1>3, <3>1, <3>2, <3>3 DEF InTime
    <3>5. u + 2 * (2 - (n - 1)) + (CLOSE_GRACE_SECS - CLOSE_GRACE_SECS) >= KILL_WAIT_SECS
      BY <3>4 DEF CLOSE_GRACE_SECS, KILL_WAIT_SECS
    <3> QED
      BY <1>3, <2>2, <2>4, <3>2, <3>3, <3>5 DEF InTime, KillIsOn
  <2> QED
    BY <1>3, <2>5 DEF Leave, Exited
<1> QED
  BY <1>4, <1>5, <1>6

LEMMA LeaveNext ==
  ASSUME Types, Types', Few, Leave, [Next]_vars
  PROVE  Leave'
<1>1. CASE UNCHANGED vars
  BY <1>1 DEF vars, uiVars, botVars, seen, Leave, InTime, KillIsOn, Exited
<1> QED
  BY <1>1, LeaveEnds, LeaveTick, LeaveUi, LeaveTakes, LeaveBot, LeaveGrace
  DEF Next, UiStep, BotStep

\* Whatever the bot was in the middle of, and in whatever order it closes the
\* markets: unless it had to wait for something else, every market was asked to
\* close when the process ends.
THEOREM QuitAsksAll == Spec => []QuitAsks
<1>1. CASE Few
  <2>1. Init => Leave
    <3>1. Init => ui.at = "sending" /\ ~Exited
      BY Going DEF Init, Sending, Exited
    <3> QED
      BY <3>1 DEF Leave
  <2>2. Leave => QuitAsks
    BY DEF Leave, QuitAsks
  <2>3. Types /\ Leave /\ [Next]_vars => Types' /\ Leave'
    BY <1>1, TypesNext, LeaveNext
  <2> QED
    BY <2>1, <2>2, <2>3, TypesInit, PTL DEF Spec
<1>2. CASE ~Few
  <2>1. QuitAsks
    BY <1>2 DEF QuitAsks, Few
  <2> QED
    BY <2>1, PTL
<1> QED
  BY <1>1, <1>2

-----------------------------------------------------------------------------
\* The line: what somebody waits for is the last of the queue, or being worked
\* on, and a snapshot that has been answered is of the markets there are.

WaitedIsLast ==
  \A i \in DOMAIN queue :
    queue[i].live =>
      /\ queue[i].op = "GetSnapshot" => ui = At("waiting") /\ i = Len(queue)
      /\ queue[i].op = "AddMarket" => ui = At("adding") /\ i = Len(queue)

WaitedIsDone == work.op = "adding" /\ work.live => ui = At("adding") /\ queue = <<>>

AnswerIsFresh ==
  ui.at = "answered" => queue = <<>> /\ work = Select /\ DOMAIN ui.snap = DOMAIN session

Line == WaitedIsLast /\ WaitedIsDone /\ AnswerIsFresh

LEMMA QueueIs ==
  ASSUME Types
  PROVE  /\ queue \in Seq(Cmd) /\ Len(queue) \in Nat /\ DOMAIN queue = 1 .. Len(queue)
         /\ \A i \in DOMAIN queue : queue[i] \in Cmd
BY DEF Types, Queued

LEMMA TakenIs ==
  ASSUME Types, queue # <<>>
  PROVE  /\ Head(queue) = queue[1] /\ 1 \in DOMAIN queue /\ Head(queue) \in Cmd
         /\ Len(Tail(queue)) = Len(queue) - 1
         /\ DOMAIN Tail(queue) = 1 .. Len(queue) - 1
         /\ \A i \in DOMAIN Tail(queue) : Tail(queue)[i] = queue[i + 1] /\ i + 1 \in DOMAIN queue
         /\ Len(queue) = 1 => Tail(queue) = <<>>
<1>1. Len(queue) \in Nat /\ Len(queue) # 0
  BY QueueIs, EmptySeq
<1>2. /\ Tail(queue) \in Seq(Cmd) /\ Len(Tail(queue)) = Len(queue) - 1
      /\ Head(queue) = queue[1]
      /\ \A i \in 1 .. Len(queue) - 1 : Tail(queue)[i] = queue[i + 1]
  BY <1>1, QueueIs, HeadTailProperties
<1>3. DOMAIN Tail(queue) = 1 .. Len(queue) - 1
  BY <1>1, <1>2
<1>4. 1 \in DOMAIN queue /\ \A i \in 1 .. Len(queue) - 1 : i + 1 \in DOMAIN queue
  BY <1>1, QueueIs
<1>5. Len(queue) = 1 => Tail(queue) = <<>>
  <2>1. \A q \in Seq(Cmd) : Len(q) = 0 => q = <<>>
    BY EmptySeq
  <2>2. Len(queue) = 1 => Len(Tail(queue)) = 0
    BY <1>2
  <2> QED
    BY <1>2, <2>1, <2>2
<1> QED
  BY <1>2, <1>3, <1>4, <1>5, QueueIs

LEMMA AddedIs ==
  ASSUME Types, NEW c, c \in Cmd
  PROVE  /\ Len(Append(queue, c)) = Len(queue) + 1
         /\ \A i \in DOMAIN Append(queue, c) :
              \/ i \in DOMAIN queue /\ Append(queue, c)[i] = queue[i]
              \/ i = Len(queue) + 1 /\ Append(queue, c)[i] = c
<1>1. /\ Append(queue, c) \in Seq(Cmd) /\ Len(Append(queue, c)) = Len(queue) + 1
      /\ \A i \in 1 .. Len(queue) : Append(queue, c)[i] = queue[i]
      /\ Append(queue, c)[Len(queue) + 1] = c
  BY QueueIs, AppendProperties
<1>2. DOMAIN Append(queue, c) = 1 .. Len(queue) + 1
  BY <1>1, QueueIs
<1> QED
  BY <1>1, <1>2, QueueIs

\* Where nobody waits and nothing is answered.
LEMMA LineKept ==
  ASSUME Line, queue' = queue, work' = work, DOMAIN session' = DOMAIN session,
         \/ ui' = ui
         \/ ui \notin {At("waiting"), At("adding")} /\ ui'.at # "answered"
  PROVE  Line'
<1>1. WaitedIsLast'
  BY DEF Line, WaitedIsLast
<1>2. WaitedIsDone'
  BY DEF Line, WaitedIsDone
<1>3. AnswerIsFresh'
  BY DEF Line, AnswerIsFresh
<1> QED
  BY <1>1, <1>2, <1>3 DEF Line

LEMMA LineUi ==
  ASSUME Types, Line, UiStep \/ \E k \in Keys : Press(k)
  PROVE  Line'
<1>1. CASE SnapshotTick \/ UiAnswered \/ AskTimesOut \/ ProcessEnds
  <2>1. UNCHANGED <<queue, work, session>>
    BY <1>1 DEF SnapshotTick, UiAnswered, AskTimesOut, ProcessEnds, botVars
  <2>2. ui' \in {At("loop"), At("exited")} \/ \E c, on : ui' = SendingFor(c, on)
    BY <1>1 DEF SnapshotTick, UiAnswered, AskTimesOut, ProcessEnds, Sending
  <2>3. ui'.at # "answered"
    BY <2>2, Going
  <2>4. ui.at \in {"loop", "answered", "sending", "leaving"}
    BY <1>1, Going DEF SnapshotTick, UiAnswered, AskTimesOut, ProcessEnds, AtLoop
  <2>5. ui \notin {At("waiting"), At("adding")}
    BY <2>4, Going
  <2> QED
    BY <2>1, <2>3, <2>5, LineKept
<1>2. CASE HandleKey
  <2>1. UNCHANGED <<queue, work, session>> /\ ui = At("loop")
        /\ (NormalKey(key.code) \/ AddKey(key.code) \/ ConfirmQuitKey(key.code))
    BY <1>2 DEF HandleKey, AtLoop, botVars
  <2>2. ui' = ui \/ \E c, on : ui' = SendingFor(c, on)
    <3>1. CASE NormalKey(key.code)
      BY <3>1 DEF NormalKey, Quit, Sending
    <3>2. CASE AddKey(key.code)
      BY <3>2 DEF AddKey, Quit, Sending
    <3>3. CASE ConfirmQuitKey(key.code)
      BY <3>3 DEF ConfirmQuitKey, Quit, Sending
    <3> QED
      BY <2>1, <3>1, <3>2, <3>3
  <2>3. ui \notin {At("waiting"), At("adding")}
    BY <2>1, Going
  <2>4. ui' = ui \/ ui'.at # "answered"
    BY <2>2, Going
  <2> QED
    BY <2>1, <2>3, <2>4, LineKept
<1>3. CASE \E k \in Keys : Press(k)
  BY <1>3, LineKept DEF Press, botVars
<1>4. CASE UiSends
  <2>1. PICK c \in Cmd, on \in Mints \cup {None} : ui = SendingFor(c, on)
    BY <1>4, Going DEF UiSends, Types, UiIs
  <2>2. /\ queue' = Append(queue, c) /\ work' = work /\ ui.at = "sending"
        /\ ui' = CASE c.op = "GetSnapshot" -> At("waiting") [] c.op = "AddMarket" -> At("adding")
                   [] c.op = "Kill" -> Leaving(KILL_WAIT_SECS) [] OTHER -> At("loop")
    BY <1>4, <2>1, Going DEF UiSends
  <2>3. ui \notin {At("waiting"), At("adding")}
    BY <2>2, Going
  <2>4. WaitedIsLast'
    <3> SUFFICES ASSUME NEW i \in DOMAIN queue', queue'[i].live
                 PROVE  /\ queue'[i].op = "GetSnapshot" => ui' = At("waiting") /\ i = Len(queue')
                        /\ queue'[i].op = "AddMarket" => ui' = At("adding") /\ i = Len(queue')
      BY DEF WaitedIsLast
    <3>1. \/ i \in DOMAIN queue /\ queue'[i] = queue[i]
          \/ i = Len(queue) + 1 /\ queue'[i] = c
      BY <2>2, AddedIs
    <3>2. Len(queue') = Len(queue) + 1
      BY <2>2, AddedIs
    <3>3. CASE i \in DOMAIN queue /\ queue'[i] = queue[i]
      BY <2>3, <3>3 DEF Line, WaitedIsLast
    <3>4. CASE i = Len(queue) + 1 /\ queue'[i] = c
      BY <2>2, <3>2, <3>4
    <3> QED
      BY <3>1, <3>3, <3>4
  <2>5. WaitedIsDone'
    BY <2>2, <2>3 DEF Line, WaitedIsDone
  <2>6. AnswerIsFresh'
    <3>1. ui' \in {At("loop"), At("waiting"), At("adding"), Leaving(KILL_WAIT_SECS)}
      BY <2>2
    <3>2. ui'.at # "answered"
      BY <3>1, Going
    <3> QED
      BY <3>2 DEF AnswerIsFresh
  <2> QED
    BY <2>4, <2>5, <2>6 DEF Line
<1>5. CASE ReplyTimesOut
  <2>1. /\ ui' = At("loop") /\ queue' = [i \in DOMAIN queue |-> [queue[i] EXCEPT !.live = FALSE]]
        /\ work' = IF work.op = "adding" THEN [work EXCEPT !.live = FALSE] ELSE work
    BY <1>5 DEF ReplyTimesOut
  <2>2. \A i \in DOMAIN queue' : ~queue'[i].live
    <3>1. \A c \in Cmd : ~[c EXCEPT !.live = FALSE].live
      BY DEF Cmd
    <3> QED
      BY <2>1, <3>1, QueueIs
  <2>3. ~(work'.op = "adding" /\ work'.live)
    <3>1. CASE work.op = "adding"
      <4>1. PICK m \in Mints, live \in BOOLEAN : work = Adding(m, live)
        BY <3>1, WorkOps
      <4> QED
        BY <2>1, <3>1, <4>1 DEF Adding
    <3>2. CASE work.op # "adding"
      BY <2>1, <3>2
    <3> QED
      BY <3>1, <3>2
  <2>4. ui'.at # "answered"
    BY <2>1, Going
  <2> QED
    BY <2>2, <2>3, <2>4 DEF Line, WaitedIsLast, WaitedIsDone, AnswerIsFresh
<1> QED
  BY <1>1, <1>2, <1>3, <1>4, <1>5 DEF UiStep

LEMMA LineTakes ==
  ASSUME Types, Line,
         \/ TakeGetSnapshot \/ TakeAddMarket \/ TakeKill
         \/ \E op \in {"PauseMarket", "ResumeMarket", "RemoveMarket"} : TakeControl(op)
  PROVE  Line'
<1>1. /\ work = Select /\ queue # <<>> /\ queue' = Tail(queue) /\ session' = session
  BY DEF TakeGetSnapshot, TakeAddMarket, TakeKill, TakeControl, Take
<1>2. PICK c \in Cmd : c = Head(queue) /\ c = queue[1]
  BY <1>1, TakenIs
<1>3. ui.at # "answered"
  BY <1>1 DEF Line, AnswerIsFresh
<1>4. ASSUME ui' = ui PROVE WaitedIsLast' /\ AnswerIsFresh'
  <2>1. WaitedIsLast'
    <3> SUFFICES ASSUME NEW i \in DOMAIN queue', queue'[i].live
                 PROVE  /\ queue'[i].op = "GetSnapshot" => ui' = At("waiting") /\ i = Len(queue')
                        /\ queue'[i].op = "AddMarket" => ui' = At("adding") /\ i = Len(queue')
      BY DEF WaitedIsLast
    <3>1. /\ i \in 1 .. Len(queue) - 1 /\ Len(queue') = Len(queue) - 1
          /\ queue'[i] = queue[i + 1] /\ i + 1 \in DOMAIN queue
      BY <1>1, TakenIs
    <3>2. i + 1 = Len(queue) => i = Len(queue')
      BY <3>1, QueueIs
    <3> QED
      BY <1>4, <3>1, <3>2 DEF Line, WaitedIsLast
  <2>2. AnswerIsFresh'
    BY <1>3, <1>4 DEF AnswerIsFresh
  <2> QED
    BY <2>1, <2>2
<1>5. ASSUME queue' = <<>> PROVE WaitedIsLast'
  BY <1>5 DEF WaitedIsLast
<1>6. CASE TakeGetSnapshot
  <2>1. work' = work /\ c.op = "GetSnapshot" /\ ui' = IF c.live THEN Answered(session) ELSE ui
    BY <1>2, <1>6 DEF TakeGetSnapshot, Take
  <2>2. WaitedIsDone'
    BY <1>1, <2>1 DEF WaitedIsDone, Select
  <2>3. CASE c.live
    <3>1. queue' = <<>>
      BY <1>1, <1>2, <2>1, <2>3, TakenIs DEF Line, WaitedIsLast
    <3>2. AnswerIsFresh'
      BY <1>1, <2>1, <2>3, <3>1, Going DEF AnswerIsFresh
    <3> QED
      BY <1>5, <2>2, <3>1, <3>2 DEF Line
  <2>4. CASE ~c.live
    BY <1>4, <2>1, <2>2, <2>4 DEF Line
  <2> QED
    BY <2>3, <2>4
<1>7. CASE TakeAddMarket
  <2>1. /\ c.op = "AddMarket"
        /\ \/ work' = work /\ IF c.live THEN ui' = At("loop") ELSE ui' = ui
           \/ work' = Adding(c.mint, c.live) /\ ui' = ui
    BY <1>2, <1>7 DEF TakeAddMarket, Take, AddReply
  <2>2. c.live => ui = At("adding") /\ queue' = <<>>
    BY <1>1, <1>2, <2>1, TakenIs DEF Line, WaitedIsLast
  <2>3. WaitedIsDone'
    <3>1. CASE work' = work
      BY <1>1, <3>1 DEF WaitedIsDone, Select
    <3>2. CASE work' = Adding(c.mint, c.live) /\ ui' = ui
      BY <2>2, <3>2 DEF WaitedIsDone, Adding
    <3> QED
      BY <2>1, <3>1, <3>2
  <2>4. CASE ui' = ui
    BY <1>4, <2>3, <2>4 DEF Line
  <2>5. CASE ui' = At("loop") /\ c.live
    <3>1. ui'.at # "answered"
      BY <2>5, Going
    <3> QED
      BY <1>5, <2>2, <2>3, <2>5, <3>1 DEF Line, AnswerIsFresh
  <2> QED
    BY <2>1, <2>4, <2>5
<1>8. CASE TakeKill \/ \E op \in {"PauseMarket", "ResumeMarket", "RemoveMarket"} : TakeControl(op)
  <2>1. ui' = ui
    BY <1>8 DEF TakeKill, TakeControl
  <2>2. work' \in {Select, Stopped} \/ (\E m, d : work' = Telling(m, d))
        \/ (\E m, left, kill : work' = Closing(m, left, kill))
    BY <1>8 DEF TakeKill, TakeControl
  <2>3. work'.op # "adding"
    BY <2>2 DEF Select, Stopped, Telling, Closing
  <2> QED
    BY <1>4, <2>1, <2>3 DEF Line, WaitedIsDone
<1> QED
  BY <1>6, <1>7, <1>8

LEMMA LineBot ==
  ASSUME Types, Types', Line, AddEnds \/ BotTells \/ GraceEnds \/ HandleNews \/ Tasks \/ Tick
  PROVE  Line'
<1>1. CASE AddEnds
  <2>1. PICK m \in Mints, live \in BOOLEAN : work = Adding(m, live)
    BY <1>1, WorkOps DEF AddEnds
  <2>2. /\ work.op = "adding" /\ work.live = live /\ work' = Select /\ queue' = queue
        /\ IF live THEN ui' = At("loop") ELSE ui' = ui
    BY <1>1, <2>1 DEF AddEnds, AddReply, Adding
  <2>3. ui.at # "answered"
    BY <2>2 DEF Line, AnswerIsFresh, Select
  <2>4. WaitedIsDone' /\ AnswerIsFresh'
    <3>1. ui'.at # "answered"
      BY <2>2, <2>3, Going
    <3> QED
      BY <2>2, <3>1 DEF WaitedIsDone, AnswerIsFresh, Select
  <2>5. WaitedIsLast'
    <3>1. CASE live
      BY <2>2, <3>1 DEF Line, WaitedIsDone, WaitedIsLast
    <3>2. CASE ~live
      BY <2>2, <3>2 DEF Line, WaitedIsLast
    <3> QED
      BY <3>1, <3>2
  <2> QED
    BY <2>4, <2>5 DEF Line
<1>2. CASE HandleNews \/ Tasks
  <2>1. UNCHANGED <<queue, work, ui>> /\ DOMAIN session' = DOMAIN session
    <3>1. CASE HandleNews
      BY <3>1 DEF HandleNews, uiVars
    <3>2. CASE Tasks
      BY <3>2 DEF Tasks, EngineSends, ExecTakesOrder, ExecReturns, uiVars, botVars
    <3> QED
      BY <1>2, <3>1, <3>2
  <2> QED
    BY <2>1, LineKept
<1>3. CASE BotTells \/ GraceEnds
  <2>1. queue' = queue /\ ui' = ui /\ work.op \in {"telling", "closing"}
    BY <1>3 DEF BotTells, GraceEnds, InGrace, uiVars
  <2>2. work'.op # "adding"
    <3>1. CASE BotTells /\ work.op = "telling"
      BY <3>1 DEF BotTells, Select
    <3>2. CASE BotTells /\ work.op = "closing"
      <4>1. PICK m \in DOMAIN session, left \in SUBSET DOMAIN session, kill \in BOOLEAN,
                 plan \in Seq(Controls), grace \in 0 .. CLOSE_GRACE_SECS :
              work = ClosingAt(m, left, kill, plan, grace)
        BY <3>2, WorkOps
      <4>2. work' = [work EXCEPT !.plan = Tail(@)]
        BY <3>2 DEF BotTells
      <4> QED
        BY <4>1, <4>2 DEF ClosingAt
    <3>3. CASE GraceEnds
      <4>1. work' \in {Stopped, Select} \/ \E m, left, kill : work' = Closing(m, left, kill)
        BY <3>3 DEF GraceEnds
      <4> QED
        BY <4>1 DEF Stopped, Select, Closing
    <3> QED
      BY <1>3, <2>1, <3>1, <3>2, <3>3
  <2>3. ui.at # "answered"
    BY <2>1 DEF Line, AnswerIsFresh, Select
  <2> QED
    BY <2>1, <2>2, <2>3 DEF Line, WaitedIsLast, WaitedIsDone, AnswerIsFresh
<1>4. CASE Tick
  <2>1. /\ queue' = queue /\ session' = session
        /\ work' = IF InGrace THEN [work EXCEPT !.grace = @ - 1] ELSE work
        /\ ui' = IF ui.at = "leaving" THEN [ui EXCEPT !.left = @ - 1] ELSE ui
    BY <1>4 DEF Tick
  <2>2. \/ ui' = ui
        \/ ui \notin {At("waiting"), At("adding")} /\ ui'.at # "answered"
    <3>1. CASE ui.at = "leaving"
      <4>1. PICK n \in 0 .. KILL_WAIT_SECS : ui = Leaving(n)
        BY <3>1 DEF Types, UiIs, At, SendingFor, Answered, Leaving
      <4>2. ui'.at = "leaving"
        BY <2>1, <3>1, <4>1 DEF Leaving
      <4> QED
        BY <3>1, <4>2, Going
    <3> QED
      BY <2>1, <3>1
  <2>3. CASE ~InGrace
    BY <2>1, <2>2, <2>3, LineKept
  <2>4. CASE InGrace
    <3>1. PICK m \in DOMAIN session, left \in SUBSET DOMAIN session, kill \in BOOLEAN,
               plan \in Seq(Controls), grace \in 0 .. CLOSE_GRACE_SECS :
            work = ClosingAt(m, left, kill, plan, grace)
      BY <2>4, WorkOps DEF InGrace
    <3>2. work'.op = "closing" /\ work.op = "closing"
      BY <2>1, <2>4, <3>1 DEF ClosingAt
    <3>3. ui.at # "answered"
      BY <3>2 DEF Line, AnswerIsFresh, Select
    <3>4. ui'.at # "answered"
      BY <2>2, <3>3
    <3>5. WaitedIsLast'
      BY <2>1, <2>2 DEF Line, WaitedIsLast
    <3> QED
      BY <3>2, <3>4, <3>5 DEF Line, WaitedIsDone, AnswerIsFresh
  <2> QED
    BY <2>3, <2>4
<1> QED
  BY <1>1, <1>2, <1>3, <1>4

LEMMA LineNext ==
  ASSUME Types, Types', Line, [Next]_vars
  PROVE  Line'
<1>1. CASE UNCHANGED vars
  BY <1>1, LineKept DEF vars, uiVars, botVars
<1> QED
  BY <1>1, LineUi, LineTakes, LineBot DEF Next, BotStep

LEMMA LineInit == Init => Line
<1> SUFFICES ASSUME Init PROVE Line
  OBVIOUS
<1>1. queue = <<>> /\ work = Select /\ ui.at = "sending"
  BY Going DEF Init, Sending
<1> QED
  BY <1>1 DEF Line, WaitedIsLast, WaitedIsDone, AnswerIsFresh, Select

-----------------------------------------------------------------------------
\* A key that waits: it was pressed on no market, or on the one that is still
\* selected, or on one that is not listed and cannot come back while it waits,
\* since only another key could add it.

Gone(m) ==
  /\ m \notin DOMAIN session
  /\ \A i \in DOMAIN queue : queue[i].op = "AddMarket" => queue[i].mint # m
  /\ work.op = "adding" => work.mint # m
  /\ ui.at = "sending" => ~(ui.cmd.op = "AddMarket" /\ ui.cmd.mint = m)

Missing(m) == m \notin DOMAIN shown /\ Gone(m)

KeyWaits ==
  key # NoKey => key.on = None \/ key.on = Selection \/ Missing(key.on)

\* What is gone stays away, where nothing is added to the queue.
LEMMA GoneKept ==
  ASSUME NEW m, Gone(m), work'.op # "adding" \/ work' = work,
         queue' = queue, DOMAIN session' \subseteq DOMAIN session,
         ui' = ui \/ ui'.at # "sending"
  PROVE  Gone(m)'
BY DEF Gone

LEMMA GoneUi ==
  ASSUME Types, NEW m, Gone(m),
         \/ SnapshotTick \/ UiSends \/ UiAnswered \/ AskTimesOut \/ ReplyTimesOut \/ ProcessEnds
         \/ \E k \in Keys : Press(k)
  PROVE  Gone(m)'
<1>1. CASE SnapshotTick
  <2>1. ui' = SendingFor(Command("GetSnapshot", None), None) /\ UNCHANGED <<queue, work, session>>
    BY <1>1 DEF SnapshotTick, Sending, botVars
  <2>2. ui'.cmd.op = "GetSnapshot"
    BY <2>1, Going DEF Command
  <2> QED
    BY <2>1, <2>2 DEF Gone
<1>2. CASE UiSends
  <2>1. PICK c \in Cmd, on \in Mints \cup {None} : ui = SendingFor(c, on)
    BY <1>2, Going DEF UiSends, Types, UiIs
  <2>2. /\ queue' = Append(queue, c) /\ work' = work /\ session' = session
        /\ ui' \in {At("loop"), At("waiting"), At("adding"), Leaving(KILL_WAIT_SECS)}
    BY <1>2, <2>1, Going DEF UiSends
  <2>3. ui'.at # "sending"
    BY <2>2, Going
  <2>4. c.op = "AddMarket" => c.mint # m
    BY <2>1, Going DEF Gone
  <2>5. \A i \in DOMAIN queue' : queue'[i].op = "AddMarket" => queue'[i].mint # m
    <3> SUFFICES ASSUME NEW i \in DOMAIN queue', queue'[i].op = "AddMarket"
                 PROVE  queue'[i].mint # m
      OBVIOUS
    <3>1. \/ i \in DOMAIN queue /\ queue'[i] = queue[i]
          \/ queue'[i] = c
      BY <2>2, AddedIs
    <3> QED
      BY <2>4, <3>1 DEF Gone
  <2> QED
    BY <2>2, <2>3, <2>5 DEF Gone
<1>3. CASE ReplyTimesOut
  <2>1. /\ ui' = At("loop") /\ queue' = [i \in DOMAIN queue |-> [queue[i] EXCEPT !.live = FALSE]]
        /\ work' = IF work.op = "adding" THEN [work EXCEPT !.live = FALSE] ELSE work
        /\ session' = session
    BY <1>3 DEF ReplyTimesOut
  <2>2. ASSUME NEW i \in DOMAIN queue'
        PROVE  i \in DOMAIN queue /\ queue'[i].op = queue[i].op /\ queue'[i].mint = queue[i].mint
    <3>1. \A c \in Cmd : /\ [c EXCEPT !.live = FALSE].op = c.op
                         /\ [c EXCEPT !.live = FALSE].mint = c.mint
      BY DEF Cmd
    <3>2. i \in DOMAIN queue /\ queue'[i] = [queue[i] EXCEPT !.live = FALSE]
      BY <2>1, <2>2
    <3> QED
      BY <3>1, <3>2, QueueIs
  <2>3. work'.op = "adding" => work'.mint # m
    <3>1. CASE work.op = "adding"
      <4>1. PICK o \in Mints, live \in BOOLEAN : work = Adding(o, live)
        BY <3>1, WorkOps
      <4>2. work'.mint = work.mint
        BY <2>1, <3>1, <4>1 DEF Adding
      <4> QED
        BY <3>1, <4>2 DEF Gone
    <3>2. CASE work.op # "adding"
      BY <2>1, <3>2
    <3> QED
      BY <3>1, <3>2
  <2>4. ui'.at # "sending"
    BY <2>1, Going
  <2> QED
    BY <2>1, <2>2, <2>3, <2>4 DEF Gone
<1>4. CASE UiAnswered \/ AskTimesOut \/ ProcessEnds
  <2>1. UNCHANGED <<queue, work, session>> /\ ui' \in {At("loop"), At("exited")}
    BY <1>4 DEF UiAnswered, AskTimesOut, ProcessEnds, botVars
  <2> QED
    BY <2>1, Going, GoneKept
<1>5. CASE \E k \in Keys : Press(k)
  BY <1>5, GoneKept DEF Press, botVars
<1> QED
  BY <1>1, <1>2, <1>3, <1>4, <1>5

LEMMA GoneTakes ==
  ASSUME Types, NEW m, Gone(m),
         \/ TakeGetSnapshot \/ TakeAddMarket \/ TakeKill
         \/ \E op \in {"PauseMarket", "ResumeMarket", "RemoveMarket"} : TakeControl(op)
  PROVE  Gone(m)'
<1>1. /\ work = Select /\ queue # <<>> /\ queue' = Tail(queue) /\ session' = session
  BY DEF TakeGetSnapshot, TakeAddMarket, TakeKill, TakeControl, Take
<1>2. PICK c \in Cmd : c = Head(queue) /\ c = queue[1]
  BY <1>1, TakenIs
<1>3. \A i \in DOMAIN queue' : queue'[i].op = "AddMarket" => queue'[i].mint # m
  BY <1>1, TakenIs DEF Gone
<1>4. c.op = "AddMarket" => c.mint # m
  BY <1>1, <1>2, TakenIs DEF Gone
<1>5. work'.op = "adding" => work'.mint # m
  <2>1. CASE TakeAddMarket
    <3>1. c.op = "AddMarket" /\ work' \in {work, Adding(c.mint, c.live)}
      BY <1>2, <2>1 DEF TakeAddMarket, Take
    <3> QED
      BY <1>1, <1>4, <3>1 DEF Select, Adding
  <2>2. CASE ~TakeAddMarket
    <3>1. work' \in {Select, Stopped} \/ (\E o, d : work' = Telling(o, d))
          \/ (\E o, left, kill : work' = Closing(o, left, kill))
      BY <1>1, <2>2 DEF TakeGetSnapshot, TakeKill, TakeControl
    <3> QED
      BY <3>1 DEF Select, Stopped, Telling, Closing
  <2> QED
    BY <2>1, <2>2
<1>6. ui' = ui \/ ui'.at # "sending"
  <2>1. ui' = ui \/ ui' = At("loop") \/ ui' = Answered(session)
    BY DEF TakeGetSnapshot, TakeAddMarket, TakeKill, TakeControl, AddReply
  <2> QED
    BY <2>1, Going
<1> QED
  BY <1>1, <1>3, <1>5, <1>6 DEF Gone

LEMMA GoneBot ==
  ASSUME Types, NEW m, Gone(m), AddEnds \/ BotTells \/ GraceEnds \/ HandleNews \/ Tasks \/ Tick
  PROVE  Gone(m)'
<1>1. CASE AddEnds
  <2>1. work.op = "adding" /\ work' = Select /\ queue' = queue /\ (ui' = ui \/ ui' = At("loop"))
        /\ DOMAIN session' \subseteq DOMAIN session \cup {work.mint}
    BY <1>1 DEF AddEnds, AddReply
  <2>2. m \notin DOMAIN session'
    BY <2>1 DEF Gone
  <2> QED
    BY <2>1, <2>2, Going DEF Gone, Select
<1>2. CASE HandleNews \/ Tasks
  <2>1. UNCHANGED <<queue, work, ui>> /\ DOMAIN session' = DOMAIN session
    <3>1. CASE HandleNews
      BY <3>1 DEF HandleNews, uiVars
    <3>2. CASE Tasks
      BY <3>2 DEF Tasks, EngineSends, ExecTakesOrder, ExecReturns, uiVars, botVars
    <3> QED
      BY <1>2, <3>1, <3>2
  <2> QED
    BY <2>1, GoneKept
<1>3. CASE BotTells
  <2>1. /\ UNCHANGED <<queue, session, ui>> /\ work.op \in {"telling", "closing"}
        /\ work' = IF work.op = "telling" THEN Select ELSE [work EXCEPT !.plan = Tail(@)]
    BY <1>3 DEF BotTells, uiVars
  <2>2. work'.op # "adding"
    <3>1. CASE work.op = "telling"
      BY <2>1, <3>1 DEF Select
    <3>2. CASE work.op = "closing"
      <4>1. PICK o \in DOMAIN session, left \in SUBSET DOMAIN session, kill \in BOOLEAN,
                 plan \in Seq(Controls), grace \in 0 .. CLOSE_GRACE_SECS :
              work = ClosingAt(o, left, kill, plan, grace)
        BY <3>2, WorkOps
      <4> QED
        BY <2>1, <3>2, <4>1 DEF ClosingAt
    <3> QED
      BY <2>1, <3>1, <3>2
  <2> QED
    BY <2>1, <2>2, GoneKept
<1>4. CASE GraceEnds
  <2>1. /\ queue' = queue /\ ui' = ui /\ DOMAIN session' \subseteq DOMAIN session
        /\ (work' \in {Stopped, Select} \/ \E o, left, kill : work' = Closing(o, left, kill))
    BY <1>4 DEF GraceEnds, Without, uiVars
  <2>2. work'.op # "adding"
    BY <2>1 DEF Stopped, Select, Closing
  <2> QED
    BY <2>1, <2>2, GoneKept
<1>5. CASE Tick
  <2>1. /\ queue' = queue /\ session' = session
        /\ work' = IF InGrace THEN [work EXCEPT !.grace = @ - 1] ELSE work
        /\ ui' = IF ui.at = "leaving" THEN [ui EXCEPT !.left = @ - 1] ELSE ui
    BY <1>5 DEF Tick
  <2>2. ui' = ui \/ ui'.at # "sending"
    <3>1. CASE ui.at = "leaving"
      <4>1. PICK n \in 0 .. KILL_WAIT_SECS : ui = Leaving(n)
        BY <3>1 DEF Types, UiIs, At, SendingFor, Answered, Leaving
      <4> QED
        BY <2>1, <3>1, <4>1 DEF Leaving
    <3>2. CASE ui.at # "leaving"
      BY <2>1, <3>2
    <3> QED
      BY <3>1, <3>2
  <2>3. work'.op # "adding" \/ work' = work
    <3>1. CASE InGrace
      <4>1. PICK o \in DOMAIN session, left \in SUBSET DOMAIN session, kill \in BOOLEAN,
                 plan \in Seq(Controls), grace \in 0 .. CLOSE_GRACE_SECS :
              work = ClosingAt(o, left, kill, plan, grace)
        BY <3>1, WorkOps DEF InGrace
      <4> QED
        BY <2>1, <3>1, <4>1 DEF ClosingAt
    <3>2. CASE ~InGrace
      BY <2>1, <3>2
    <3> QED
      BY <3>1, <3>2
  <2> QED
    BY <2>1, <2>2, <2>3, GoneKept
<1> QED
  BY <1>1, <1>2, <1>3, <1>4, <1>5

\* Where the list stays as it is.
LEMMA KeyKept ==
  ASSUME KeyWaits, UNCHANGED <<shown, selected, key>>,
         Gone(key.on) => Gone(key.on)'
  PROVE  KeyWaits'
<1>1. Selection' = Selection
  BY DEF Selection, Place
<1> QED
  BY <1>1 DEF KeyWaits, Missing

\* A new list: the selection stays, or the market that was selected is gone, as
\* nothing is under way that could add it.
LEMMA KeyAnswered ==
  ASSUME Types, Line, KeyWaits, UiAnswered
  PROVE  KeyWaits'
<1>1. PICK s : DOMAIN s \subseteq Mints /\ ui = Answered(s)
  BY Going DEF UiAnswered, Types, UiIs
<1>2. SetSnapshot(s) /\ ui' = At("loop") /\ UNCHANGED <<key, queue, work, session>>
  BY <1>1, Going DEF UiAnswered, botVars
<1>3. queue = <<>> /\ work = Select /\ DOMAIN s = DOMAIN session
  BY <1>1, Going DEF Line, AnswerIsFresh
<1>4. shown' = s
  BY <1>2 DEF SetSnapshot
<1>5. ASSUME NEW m, m \notin DOMAIN session PROVE Missing(m)'
  <2>1. ui'.at # "sending" /\ work'.op # "adding"
    BY <1>2, <1>3, Going DEF Select
  <2>2. \A i \in DOMAIN queue' : FALSE
    BY <1>2, <1>3
  <2> QED
    BY <1>2, <1>3, <1>4, <1>5, <2>1, <2>2 DEF Missing, Gone
<1>6. Selection \in DOMAIN s => Selection' = Selection
  BY <1>1, <1>2, SnapshotKeeps DEF Types
<1>7. SUFFICES ASSUME key # NoKey, key.on # None
               PROVE  key.on = Selection' \/ Missing(key.on)'
  BY <1>2 DEF KeyWaits
<1>8. CASE key.on \in DOMAIN session
  <2>1. key.on = Selection
    BY <1>7, <1>8 DEF KeyWaits, Missing, Gone
  <2> QED
    BY <1>3, <1>6, <1>8, <2>1
<1>9. CASE key.on \notin DOMAIN session
  <2>1. PICK m : m = key.on
    OBVIOUS
  <2>2. Missing(m)'
    BY <1>5, <1>9, <2>1
  <2>3. key' = key
    BY <1>2
  <2> QED
    BY <1>2, <2>1, <2>2, <2>3
<1> QED
  BY <1>8, <1>9

\* A key that is read concerns its market, or that is not listed.
LEMMA KeyRead ==
  ASSUME Types, KeyWaits, KeysHitTheirMarket, HandleKey
  PROVE  KeysHitTheirMarket'
<1>1. /\ shown' = shown /\ ui = At("loop") /\ key # NoKey
      /\ NormalKey(key.code) \/ AddKey(key.code) \/ ConfirmQuitKey(key.code)
  BY DEF HandleKey, AtLoop
<1>2. None \notin DOMAIN shown
  BY ConsoleConstants DEF Types, Listed
<1>3. \/ ui' = ui
      \/ \E c : ui' = Sending(c)
      \/ \E op : ui' = SendingFor(Command(op, Selection), key.on) /\ Selection # None
  <2>1. CASE NormalKey(key.code)
    BY <2>1 DEF NormalKey, Quit
  <2>2. CASE AddKey(key.code)
    BY <2>2 DEF AddKey, Quit
  <2>3. CASE ConfirmQuitKey(key.code)
    BY <2>3 DEF ConfirmQuitKey, Quit
  <2> QED
    BY <1>1, <2>1, <2>2, <2>3
<1>4. CASE ui' = ui
  BY <1>1, <1>4, Going DEF KeysHitTheirMarket
<1>5. ASSUME NEW c, ui' = Sending(c) PROVE KeysHitTheirMarket'
  BY <1>1, <1>2, <1>5, Going DEF Sending, KeysHitTheirMarket
<1>6. ASSUME NEW op, ui' = SendingFor(Command(op, Selection), key.on) PROVE KeysHitTheirMarket'
  <2>1. ui'.on = key.on /\ ui'.cmd.mint = Selection
    BY <1>6, Going DEF Command
  <2>2. key.on \in DOMAIN shown => key.on = Selection
    BY <1>1, <1>2 DEF KeyWaits, Missing
  <2> QED
    BY <1>1, <2>1, <2>2 DEF KeysHitTheirMarket
<1> QED
  BY <1>3, <1>4, <1>5, <1>6

Keyed == KeyWaits /\ KeysHitTheirMarket

LEMMA KeyedNext ==
  ASSUME Types, Types', Line, Keyed, [Next]_vars
  PROVE  Keyed'
<1>1. CASE UNCHANGED vars
  <2>1. UNCHANGED <<ui, shown, selected, key, queue, work, session>>
    BY <1>1 DEF vars, uiVars, botVars
  <2>2. KeyWaits'
    BY <2>1, KeyKept, GoneKept DEF Keyed
  <2> QED
    BY <2>1, <2>2 DEF Keyed, KeysHitTheirMarket
<1>2. CASE HandleKey
  <2>1. KeyWaits'
    BY <1>2 DEF HandleKey, KeyWaits
  <2> QED
    BY <1>2, <2>1, KeyRead DEF Keyed
<1>3. CASE UiAnswered
  <2>1. KeysHitTheirMarket'
    BY <1>3, Going DEF UiAnswered, KeysHitTheirMarket
  <2> QED
    BY <1>3, <2>1, KeyAnswered DEF Keyed
<1>4. ASSUME NEW k \in Keys, Press(k) PROVE Keyed'
  <2>1. key' = [code |-> k, on |-> Selection] /\ UNCHANGED <<ui, shown, selected>>
    BY <1>4 DEF Press
  <2>2. Selection' = Selection /\ key'.on = Selection
    BY <2>1 DEF Selection, Place
  <2> QED
    BY <2>1, <2>2 DEF Keyed, KeyWaits, KeysHitTheirMarket
<1>5. CASE SnapshotTick \/ UiSends \/ AskTimesOut \/ ReplyTimesOut \/ ProcessEnds
  <2>1. UNCHANGED <<shown, selected, key>>
    BY <1>5 DEF SnapshotTick, UiSends, AskTimesOut, ReplyTimesOut, ProcessEnds
  <2>2. KeyWaits'
    BY <1>5, <2>1, KeyKept, GoneUi DEF Keyed
  <2>3. ui'.at # "sending" \/ ui'.on = None
    <3>1. ui' \in {At("loop"), At("waiting"), At("adding"), At("exited"), Leaving(KILL_WAIT_SECS)}
          \/ \E c : ui' = SendingFor(c, None)
      BY <1>5 DEF SnapshotTick, UiSends, AskTimesOut, ReplyTimesOut, ProcessEnds, Sending
    <3> QED
      BY <3>1, Going
  <2>4. None \notin DOMAIN shown'
    BY <2>1, ConsoleConstants DEF Types, Listed
  <2> QED
    BY <2>2, <2>3, <2>4 DEF Keyed, KeysHitTheirMarket
<1>6. CASE BotStep \/ Tasks \/ Tick
  <2>1. UNCHANGED <<shown, selected, key>>
    <3>1. CASE BotStep
      BY <3>1 DEF BotStep, TakeGetSnapshot, TakeAddMarket, TakeKill, TakeControl, Take, AddEnds,
         BotTells, GraceEnds, HandleNews, uiVars
    <3>2. CASE Tasks \/ Tick
      BY <3>2 DEF Tasks, EngineSends, ExecTakesOrder, ExecReturns, Tick, uiVars
    <3> QED
      BY <1>6, <3>1, <3>2
  <2>2. KeyWaits'
    BY <1>6, <2>1, KeyKept, GoneTakes, GoneBot DEF Keyed, BotStep
  <2>3. ui' = ui \/ ui'.at # "sending"
    <3>1. CASE BotStep
      <4>1. ui' = ui \/ ui' = At("loop") \/ ui' = Answered(session)
        BY <3>1 DEF BotStep, TakeGetSnapshot, TakeAddMarket, TakeKill, TakeControl, AddReply,
           AddEnds, BotTells, GraceEnds, HandleNews, uiVars
      <4> QED
        BY <4>1, Going
    <3>2. CASE Tasks
      BY <3>2 DEF Tasks, EngineSends, ExecTakesOrder, ExecReturns, uiVars
    <3>3. CASE Tick
      <4>1. ui' = IF ui.at = "leaving" THEN [ui EXCEPT !.left = @ - 1] ELSE ui
        BY <3>3 DEF Tick
      <4>2. CASE ui.at = "leaving"
        <5>1. PICK n \in 0 .. KILL_WAIT_SECS : ui = Leaving(n)
          BY <4>2 DEF Types, UiIs, At, SendingFor, Answered, Leaving
        <5> QED
          BY <4>1, <4>2, <5>1 DEF Leaving
      <4> QED
        BY <4>1, <4>2
    <3> QED
      BY <1>6, <3>1, <3>2, <3>3
  <2> QED
    BY <2>1, <2>2, <2>3 DEF Keyed, KeysHitTheirMarket
<1> QED
  BY <1>1, <1>2, <1>3, <1>4, <1>5, <1>6 DEF Next, UiStep

\* However many refreshes come between pressing a key and reading it, and
\* whatever is added and removed meanwhile, the key concerns the market that
\* was selected when it was pressed, as long as that is listed.
THEOREM KeysHit == Spec => []KeysHitTheirMarket
<1>1. Init => Keyed
  <2> SUFFICES ASSUME Init PROVE Keyed
    OBVIOUS
  <2>1. key = NoKey /\ ui.on = None /\ DOMAIN shown = {}
    BY Going DEF Init, Sending
  <2> QED
    BY <2>1 DEF Keyed, KeyWaits, KeysHitTheirMarket
<1>2. Keyed => KeysHitTheirMarket
  BY DEF Keyed
<1>3. Types /\ Line /\ Keyed /\ [Next]_vars => Types' /\ Line' /\ Keyed'
  BY TypesNext, LineNext, KeyedNext
<1> QED
  BY <1>1, <1>2, <1>3, TypesInit, LineInit, PTL DEF Spec

=============================================================================
