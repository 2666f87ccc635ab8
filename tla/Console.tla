------------------------------ MODULE Console ------------------------------
(***************************************************************************)
(* The terminal UI (src/bin/bot.rs) at its end of the command queue, the   *)
(* Bot task at the other (start and handle_cmd of src/bot.rs), and what    *)
(* the bot may wait for: the executors it sends controls to, and the       *)
(* worker threads of the runtime, one of which an engine holds while it is *)
(* blocked in the send of an order (src/signal/engine.rs).                 *)
(*                                                                         *)
(* The UI is one task.  It acts on the snapshot it has, asks for a new one *)
(* with timeouts of 250 ms for the queue and 450 ms for the answer, waits  *)
(* without one for room for a key's command, and gives the bot 5 s to end. *)
(* The bot runs one command at a time.  Time matters to quitting only and  *)
(* is counted in seconds, there and in the grace of a removal.             *)
(***************************************************************************)
EXTENDS Integers, Sequences, FiniteSets

CONSTANTS
  None,
  Mints,     \* token mints; their order is the order of the list
  QueueCap,  \* capacity of the command queue (64)
  Threads,   \* worker threads of the runtime
  Presses    \* bound: keys pressed

\* An engine holds at most one thread: with a thread more than markets one is
\* always left for the tasks that would let the engines go on.
ASSUME ConsoleAssumption ==
  /\ Mints \subseteq Nat /\ IsFiniteSet(Mints) /\ None \notin Mints
  /\ QueueCap \in Nat \ {0} /\ Presses \in Nat
  /\ Threads \in Nat /\ Cardinality(Mints) < Threads

CLOSE_GRACE_SECS == 2
KILL_WAIT_SECS   == 5

VARIABLES
  ui,        \* where run_tui, or main after it, is
  mode,      \* AppState.mode
  shown,     \* AppState.snapshot: is_paused of each market listed
  selected,  \* AppState.selected, an index from 0
  key,       \* the key waiting to be read, and the mint selected when pressed
  pressed,   \* keys pressed so far
  queue,     \* BotCommand channel
  work,      \* the command the bot is in the middle of
  session,   \* is_paused of each market of Bot.session (which a Kill, that nobody
             \* can look into, clears as a whole at its end)
  news,      \* market events Paused and Resumed
  paused,    \* markets whose executor is paused
  away,      \* markets whose executor is in a handler, not at its select!
  sends,     \* markets whose engine is blocked in the send of an order
  held,      \* while the process was leaving, the bot had to wait
  crossed    \* markets added before the news of an earlier one of their mint
             \* was read

uiVars   == <<ui, mode, shown, selected, key, pressed>>
botVars  == <<queue, work, session, news>>
taskVars == <<paused, away, sends>>
seen     == <<held, crossed>>
vars     == <<uiVars, botVars, taskVars, seen>>

Ops  == {"GetSnapshot", "AddMarket", "RemoveMarket", "PauseMarket",
         "ResumeMarket", "Kill"}
Keys == {"q", "y", "n", "esc", "ctrl-c", "up", "down", "a", "enter", "d", "p"}

\* live: someone still waits for the reply.
Command(op, m) == [op |-> op, mint |-> m, live |-> TRUE]

NoKey == [code |-> None, on |-> None]

\* on: the market that was selected when the key was pressed.
SendingFor(c, on) == [at |-> "sending", cmd |-> c, on |-> on]

At(p)        == [at |-> p]
Sending(c)   == SendingFor(c, None)
Answered(s)  == [at |-> "answered", snap |-> s]
Leaving(n)   == [at |-> "leaving", left |-> n]
Quit         == Sending(Command("Kill", None))

Select          == [op |-> "select"]
Stopped         == [op |-> "stopped"]
Adding(m, live) == [op |-> "adding", mint |-> m, live |-> live]
Telling(m, c)   == [op |-> "telling", mint |-> m, plan |-> <<c>>]
Closing(m, left, kill) ==
  [op |-> "closing", mint |-> m, plan |-> <<"Pause", "ForceClose", "Kill">>,
   left |-> left, kill |-> kill, grace |-> CLOSE_GRACE_SECS]

Without(f, m) == [x \in DOMAIN f \ {m} |-> f[x]]

-----------------------------------------------------------------------------
\* AppState

\* sort_by_key: the place of a mint in the list of s.
Place(s, m) == Cardinality({x \in DOMAIN s : x < m})

\* selected_market
Selection == IF DOMAIN shown = {} THEN None
             ELSE CHOOSE m \in DOMAIN shown : Place(shown, m) = selected

\* Mutant: the index is kept.
SetSnapshotByIndex(s) ==
  LET n == Cardinality(DOMAIN s)
  IN  /\ shown' = s
      /\ selected' = IF n = 0 THEN 0 ELSE IF selected < n THEN selected ELSE n - 1

\* Mutant: the selection follows the mint and nothing else.
SetSnapshotUnclamped(s) ==
  /\ shown' = s
  /\ selected' = IF Selection \in DOMAIN s THEN Place(s, Selection) ELSE selected

\* set_snapshot: the selection follows the mint, or stays in the list.
SetSnapshot(s) ==
  LET n == Cardinality(DOMAIN s)
  IN  /\ shown' = s
      /\ selected' = IF n = 0 THEN 0
                     ELSE IF Selection \in DOMAIN s THEN Place(s, Selection)
                     ELSE IF selected < n THEN selected ELSE n - 1

\* move_selection_up and move_selection_down
Moved(step) ==
  LET n == Cardinality(DOMAIN shown)
  IN  IF n = 0 THEN selected ELSE (selected + n + step) % n

-----------------------------------------------------------------------------
\* Threads: the UI is on the main thread, every other task and the timers
\* need a worker.

Free == Cardinality(sends) < Threads

-----------------------------------------------------------------------------
\* run_tui

AtLoop == ui = At("loop")

SnapshotTick ==
  /\ AtLoop /\ Free
  /\ ui' = Sending(Command("GetSnapshot", None))
  /\ UNCHANGED <<mode, shown, selected, key, pressed, botVars, taskVars, seen>>

\* What a key would do in the mode there is, or the one an answer may bring.
Useful(k) ==
  \/ k = "ctrl-c"
  \/ mode = "ConfirmQuit" /\ k \in {"y", "n"}
  \/ mode = "Add" /\ k \in {"esc", "enter"}
  \/ (mode = "Normal" \/ ui.at = "adding") /\ k \in {"q", "a", "up", "down", "d", "p"}

Press(k) ==
  /\ Useful(k) /\ pressed < Presses /\ key = NoKey /\ ui.at \notin {"leaving", "exited"}
  /\ key' = [code |-> k, on |-> Selection]
  /\ pressed' = pressed + 1
  /\ UNCHANGED <<ui, mode, shown, selected, botVars, taskVars, seen>>

\* handle_normal_key
NormalKey(k) ==
  /\ mode = "Normal"
  /\ mode' = CASE k = "q" -> "ConfirmQuit" [] k = "a" -> "Add" [] OTHER -> mode
  /\ selected' = CASE k = "up" -> Moved(-1) [] k = "down" -> Moved(1)
                   [] OTHER -> selected
  /\ ui' = CASE k = "ctrl-c" -> Quit
             [] k = "d" /\ Selection # None ->
                  SendingFor(Command("RemoveMarket", Selection), key.on)
             [] k = "p" /\ Selection # None ->
                  SendingFor(Command(IF shown[Selection] THEN "ResumeMarket"
                                     ELSE "PauseMarket", Selection), key.on)
             [] OTHER -> ui

\* handle_add_key and submit_add; a form that is not valid, and one still
\* being filled, stays.
AddKey(k) ==
  /\ mode = "Add"
  /\ mode' = IF k = "esc" THEN "Normal" ELSE mode
  /\ ui' \in CASE k = "ctrl-c" -> {Quit}
               [] k = "enter"  -> {ui} \cup {Sending(Command("AddMarket", m)) : m \in Mints}
               [] OTHER -> {ui}
  /\ UNCHANGED selected

\* handle_confirm_quit_key
ConfirmQuitKey(k) ==
  /\ mode = "ConfirmQuit"
  /\ mode' = IF k \in {"n", "esc"} THEN "Normal" ELSE mode
  /\ ui' = IF k \in {"y", "ctrl-c"} THEN Quit ELSE ui
  /\ UNCHANGED selected

HandleKey ==
  /\ AtLoop /\ key # NoKey
  /\ NormalKey(key.code) \/ AddKey(key.code) \/ ConfirmQuitKey(key.code)
  /\ key' = NoKey
  /\ UNCHANGED <<shown, pressed, botVars, taskVars, seen>>

\* bot_tx.send, once there is room.
UiSends ==
  /\ ui.at = "sending" /\ Len(queue) < QueueCap
  /\ queue' = Append(queue, ui.cmd)
  /\ ui' = CASE ui.cmd.op = "GetSnapshot" -> At("waiting")
             [] ui.cmd.op = "AddMarket" -> At("adding")
             [] ui.cmd.op = "Kill" -> Leaving(KILL_WAIT_SECS)
             [] OTHER -> At("loop")
  /\ UNCHANGED <<mode, shown, selected, key, pressed, work, session, news,
                 taskVars, seen>>

UiAnswered ==
  /\ ui.at = "answered"
  /\ SetSnapshot(ui.snap)
  /\ ui' = At("loop")
  /\ UNCHANGED <<mode, key, pressed, botVars, taskVars, seen>>

\* A bot at its select! takes and answers a command in less than any of the
\* timeouts: one passes while it is in the middle of another.
Busy == work.op \in {"adding", "telling", "closing"}

AskTimesOut ==
  /\ Busy /\ Free
  /\ ui.at = "sending" /\ ui.cmd.op = "GetSnapshot" /\ Len(queue) = QueueCap
  /\ ui' = At("loop")
  /\ UNCHANGED <<mode, shown, selected, key, pressed, botVars, taskVars, seen>>

\* The request stays where it is, with nobody to answer.
ReplyTimesOut ==
  /\ Busy /\ Free
  /\ ui.at \in {"waiting", "adding"}
  /\ ui' = At("loop")
  /\ mode' = IF ui.at = "adding" THEN "Normal" ELSE mode
  /\ queue' = [i \in DOMAIN queue |-> [queue[i] EXCEPT !.live = FALSE]]
  /\ work' = IF work.op = "adding" THEN [work EXCEPT !.live = FALSE] ELSE work
  /\ UNCHANGED <<shown, selected, key, pressed, session, news, taskVars, seen>>

\* Mutant: main does not wait for the bot's task.
ProcessEndsAtOnce ==
  /\ ui.at = "leaving"
  /\ ui' = At("exited")
  /\ UNCHANGED <<mode, shown, selected, key, pressed, botVars, taskVars, seen>>

\* main returns when the bot has, or after the wait; the tasks end with it.
ProcessEnds ==
  /\ ui.at = "leaving" /\ (work = Stopped \/ ui.left = 0)
  /\ ui' = At("exited")
  /\ UNCHANGED <<mode, shown, selected, key, pressed, botVars, taskVars, seen>>

-----------------------------------------------------------------------------
\* handle_cmd

\* The reply of an AddMarket closes the form or leaves it.
AddReply(live, ok) ==
  IF live THEN ui' = At("loop") /\ mode' = IF ok THEN "Normal" ELSE mode
  ELSE UNCHANGED <<ui, mode>>

Take(op) == /\ work = Select /\ Free
            /\ queue # <<>> /\ Head(queue).op = op
            /\ queue' = Tail(queue)
            /\ UNCHANGED <<shown, selected, key, pressed, session, news, taskVars, seen>>

TakeGetSnapshot ==
  /\ Take("GetSnapshot")
  /\ ui' = IF Head(queue).live THEN Answered(session) ELSE ui
  /\ UNCHANGED <<mode, work>>

\* Refused when the market is there or the wallet has not the margin.
TakeAddMarket ==
  /\ Take("AddMarket")
  /\ LET c == Head(queue)
     IN  \/ AddReply(c.live, FALSE) /\ UNCHANGED work
         \/ /\ c.mint \notin DOMAIN session
            /\ work' = Adding(c.mint, c.live) /\ UNCHANGED <<ui, mode>>

\* PauseMarket, ResumeMarket, RemoveMarket of one that is not there: nothing.
TakeControl(op) ==
  /\ Take(op)
  /\ LET m == Head(queue).mint
     IN  work' = IF m \notin DOMAIN session THEN Select
                 ELSE CASE op = "PauseMarket"  -> Telling(m, "Pause")
                        [] op = "ResumeMarket" -> Telling(m, "Resume")
                        [] op = "RemoveMarket" -> Closing(m, {}, FALSE)
  /\ UNCHANGED <<ui, mode>>

\* close_all begins with some market of the map.
TakeKill ==
  /\ Take("Kill")
  /\ IF DOMAIN session = {} THEN work' = Stopped
     ELSE \E m \in DOMAIN session :
            work' = Closing(m, DOMAIN session \ {m}, TRUE)
  /\ UNCHANGED <<ui, mode>>

\* Market::spawn and the rest of add_market, whatever time they take.
AddEnds ==
  /\ work.op = "adding" /\ Free
  /\ \E ok \in BOOLEAN :
       /\ AddReply(work.live, ok)
       /\ session' = IF ok THEN [x \in DOMAIN session \cup {work.mint} |->
                                   IF x = work.mint THEN FALSE ELSE session[x]]
                     ELSE session
       /\ crossed' = IF ok /\ \E i \in DOMAIN news : news[i].mint = work.mint
                     THEN crossed \cup {work.mint} ELSE crossed
  /\ work' = Select
  /\ UNCHANGED <<shown, selected, key, pressed, queue, news, taskVars, held>>

\* Mutant: the executor is paused, nobody is told.
HearsSilently(m, c) ==
  /\ paused' = CASE c = "Pause" -> paused \cup {m} [] c = "Resume" -> paused \ {m}
                 [] OTHER -> paused
  /\ away' \in IF c \in {"ForceClose", "Kill"} THEN {away, away \cup {m}} ELSE {away}
  /\ UNCHANGED news

\* The executor of m takes a control; a close may keep it in its handler.
Hears(m, c) ==
  /\ paused' = CASE c = "Pause" -> paused \cup {m} [] c = "Resume" -> paused \ {m}
                 [] OTHER -> paused
  /\ news' = IF c \in {"Pause", "Resume"}
             THEN Append(news, [mint |-> m, isPaused |-> c = "Pause"]) ELSE news
  /\ away' \in IF c \in {"ForceClose", "Kill"} THEN {away, away \cup {m}} ELSE {away}

\* send_exec_command: the executor must be at its select!.
BotTells ==
  /\ work.op \in {"telling", "closing"} /\ work.plan # <<>> /\ Free
  /\ work.mint \notin away
  /\ Hears(work.mint, Head(work.plan))
  /\ work' = IF work.op = "telling" THEN Select
             ELSE [work EXCEPT !.plan = Tail(@)]
  /\ UNCHANGED <<uiVars, queue, session, sends, seen>>

InGrace == work.op = "closing" /\ work.plan = <<>>

\* Mutant: a removal waits for a market that is doing nothing.
GraceEndsAtRest ==
  /\ InGrace /\ work.grace = 0 /\ Free
  /\ work.mint \notin away \cup sends
  /\ session' = Without(session, work.mint)
  /\ crossed' = crossed \ {work.mint}
  /\ paused' = paused \ {work.mint}
  /\ IF work.left = {} THEN work' = IF work.kill THEN Stopped ELSE Select
     ELSE \E m \in work.left : work' = Closing(m, work.left \ {m}, work.kill)
  /\ UNCHANGED <<uiVars, queue, news, away, sends, held>>

\* stop: the executor drops its receiver, which ends an engine's send.
GraceEnds ==
  /\ InGrace /\ work.grace = 0 /\ Free
  /\ session' = Without(session, work.mint)
  /\ crossed' = crossed \ {work.mint}
  /\ paused' = paused \ {work.mint} /\ away' = away \ {work.mint}
  /\ sends' = sends \ {work.mint}
  /\ IF work.left = {} THEN work' = IF work.kill THEN Stopped ELSE Select
     ELSE \E m \in work.left : work' = Closing(m, work.left \ {m}, work.kill)
  /\ UNCHANGED <<uiVars, queue, news, held>>

\* handle_market_event of Paused and Resumed, by mint.
HandleNews ==
  /\ work = Select /\ news # <<>> /\ Free
  /\ news' = Tail(news)
  /\ LET e == Head(news)
     IN  session' = IF e.mint \in DOMAIN session
                    THEN [session EXCEPT ![e.mint] = e.isPaused] ELSE session
  /\ UNCHANGED <<uiVars, queue, work, taskVars, seen>>

-----------------------------------------------------------------------------
\* The markets.

EngineSends(m) ==
  /\ m \in DOMAIN session \ sends /\ Free
  /\ sends' = sends \cup {m}
  /\ UNCHANGED <<uiVars, botVars, paused, away, seen>>

\* The order is ignored, or carried out in the handler.
ExecTakesOrder(m) ==
  /\ m \in sends \ away /\ Free
  /\ sends' = sends \ {m}
  /\ away' \in {away, away \cup {m}}
  /\ UNCHANGED <<uiVars, botVars, paused, seen>>

ExecReturns(m) ==
  /\ m \in away /\ Free
  /\ away' = away \ {m}
  /\ UNCHANGED <<uiVars, botVars, paused, sends, seen>>

-----------------------------------------------------------------------------
\* A second passes where one is counted, once the bot has done what it can.

Counting == InGrace \/ ui.at = "leaving"

CanGoOn ==
  \/ ui.at = "leaving" /\ ui.left = 0
  \/ work = Stopped
  \/ InGrace /\ work.grace = 0
  \/ work = Select /\ (queue # <<>> \/ news # <<>>)
  \/ work.op \in {"telling", "closing"} /\ work.plan # <<>> /\ work.mint \notin away

Tick ==
  /\ Counting /\ ~CanGoOn /\ Free
  /\ work' = IF InGrace THEN [work EXCEPT !.grace = @ - 1] ELSE work
  /\ ui' = IF ui.at = "leaving" THEN [ui EXCEPT !.left = @ - 1] ELSE ui
  /\ held' = (held \/ (ui.at = "leaving" /\ ~(InGrace /\ work.kill)))
  /\ UNCHANGED <<mode, shown, selected, key, pressed, queue, session, news, taskVars,
                 crossed>>

-----------------------------------------------------------------------------
\* The bot has been at work for a while when a run begins: the form may be
\* open, and then the Paused of a market just removed may not be read yet.
Init ==
  /\ ui = Sending(Command("GetSnapshot", None))
  /\ mode \in {"Normal", "Add"} /\ shown = <<>> /\ selected = 0
  /\ key = NoKey /\ pressed = 0
  /\ queue = <<>> /\ work = Select
  /\ \E ms \in SUBSET Mints :
       /\ session = [m \in ms |-> FALSE]
       /\ news \in {<<>>} \cup {<<[mint |-> m, isPaused |-> TRUE]>> :
                               m \in IF mode = "Add" THEN Mints \ ms ELSE {}}
  /\ paused = {} /\ away = {} /\ sends = {} /\ held = FALSE /\ crossed = {}

UiStep == SnapshotTick \/ HandleKey \/ UiSends \/ UiAnswered
            \/ AskTimesOut \/ ReplyTimesOut \/ ProcessEnds

BotStep == TakeGetSnapshot \/ TakeAddMarket \/ TakeKill
             \/ (\E op \in {"PauseMarket", "ResumeMarket", "RemoveMarket"} : TakeControl(op))
             \/ AddEnds \/ BotTells \/ GraceEnds \/ HandleNews

Tasks == \E m \in Mints : EngineSends(m) \/ ExecTakesOrder(m) \/ ExecReturns(m)

Exited == ui = At("exited")

Next == \/ ~Exited /\ (UiStep \/ BotStep \/ Tasks \/ Tick \/ \E k \in Keys : Press(k))
        \/ Exited /\ UNCHANGED vars

Spec == Init /\ [][Next]_vars

(***************************************************************************)
(* Fairness: the UI's select! and the bot's are fair to their branches, a  *)
(* task that is woken and finds a worker runs, timers fire, a handler of   *)
(* the executor ends, a spawn ends (Candles), and a sender waiting on the  *)
(* trade channel has its turn.  Nobody has to press a key.                 *)
(***************************************************************************)
Alive(A) == ~Exited /\ A

FairSpec ==
  /\ Spec
  /\ SF_vars(Alive(SnapshotTick)) /\ SF_vars(Alive(HandleKey))
  /\ WF_vars(Alive(UiSends \/ UiAnswered \/ ProcessEnds))
  /\ WF_vars(Alive(AskTimesOut \/ ReplyTimesOut))
  /\ WF_vars(Alive(AddEnds \/ GraceEnds \/ TakeGetSnapshot \/ TakeAddMarket \/ TakeKill
       \/ \E op \in {"PauseMarket", "ResumeMarket", "RemoveMarket"} : TakeControl(op)))
  /\ SF_vars(Alive(BotTells))
  /\ SF_vars(Alive(HandleNews)) /\ WF_vars(Alive(Tick))
  /\ \A m \in Mints : SF_vars(Alive(ExecTakesOrder(m))) /\ WF_vars(Alive(ExecReturns(m)))

-----------------------------------------------------------------------------
TypeOK ==
  /\ mode \in {"Normal", "Add", "ConfirmQuit"}
  /\ DOMAIN shown \subseteq Mints /\ DOMAIN session \subseteq Mints
  /\ selected \in 0 .. Cardinality(DOMAIN shown)
  /\ DOMAIN shown # {} => selected < Cardinality(DOMAIN shown)
  /\ Len(queue) <= QueueCap /\ \A i \in DOMAIN queue : queue[i].op \in Ops
  /\ paused \cup away \cup sends \cup crossed \subseteq DOMAIN session

\* A key that was pressed on a market and read after a refresh, which may have
\* put others before it in the list, concerns that market as long as it is
\* listed at all.
KeysHitTheirMarket ==
  ui.at = "sending" /\ ui.on \in DOMAIN shown => ui.cmd.mint = ui.on

\* The UI always returns to its loop, or the process ends: also when the queue
\* is full of requests nobody waits for, the bot waits for an executor, the
\* executor for the network, and every engine holds a thread.
UiServed == []<>(ui.at \in {"loop", "exited"})

\* The screen catches up: again and again it shows the markets there are, each
\* paused if its executor is, whatever timed out before.  One that was added
\* before the bot read that its predecessor was paused may be shown as paused
\* although it is not, as events carry only the mint.
ScreenCatchesUp ==
  []<>(Exited \/ /\ DOMAIN shown = DOMAIN session
                 /\ \A m \in DOMAIN session \ crossed : shown[m] = (m \in paused))

\* Quitting asks every market to close before the process ends, unless the bot
\* had to wait for more than its own graces: three graces of 2 s begin within
\* the 5 s (the fourth of four markets would not be asked).
QuitAsks ==
  Exited /\ ~held /\ Cardinality(Mints) <= 3 =>
    work.op \in {"stopped", "closing"}
      /\ (work.op = "closing" => work.left = {} /\ work.plan = <<>>)
=============================================================================
