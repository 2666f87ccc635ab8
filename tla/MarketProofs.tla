---------------------------- MODULE MarketProofs ----------------------------
(***************************************************************************)
(* What a market's engine, executor and session know of each other, for    *)
(* any sizes, margins and strategies, a market channel of any capacity and *)
(* any backlog.                                                            *)
(*                                                                         *)
(* Each of the properties says that two parties agree once their channels  *)
(* are empty.  The invariant behind it follows the news through them: what *)
(* the reader knows, overruled by the last news of each channel on its     *)
(* way, is what the writer last made of it.                                *)
(***************************************************************************)
EXTENDS Market, SignalEngineProofs

\* What travels between the tasks of a market.
Commands  == {c \in Inputs : c.type \in {"Price", "Margin", "Position", "OpenFailed"}}
ExecNews  == {"OpenPosition", "NoPosition", "OpenFailed", "SwapFill", "Trade",
              "Paused", "Resumed"}
Messages  == [type : {"OpenPosition"}, arg : Positions]
               \cup [type : (ExecNews \ {"OpenPosition", "SwapFill"}) \cup Kind, arg : {None}]
Sessions  == [view : Kind, pos : Positions \cup {None}, margin : Margins \cup {None},
              isPaused : BOOLEAN]

MarketTypes ==
  /\ EngineTypes /\ pc # "stopped"
  /\ inbox \in Seq(Commands)
  /\ mode \in Cycle!Modes /\ execOut \in Seq(ExecNews) /\ execPaused \in BOOLEAN
  /\ marketQ \in Seq(Messages) /\ events \in Seq(Messages)
  /\ plan \in Seq({"Pause", "Resume", "ForceClose", "Kill"})
  /\ session \in Sessions
  /\ phase \in {"spawning", "running", "removing", "gone"}
  /\ phase \in {"spawning", "gone"} => session = NoSession
  /\ phase = "running" => session.margin \in Margins

-----------------------------------------------------------------------------
\* What the news say of the position, to the engine and to the session: the
\* executor's own, the messages of the market channel, and the commands.

Status(p) == IF p = None THEN "none" ELSE "some"

PositionNews == {c \in Commands : c.type \in {"Position", "OpenFailed"}}

HeldByInbox == [c \in PositionNews |-> Status(c.arg)]
HeldByQueue == [m \in {x \in Messages : x.type \in {"OpenPosition", "NoPosition", "OpenFailed"}}
                  |-> Status(m.arg)]
HeldByExec  == [x \in {"OpenPosition", "NoPosition", "OpenFailed"}
                  |-> IF x = "OpenPosition" THEN "some" ELSE "none"]

Held == IF Holding THEN "some" ELSE "none"

KnowsInv ==
  \E v1, v2 : /\ Heard(inbox, HeldByInbox, Status(openPos), v1)
              /\ Heard(marketQ, HeldByQueue, v1, v2)
              /\ Heard(execOut, HeldByExec, v2, Held)

-----------------------------------------------------------------------------
\* Through two channels of messages and a third of words, which says and said
\* translate, the session gets to know what v is.

Told(e, q, x, says, said, before, v) ==
  \E v1, v2 : Heard(e, says, before, v1) /\ Heard(q, says, v1, v2) /\ Heard(x, said, v2, v)

\* The session also loses the position to a Trade and to an Idle.
ShownByQueue == [m \in {x \in Messages : x.type \in {"OpenPosition", "NoPosition", "OpenFailed",
                                                      "Trade", "Idle"}} |-> Status(m.arg)]
ShownByExec  == [x \in {"OpenPosition", "NoPosition", "OpenFailed", "Trade"}
                   |-> IF x = "OpenPosition" THEN "some" ELSE "none"]

ShownInv ==
  phase # "gone" =>
    \E v : /\ Told(events, marketQ, execOut, ShownByQueue, ShownByExec, Status(session.pos), v)
           /\ v = "some" => Holding

PausedByQueue == [m \in {x \in Messages : x.type \in {"Paused", "Resumed"}}
                    |-> m.type = "Paused"]
PausedByExec  == [x \in {"Paused", "Resumed"} |-> x = "Paused"]

PausedInv ==
  phase # "gone" =>
    Told(events, marketQ, execOut, PausedByQueue, PausedByExec, session.isPaused, execPaused)

MarginInv == phase = "running" => Heard(inbox, MarginSays, margin, session.margin)

\* The views, up to an Idle that a Trade or an OpenFailed makes of them.  In
\* the handler of a price the engine has told begun.
Views    == [m \in {x \in Messages : x.type \in Kind \cup {"OpenFailed", "Trade"}}
               |-> IF m.type \in Kind THEN m.type ELSE "Idle"]
OwnViews == [k \in Kind |-> k]

Known == IF pc = "recv" THEN state ELSE begun

ViewsInv ==
  phase # "gone" =>
    \E v : /\ Told(events, marketQ, outbox, Views, OwnViews, session.view, v)
           /\ v \in {Known.kind, "Idle"}

\* The engine speaks between two commands, and of the state it is in.
SpeaksInv ==
  /\ outbox # <<>> => pc = "recv" /\ outbox = <<state.kind>>
  /\ pc = "tick" /\ Busy => state = begun

-----------------------------------------------------------------------------
\* What a queue says as messages come and go.

LEMMA HeardNothing ==
  ASSUME NEW says, NEW before
  PROVE  Heard(<<>>, says, before, before)
BY DEF Heard

LEMMA HeardEmpty ==
  ASSUME NEW says, NEW before, NEW v, Heard(<<>>, says, before, v)
  PROVE  v = before
BY DEF Heard

\* A queue without news says what was known before.
LEMMA HeardNoNews ==
  ASSUME NEW q, NEW says, NEW before, NEW v, Heard(q, says, before, v),
         \A i \in DOMAIN q : q[i] \notin DOMAIN says
  PROVE  v = before
BY DEF Heard

LEMMA HeardJustNow ==
  ASSUME NEW S, NEW q \in Seq(S), NEW says, NEW m \in S, m \in DOMAIN says, NEW before
  PROVE  Heard(Append(q, m), says, before, says[m])
<1> DEFINE a == Append(q, m)
<1>1. /\ Len(q) \in Nat /\ DOMAIN a = 1..(Len(q) + 1) /\ a[Len(q) + 1] = m
  OBVIOUS
<1> HIDE DEF a
<1>2. Len(q) + 1 \in DOMAIN a /\ \A j \in DOMAIN a : ~(j > Len(q) + 1)
  BY <1>1
<1>3. Heard(a, says, before, says[m])
  BY <1>1, <1>2 DEF Heard
<1> QED
  BY <1>3 DEF a

LEMMA HeardAppended ==
  ASSUME NEW S, NEW q \in Seq(S), NEW m \in S, NEW says, NEW before, NEW v,
         Heard(q, says, before, v)
  PROVE  /\ m \in DOMAIN says => Heard(Append(q, m), says, before, says[m])
         /\ m \notin DOMAIN says => Heard(Append(q, m), says, before, v)
<1> DEFINE a == Append(q, m)
<1>1. /\ DOMAIN q = 1..Len(q) /\ Len(q) \in Nat /\ DOMAIN a = 1..(Len(q) + 1)
      /\ a[Len(q) + 1] = m /\ \A i \in DOMAIN q : a[i] = q[i]
  OBVIOUS
<1> HIDE DEF a
<1>2. CASE m \in DOMAIN says
  BY <1>2, HeardJustNow DEF a
<1>3. CASE m \notin DOMAIN says
  <2>1. \A j \in DOMAIN a : j \in DOMAIN q \/ a[j] = m
    BY <1>1
  <2>2. CASE v = before /\ \A i \in DOMAIN q : q[i] \notin DOMAIN says
    BY <1>1, <1>3, <2>1, <2>2 DEF Heard, a
  <2>3. ASSUME NEW i \in DOMAIN q, q[i] \in DOMAIN says, v = says[q[i]],
               \A j \in DOMAIN q : j > i => q[j] \notin DOMAIN says
        PROVE  Heard(a, says, before, v)
    <3>1. i \in DOMAIN a /\ a[i] = q[i]
      BY <1>1
    <3>2. \A j \in DOMAIN a : j > i => a[j] \notin DOMAIN says
      BY <1>1, <1>3, <2>1, <2>3
    <3> QED
      BY <2>3, <3>1, <3>2 DEF Heard
  <2> QED
    BY <1>3, <2>2, <2>3 DEF Heard, a
<1> QED
  BY <1>2, <1>3

\* Once the first message is known, the rest says the same.
LEMMA HeardTaken ==
  ASSUME NEW S, NEW q \in Seq(S), q # <<>>, NEW says, NEW before, NEW v,
         Heard(q, says, before, v)
  PROVE  /\ Head(q) \in DOMAIN says => Heard(Tail(q), says, says[Head(q)], v)
         /\ Head(q) \notin DOMAIN says => Heard(Tail(q), says, before, v)
<1> DEFINE t == Tail(q)
<1>1. /\ Len(q) \in Nat /\ Len(q) >= 1 /\ DOMAIN q = 1..Len(q) /\ DOMAIN t = 1..(Len(q) - 1)
      /\ Head(q) = q[1] /\ \A i \in DOMAIN t : t[i] = q[i + 1]
  OBVIOUS
<1> HIDE DEF t
<1>2. \A i \in DOMAIN t : i + 1 \in DOMAIN q
  BY <1>1
<1>3. CASE v = before /\ \A i \in DOMAIN q : q[i] \notin DOMAIN says
  BY <1>1, <1>2, <1>3 DEF Heard, t
<1>4. ASSUME NEW i \in DOMAIN q, q[i] \in DOMAIN says, v = says[q[i]],
             \A j \in DOMAIN q : j > i => q[j] \notin DOMAIN says
      PROVE  /\ q[1] \in DOMAIN says => Heard(t, says, says[q[1]], v)
             /\ q[1] \notin DOMAIN says => Heard(t, says, before, v)
  <2>1. CASE i = 1
    <3>1. \A j \in DOMAIN t : t[j] \notin DOMAIN says
      BY <1>1, <1>2, <1>4, <2>1
    <3> QED
      BY <1>4, <2>1, <3>1 DEF Heard
  <2>2. CASE i # 1
    <3>1. i - 1 \in DOMAIN t /\ t[i - 1] = q[i]
      BY <1>1, <2>2
    <3>2. \A j \in DOMAIN t : j > i - 1 => t[j] \notin DOMAIN says
      BY <1>1, <1>2, <1>4
    <3> QED
      BY <1>4, <3>1, <3>2 DEF Heard
  <2> QED
    BY <2>1, <2>2
<1> QED
  BY <1>1, <1>3, <1>4 DEF Heard, t

\* News overrule what was known before; without any it stands.
LEMMA HeardAnyway ==
  ASSUME NEW q, NEW says, NEW before, NEW v, Heard(q, says, before, v)
  PROVE  \/ \A u : Heard(q, says, u, v)
         \/ v = before /\ \A u : Heard(q, says, u, u)
BY DEF Heard

LEMMA ToldAll ==
  ASSUME NEW says, NEW said, NEW before, NEW v,
         Told(<<>>, <<>>, <<>>, says, said, before, v)
  PROVE  v = before
BY HeardEmpty DEF Told

LEMMA ToldNothing ==
  ASSUME NEW says, NEW said, NEW before
  PROVE  Told(<<>>, <<>>, <<>>, says, said, before, before)
BY HeardNothing DEF Told

\* The writer speaks, with nothing left to send.
LEMMA ToldSaid ==
  ASSUME NEW e, NEW q, NEW x, NEW says, NEW said, NEW before, NEW v, NEW w,
         Told(e, q, <<>>, says, said, before, v), Heard(x, said, v, w)
  PROVE  Told(e, q, x, says, said, before, w)
BY HeardEmpty DEF Told

\* A word goes into the first channel as the message that says the same.
LEMMA ToldSent ==
  ASSUME NEW W, NEW S, NEW e, NEW q \in Seq(S), NEW x \in Seq(W), x # <<>>, NEW m \in S,
         NEW says, NEW said, NEW before, NEW v, Told(e, q, x, says, said, before, v),
         m \in DOMAIN says <=> Head(x) \in DOMAIN said,
         m \in DOMAIN says => says[m] = said[Head(x)]
  PROVE  Told(e, Append(q, m), Tail(x), says, said, before, v)
<1>1. PICK v1, v2 : Heard(e, says, before, v1) /\ Heard(q, says, v1, v2) /\ Heard(x, said, v2, v)
  BY DEF Told
<1>2. CASE m \in DOMAIN says
  <2>1. Heard(Append(q, m), says, v1, says[m]) /\ Heard(Tail(x), said, says[m], v)
    BY <1>1, <1>2, HeardAppended, HeardTaken
  <2> QED
    BY <1>1, <2>1 DEF Told
<1>3. CASE m \notin DOMAIN says
  <2>1. Heard(Append(q, m), says, v1, v2) /\ Heard(Tail(x), said, v2, v)
    BY <1>1, <1>3, HeardAppended, HeardTaken
  <2> QED
    BY <1>1, <2>1 DEF Told
<1> QED
  BY <1>2, <1>3

\* A word that is sent to nobody is no news.
LEMMA ToldDropped ==
  ASSUME NEW W, NEW e, NEW q, NEW x \in Seq(W), x # <<>>,
         NEW says, NEW said, NEW before, NEW v, Told(e, q, x, says, said, before, v),
         Head(x) \notin DOMAIN said
  PROVE  Told(e, q, Tail(x), says, said, before, v)
BY HeardTaken DEF Told

\* A message of another writer overrules what was said before it.
LEMMA ToldBetween ==
  ASSUME NEW S, NEW e, NEW q \in Seq(S), NEW x, NEW m \in S,
         NEW says, NEW said, NEW before, NEW v, Told(e, q, x, says, said, before, v)
  PROVE  \/ Told(e, Append(q, m), x, says, said, before, v)
         \/ m \in DOMAIN says /\ Told(e, Append(q, m), x, says, said, before, says[m])
<1>1. PICK v1, v2 : Heard(e, says, before, v1) /\ Heard(q, says, v1, v2) /\ Heard(x, said, v2, v)
  BY DEF Told
<1>2. CASE m \in DOMAIN says
  <2>1. Heard(Append(q, m), says, v1, says[m])
    BY <1>1, <1>2, HeardAppended
  <2>2. Heard(x, said, says[m], v) \/ Heard(x, said, says[m], says[m])
    BY <1>1, HeardAnyway
  <2> QED
    BY <1>1, <1>2, <2>1, <2>2 DEF Told
<1>3. CASE m \notin DOMAIN says
  <2>1. Heard(Append(q, m), says, v1, v2)
    BY <1>1, <1>3, HeardAppended
  <2> QED
    BY <1>1, <2>1 DEF Told
<1> QED
  BY <1>2, <1>3

LEMMA ToldRelayed ==
  ASSUME NEW S, NEW e \in Seq(S), NEW q \in Seq(S), q # <<>>, NEW x,
         NEW says, NEW said, NEW before, NEW v, Told(e, q, x, says, said, before, v)
  PROVE  Told(Append(e, Head(q)), Tail(q), x, says, said, before, v)
<1>1. PICK v1, v2 : Heard(e, says, before, v1) /\ Heard(q, says, v1, v2) /\ Heard(x, said, v2, v)
  BY DEF Told
<1>2. Head(q) \in S
  BY HeadTailProperties
<1>3. CASE Head(q) \in DOMAIN says
  <2>1. /\ Heard(Append(e, Head(q)), says, before, says[Head(q)])
        /\ Heard(Tail(q), says, says[Head(q)], v2)
    BY <1>1, <1>2, <1>3, HeardAppended, HeardTaken
  <2> QED
    BY <1>1, <2>1 DEF Told
<1>4. CASE Head(q) \notin DOMAIN says
  <2>1. Heard(Append(e, Head(q)), says, before, v1) /\ Heard(Tail(q), says, v1, v2)
    BY <1>1, <1>2, <1>4, HeardAppended, HeardTaken
  <2> QED
    BY <1>1, <2>1 DEF Told
<1> QED
  BY <1>3, <1>4

\* The reader takes the first message for what it says.
LEMMA ToldHandled ==
  ASSUME NEW S, NEW e \in Seq(S), e # <<>>, NEW q, NEW x,
         NEW says, NEW said, NEW before, NEW v, Told(e, q, x, says, said, before, v),
         NEW u, u = IF Head(e) \in DOMAIN says THEN says[Head(e)] ELSE before
  PROVE  Told(Tail(e), q, x, says, said, u, v)
BY HeardTaken DEF Told

-----------------------------------------------------------------------------
\* What a step of the executor says.

Openings == {<<"OpenPosition">>, <<"SwapFill", "OpenPosition">>}
Closings == {<<"NoPosition">>, <<"Trade", "NoPosition">>, <<"OpenFailed", "NoPosition">>,
             <<"NoPosition", "OpenFailed", "NoPosition">>, <<"SwapFill", "NoPosition">>,
             <<"SwapFill", "Trade", "NoPosition">>}

\* Nothing, that it pauses or resumes, or last whether it holds a position.
ExecSays ==
  /\ execOut = <<>> /\ mode' \in Cycle!Modes /\ execPaused' \in BOOLEAN
  /\ \/ execOut' = <<>> /\ Held' = Held /\ execPaused' = execPaused
     \/ /\ execOut' = IF execPaused' THEN <<"Paused">> ELSE <<"Resumed">>
        /\ Held' = Held
     \/ execOut' \in Openings /\ Held' = "some" /\ execPaused' = execPaused
     \/ execOut' \in Closings /\ Held' = "none" /\ execPaused' = execPaused

LEMMA Joined ==
  ASSUME NEW S, NEW a \in S, NEW b \in S, NEW c \in S
  PROVE  <<a>> \o <<b>> = <<a, b>> /\ <<a>> \o <<b, c>> = <<a, b, c>>
<1>1. /\ <<a>> \in Seq(S) /\ <<b>> \in Seq(S) /\ <<b, c>> \in Seq(S)
      /\ <<a, b>> \in Seq(S) /\ <<a, b, c>> \in Seq(S)
  OBVIOUS
<1> DEFINE u == <<a>> \o <<b>>
           w == <<a>> \o <<b, c>>
<1>2. u \in Seq(S) /\ Len(u) = 2 /\ u[1] = a /\ u[2] = b
  BY <1>1, ConcatProperties
<1>3. w \in Seq(S) /\ Len(w) = 3 /\ w[1] = a /\ w[2] = b /\ w[3] = c
  BY <1>1, ConcatProperties
<1> HIDE DEF u, w
<1>4. u = <<a, b>>
  <2>1. Len(<<a, b>>) = 2 /\ \A i \in 1..2 : u[i] = <<a, b>>[i]
    BY <1>2
  <2> QED
    BY <1>1, <1>2, <2>1, SeqEqual
<1>5. w = <<a, b, c>>
  <2>1. Len(<<a, b, c>>) = 3 /\ \A i \in 1..3 : w[i] = <<a, b, c>>[i]
    BY <1>3
  <2> QED
    BY <1>1, <1>3, <2>1, SeqEqual
<1> QED
  BY <1>4, <1>5 DEF u, w

\* The words that end a trade, put together.
LEMMA Sayings ==
  /\ Cycle!Fill \o Cycle!Opened = <<"SwapFill", "OpenPosition">>
  /\ Cycle!Fill \o Cycle!Cleared = <<"SwapFill", "NoPosition">>
  /\ Cycle!Fill \o Cycle!Traded = <<"SwapFill", "Trade", "NoPosition">>
  /\ Cycle!Cleared \o Cycle!Failed = <<"NoPosition", "OpenFailed", "NoPosition">>
<1> DEFINE W == {"SwapFill", "OpenPosition", "NoPosition", "Trade", "OpenFailed"}
<1>1. \A a, b, c \in W : <<a>> \o <<b>> = <<a, b>> /\ <<a>> \o <<b, c>> = <<a, b, c>>
  <2> HIDE DEF W
  <2> QED
    BY Joined
<1> QED
  BY <1>1 DEF Cycle!Fill, Cycle!Opened, Cycle!Cleared, Cycle!Traded, Cycle!Failed

LEMMA SayingTypes ==
  /\ Openings \subseteq Seq(ExecNews) /\ Closings \subseteq Seq(ExecNews)
  /\ <<>> \in Seq(ExecNews) /\ <<"Paused">> \in Seq(ExecNews) /\ <<"Resumed">> \in Seq(ExecNews)
<1>1. \A a, b, c \in ExecNews : /\ <<a>> \in Seq(ExecNews) /\ <<a, b>> \in Seq(ExecNews)
                                /\ <<a, b, c>> \in Seq(ExecNews)
  OBVIOUS
<1>2. {"OpenPosition", "NoPosition", "OpenFailed", "SwapFill", "Trade", "Paused", "Resumed"}
        \subseteq ExecNews
  BY DEF ExecNews
<1> QED
  BY <1>1, <1>2, EmptySeq DEF Openings, Closings

LEMMA CycleSays ==
  ASSUME MarketTypes, execOut = <<>>, execPaused' = execPaused,
         \/ Cycle!Start \/ Cycle!Refuse \/ Cycle!Buy \/ Cycle!Miss \/ Cycle!GiveUp
         \/ Cycle!Sell \/ Cycle!Keep \/ Cycle!Leave \/ Cycle!Quiet
  PROVE  ExecSays
<1> USE DEF ExecSays, Held, Holding, Cycle!Holding, Cycle!Step, Cycle!Modes, MarketTypes
<1>1. CASE Cycle!Start \/ Cycle!Sell \/ Cycle!Quiet
  BY <1>1 DEF Cycle!Start, Cycle!Sell, Cycle!Quiet
<1>2. CASE Cycle!Buy \/ Cycle!Keep
  BY Sayings, <1>2 DEF Cycle!Buy, Cycle!Keep, Cycle!Opened, Openings
<1>3. CASE Cycle!Refuse \/ Cycle!Miss \/ Cycle!GiveUp \/ Cycle!Leave
  BY Sayings, <1>3 DEF Cycle!Refuse, Cycle!Miss, Cycle!GiveUp, Cycle!Leave,
                    Cycle!Cleared, Cycle!Failed, Cycle!Traded, Closings
<1> QED
  BY <1>1, <1>2, <1>3

LEMMA PausesSays ==
  ASSUME MarketTypes, execOut = <<>>, NEW p \in BOOLEAN, Pauses(p)
  PROVE  ExecSays
BY DEF Pauses, ExecSays, Held, Holding, Cycle!Holding, Cycle!Step, Cycle!Modes, MarketTypes

LEMMA TakesSays ==
  ASSUME MarketTypes, NEW op, Takes(op)
  PROVE  ExecSays
<1>1. execOut = <<>>
  BY DEF Takes
<1>2. \/ /\ execPaused' = execPaused
         /\ Cycle!Start \/ Cycle!Refuse \/ StartsClosing
      \/ Pauses(TRUE) \/ Pauses(FALSE)
      \/ UNCHANGED execVars
  BY DEF Takes
<1>3. CASE execPaused' = execPaused /\ (Cycle!Start \/ Cycle!Refuse \/ StartsClosing)
  BY <1>1, <1>3, CycleSays DEF StartsClosing
<1>4. CASE Pauses(TRUE) \/ Pauses(FALSE)
  BY <1>1, <1>4, PausesSays
<1>5. CASE UNCHANGED execVars
  BY <1>1, <1>5 DEF execVars, ExecSays, Held, Holding, Cycle!Holding, MarketTypes
<1> QED
  BY <1>2, <1>3, <1>4, <1>5

\* The steps of the executor, whoever it meets.
ExecActs == EngineOrders \/ BotControls \/ BuyDecided \/ PollsOn

LEMMA ExecActsSay ==
  ASSUME MarketTypes, ExecActs
  PROVE  ExecSays /\ UNCHANGED <<inbox, openPos, margin, marketQ, events, session, phase>>
<1>1. CASE EngineOrders
  <2>1. ASSUME NEW s, Finish(s) PROVE UNCHANGED <<inbox, openPos, margin>>
    BY <2>1 DEF Finish
  <2> QED
    BY <1>1, <2>1, TakesSays DEF EngineOrders, Forced, Sent, botVars
<1>2. CASE BotControls
  BY <1>2, TakesSays DEF BotControls, engineVars
<1>3. CASE BuyDecided \/ PollsOn
  BY <1>3, CycleSays DEF BuyDecided, PollsOn, engineVars, botVars
<1> QED
  BY <1>1, <1>2, <1>3 DEF ExecActs

-----------------------------------------------------------------------------
\* What travels has its type.

\* A message of the executor is its news with the position, if it opens one.
LEMMA ExecMessage ==
  ASSUME MarketTypes, ExecSends
  PROVE  /\ Head(execOut) \in ExecNews /\ execOut' = Tail(execOut) /\ execOut' \in Seq(ExecNews)
         /\ execOut # <<>>
         /\ \/ Head(execOut) = "SwapFill" /\ marketQ' = marketQ
            \/ \E m \in Messages : /\ m.type = Head(execOut) /\ marketQ' = Append(marketQ, m)
                                   /\ m.type = "OpenPosition" => m.arg \in Positions
                                   /\ m.type # "OpenPosition" => m.arg = None
         /\ UNCHANGED <<inbox, openPos, margin, mode, execPaused, events, session, phase>>
<1> DEFINE h == Head(execOut)
<1>1. h \in ExecNews /\ execOut' = Tail(execOut) /\ execOut' \in Seq(ExecNews) /\ execOut # <<>>
  BY HeadTailProperties DEF MarketTypes, ExecSends
<1>2. CASE h = "SwapFill"
  BY <1>1, <1>2 DEF ExecSends, engineVars, botVars
<1>3. CASE h # "SwapFill"
  <2>1. PICK p \in IF h = "OpenPosition" THEN Positions ELSE {None} :
               marketQ' = Append(marketQ, Message(h, p))
    BY <1>3 DEF ExecSends
  <2>2. Message(h, p) \in Messages
    BY <1>1, <1>3, <2>1 DEF Message, Messages
  <2>3. Message(h, p).type = h /\ Message(h, p).arg = p
    BY DEF Message
  <2> QED
    BY <1>1, <2>1, <2>2, <2>3 DEF ExecSends, engineVars, botVars
<1> QED
  BY <1>2, <1>3

LEMMA EngineMessage ==
  ASSUME MarketTypes, EngineSends
  PROVE  /\ Message(Head(outbox), None) \in Messages /\ Head(outbox) \in Kind
         /\ marketQ' = Append(marketQ, Message(Head(outbox), None))
         /\ outbox' = Tail(outbox) /\ outbox' \in Seq(Kind)
         /\ UNCHANGED <<inbox, openPos, margin, execOut, mode, execPaused, events, session, phase,
                        state, begun, pc>>
<1>1. Head(outbox) \in Kind /\ Tail(outbox) \in Seq(Kind)
  BY HeadTailProperties DEF MarketTypes, EngineTypes, EngineSends
<1> QED
  BY <1>1 DEF EngineSends, execVars, botVars, Message, Messages

\* The relay passes on one message, to the engine if it is news of the position.
LEMMA RelayedMessage ==
  ASSUME MarketTypes, Relay
  PROVE  /\ marketQ # <<>> /\ Head(marketQ) \in Messages /\ marketQ' = Tail(marketQ)
         /\ marketQ' \in Seq(Messages)
         /\ events' = Append(events, Head(marketQ))
         /\ \/ /\ Head(marketQ).type \notin {"OpenPosition", "NoPosition", "OpenFailed"}
               /\ inbox' = inbox
            \/ /\ Head(marketQ).type \in {"OpenPosition", "NoPosition", "OpenFailed"}
               /\ \E c \in PositionNews : inbox' = Append(inbox, c) /\ c.arg = Head(marketQ).arg
         /\ UNCHANGED <<openPos, margin, outbox, execOut, mode, execPaused, session, phase,
                        state, begun, pc>>
<1> DEFINE m == Head(marketQ)
<1>1. marketQ # <<>> /\ m \in Messages /\ marketQ' = Tail(marketQ) /\ marketQ' \in Seq(Messages)
  BY HeadTailProperties DEF MarketTypes, Relay
<1>2. m.type \in ExecNews \cup Kind /\ m.arg \in Positions \cup {None}
      /\ (m.type # "OpenPosition" => m.arg = None)
  BY <1>1 DEF Messages, ExecNews
<1>3. ASSUME NEW c \in Commands PROVE inbox \o <<c>> = Append(inbox, c)
  BY AppendIsConcat DEF MarketTypes
<1>4. inbox \o <<>> = inbox
  BY ConcatEmptySeq DEF MarketTypes
<1>5. /\ [type |-> "Position", arg |-> m.arg] \in PositionNews
      /\ Cmd("OpenFailed") \in PositionNews /\ Cmd("OpenFailed").arg = None
  <2>1. [type |-> "Position", arg |-> m.arg] \in Inputs
    BY <1>2 DEF Inputs
  <2>2. Cmd("OpenFailed") \in Inputs /\ Cmd("OpenFailed").type = "OpenFailed"
    BY DEF Inputs, Cmd
  <2> QED
    BY <2>1, <2>2 DEF PositionNews, Commands, Cmd
<1>6. PositionNews \subseteq Commands
  BY DEF PositionNews
<1>7. CASE m.type \in {"OpenPosition", "NoPosition"}
  BY <1>1, <1>3, <1>5, <1>6, <1>7 DEF Relay, EngineNews, execVars, botVars
<1>8. CASE m.type = "OpenFailed"
  BY <1>1, <1>2, <1>3, <1>5, <1>6, <1>8 DEF Relay, EngineNews, execVars, botVars
<1>9. CASE m.type \notin {"OpenPosition", "NoPosition", "OpenFailed"}
  BY <1>1, <1>4, <1>9 DEF Relay, EngineNews, execVars, botVars
<1> QED
  BY <1>7, <1>8, <1>9

\* A command in the inbox of a market is none that changes the strategy or stops.
LEMMA EngineHearsNews ==
  ASSUME MarketTypes, EngineAlone
  PROVE  /\ UNCHANGED <<execOut, mode, told, execPaused, retried, marketQ, events, session, plan, phase>>
         /\ \/ Strat /\ UNCHANGED <<inbox, openPos, margin>>
            \/ RecvPrice \/ RecvParams \/ RecvOpenFailed
<1>1. \A T : Take(T) => Head(inbox).type \in {"Price", "Margin", "Position", "OpenFailed"} \cap T
  BY HeadTailProperties DEF MarketTypes, Take, Commands
<1>2. ~RecvIndicators /\ ~RecvToggle /\ ~RecvStop /\ ~RecvUpdateStrategy
  BY <1>1 DEF RecvIndicators, RecvToggle, RecvStop, RecvUpdateStrategy
<1>3. \A x : Finish(x) => UNCHANGED <<inbox, openPos, margin>>
  BY DEF Finish
<1>4. Strat => UNCHANGED <<inbox, openPos, margin>>
  BY <1>3 DEF Strat, StratQuiet, Answer, StratIgnored, StratArm, StratRejected, StratOrder,
                StratAbort, Send
<1> QED
  BY <1>2, <1>4 DEF EngineAlone, EngineStep, EngineHears, execVars, botVars

LEMMA SessionTypes ==
  ASSUME MarketTypes
  PROVE  /\ NoSession \in Sessions
         /\ \A m \in Margins : [NoSession EXCEPT !.margin = m] \in Sessions
         /\ \A m \in Margins : [session EXCEPT !.margin = m] \in Sessions
         /\ \A e \in Messages : Applied(e) \in Sessions /\ Applied(e).margin = session.margin
<1>1. NoSession \in Sessions
  BY DEF NoSession, Sessions, Kind
<1>2. \A x \in Sessions, m \in Margins : [x EXCEPT !.margin = m] \in Sessions
  BY DEF Sessions
<1>3. ASSUME NEW e \in Messages
      PROVE  Applied(e) \in Sessions /\ Applied(e).margin = session.margin
  <2>1. e.arg \in Positions \cup {None} /\ session \in Sessions
    BY DEF Messages, MarketTypes
  <2>2. /\ \A p \in Positions \cup {None} :
             [session EXCEPT !.pos = p] \in Sessions /\ [session EXCEPT !.pos = p].margin = session.margin
        /\ \A v \in Kind, p \in Positions \cup {None} :
             LET x == [session EXCEPT !.view = v, !.pos = p]
             IN  x \in Sessions /\ x.margin = session.margin
        /\ \A b \in BOOLEAN : /\ [session EXCEPT !.isPaused = b] \in Sessions
                             /\ [session EXCEPT !.isPaused = b].margin = session.margin
    BY <2>1 DEF Sessions
  <2>3. session.pos \in Positions \cup {None} /\ None \in Positions \cup {None} /\ "Idle" \in Kind
    BY <2>1 DEF Sessions, Kind
  <2>4. CASE e.type \in {"OpenPosition", "NoPosition"}
    <3>1. Applied(e) = [session EXCEPT !.pos = e.arg]
      BY <2>4 DEF Applied, Kind
    <3> QED
      BY <2>1, <2>2, <3>1
  <2>5. CASE e.type \in Kind
    <3>1. e.type \notin {"OpenPosition", "NoPosition"}
      BY <2>5 DEF Kind
    <3>2. CASE e.type = "Idle"
      BY <2>2, <2>3, <2>5, <3>1, <3>2 DEF Applied
    <3>3. CASE e.type # "Idle"
      BY <2>2, <2>3, <2>5, <3>1, <3>3 DEF Applied
    <3> QED
      BY <3>2, <3>3
  <2>6. CASE e.type \in {"OpenFailed", "Trade"}
    BY <2>1, <2>2, <2>3, <2>6 DEF Applied, Kind
  <2>7. CASE e.type \in {"Paused", "Resumed"}
    BY <2>1, <2>2, <2>7 DEF Applied, Kind
  <2>8. CASE e.type \notin {"OpenPosition", "NoPosition", "OpenFailed", "Trade", "Paused",
                            "Resumed"} \cup Kind
    BY <2>1, <2>8 DEF Applied
  <2> QED
    BY <2>4, <2>5, <2>6, <2>7, <2>8
<1> QED
  BY <1>1, <1>2, <1>3 DEF MarketTypes

\* The steps of the bot that touch neither queue nor executor but the inbox.
BotActs == \/ \E m \in Margins : Adopt(m) \/ UpdateMargin(m)
           \/ UserControls \/ Abort

LEMMA MarginCommand ==
  ASSUME NEW m \in Margins
  PROVE  MarginCmd(m) \in Commands /\ MarginCmd(m).type = "Margin" /\ MarginCmd(m).arg = m
BY DEF MarginCmd, Commands, Inputs

\* What the handling of an event does to the session and the inbox.
LEMMA HandledMargin ==
  ASSUME MarketTypes, Handle
  PROVE  /\ phase = "running" /\ events # <<>> /\ Head(events) \in Messages
         /\ events' = Tail(events) /\ events' \in Seq(Messages)
         /\ \E m \in Margins :
              /\ session' = [Applied(Head(events)) EXCEPT !.margin = m]
              /\ \/ inbox' = inbox /\ m = session.margin
                 \/ inbox' = Append(inbox, MarginCmd(m))
<1>1. Head(events) \in Messages /\ Tail(events) \in Seq(Messages) /\ session.margin \in Margins
  BY HeadTailProperties DEF Handle, AtSelect, MarketTypes
<1> QED
  BY <1>1 DEF Handle, AtSelect, ToEngine

LEMMA BotTypes ==
  ASSUME MarketTypes, BotActs \/ Handle
  PROVE  /\ inbox' \in Seq(Commands) /\ events' \in Seq(Messages) /\ session' \in Sessions
         /\ plan' \in Seq({"Pause", "Resume", "ForceClose", "Kill"})
         /\ phase' \in {"running", "removing", "gone"}
         /\ phase' = "running" => session'.margin \in Margins
         /\ phase' = "gone" => session' = NoSession
         /\ UNCHANGED <<state, openPos, margin, paused, pc, begun, want, outbox,
                        execVars, marketQ>>
<1> USE DEF MarketTypes
<1> DEFINE Words == {"Pause", "Resume", "ForceClose", "Kill"}
<1>1. <<>> \in Seq(Words) /\ <<"Pause">> \in Seq(Words) /\ <<"Resume">> \in Seq(Words)
      /\ <<"Pause", "ForceClose", "Kill">> \in Seq(Words)
  OBVIOUS
<1>2. ASSUME NEW m \in Margins, Adopt(m)
      PROVE  inbox' \in Seq(Commands) /\ session' \in Sessions /\ session'.margin = m
  BY <1>2, MarginCommand, SessionTypes DEF Adopt, ToEngine, Sessions
<1>3. ASSUME NEW m \in Margins, UpdateMargin(m)
      PROVE  inbox' \in Seq(Commands) /\ session' \in Sessions /\ session'.margin = m
  BY <1>3, MarginCommand, SessionTypes DEF UpdateMargin, ToEngine, Sessions
<1>4. CASE \E m \in Margins : Adopt(m) \/ UpdateMargin(m)
  BY <1>2, <1>3, <1>4 DEF Adopt, UpdateMargin, BotOnly, AtSelect
<1>5. CASE UserControls
  BY <1>1, <1>5 DEF UserControls, Control, AtSelect, engineVars, execVars
<1>6. CASE Abort
  BY <1>1, <1>6, SessionTypes DEF Abort, engineVars, execVars
<1>7. CASE Handle
  <2>1. PICK m \in Margins :
          /\ session' = [Applied(Head(events)) EXCEPT !.margin = m]
          /\ inbox' = inbox \/ inbox' = Append(inbox, MarginCmd(m))
    BY <1>7, HandledMargin
  <2>2. Head(events) \in Messages /\ events' \in Seq(Messages)
    BY <1>7, HandledMargin
  <2>3. session' \in Sessions /\ session'.margin = m
    BY <2>1, <2>2, SessionTypes DEF Sessions
  <2>4. inbox' \in Seq(Commands)
    <3>1. Append(inbox, MarginCmd(m)) \in Seq(Commands)
      BY MarginCommand, AppendProperties
    <3> QED
      BY <2>1, <3>1
  <2> QED
    BY <1>7, <2>2, <2>3, <2>4 DEF Handle, BotOnly, AtSelect
<1> QED
  BY <1>4, <1>5, <1>6, <1>7 DEF BotActs

LEMMA MarketTypesHold == Spec => []MarketTypes
<1>1. Commands \subseteq Inputs
  BY DEF Commands
<1>2. Init => MarketTypes
  <2> SUFFICES ASSUME Init PROVE MarketTypes
    OBVIOUS
  <2>1. EngineTypes
    BY IdleIsState, EmptySeq DEF Init, EngineInit, EngineTypes, NoOrder, Order
  <2>2. NoSession \in Sessions
    BY DEF NoSession, Sessions, Kind
  <2> QED
    BY <2>1, <2>2, EmptySeq DEF Init, EngineInit, MarketTypes, Cycle!Modes
<1>3. MarketTypes /\ [Next]_vars => MarketTypes'
  <2> SUFFICES ASSUME MarketTypes, [Next]_vars PROVE MarketTypes'
    OBVIOUS
  <2>1. CASE EngineAlone
    <3>1. EngineTypes'
      BY <2>1, EngineHearsNews, StratAnswers, QuietTypes, AnswerTypes, HearsTypes
      DEF MarketTypes, EngineHears
    <3>2. inbox' \in Seq(Commands) /\ pc' # "stopped"
      <4>1. CASE Strat /\ UNCHANGED inbox
        <5>1. ASSUME NEW x, Finish(x) PROVE pc' # "stopped"
          BY <5>1 DEF Finish, Return
        <5> QED
          BY <4>1, <5>1 DEF MarketTypes, Strat, StratQuiet, Answer, StratIgnored, StratArm,
                            StratRejected, StratOrder, StratAbort, Send, Return
      <4>2. CASE RecvPrice \/ RecvParams \/ RecvOpenFailed
        <5>1. inbox # <<>> /\ inbox' = Tail(inbox)
          BY <4>2 DEF RecvPrice, RecvParams, RecvOpenFailed, Take
        <5> QED
          BY <4>2, <5>1, HeadTailProperties
          DEF MarketTypes, RecvPrice, RecvParams, RecvOpenFailed, Take
      <4> QED
        BY <2>1, <4>1, <4>2, EngineHearsNews
    <3> QED
      BY <2>1, <3>1, <3>2, EngineHearsNews DEF MarketTypes
  <2>2. CASE ExecActs
    <3>1. ExecSays /\ UNCHANGED <<inbox, marketQ, events, session, phase>>
      BY <2>2, ExecActsSay
    <3>2. execOut' \in Seq(ExecNews)
      BY <3>1, SayingTypes DEF ExecSays
    <3>3. EngineTypes' /\ pc' # "stopped"
      <4>1. CASE UNCHANGED engineVars
        BY <4>1 DEF engineVars, MarketTypes, EngineTypes
      <4>2. CASE Forced \/ Sent
        BY <4>2, SentTypes DEF Forced, Sent, Finish, Return, MarketTypes
      <4> QED
        BY <2>2, <4>1, <4>2 DEF ExecActs, EngineOrders, BotControls, BuyDecided, PollsOn
    <3>4. plan' \in Seq({"Pause", "Resume", "ForceClose", "Kill"})
      BY <2>2, HeadTailProperties
      DEF ExecActs, EngineOrders, BotControls, BuyDecided, PollsOn, botVars, MarketTypes
    <3> QED
      BY <3>1, <3>2, <3>3, <3>4 DEF ExecSays, MarketTypes
  <2>3. CASE ExecSends
    <3>1. marketQ' = marketQ \/ \E m \in Messages : marketQ' = Append(marketQ, m)
      BY <2>3, ExecMessage
    <3>2. marketQ' \in Seq(Messages)
      <4>1. CASE marketQ' = marketQ
        BY <4>1 DEF MarketTypes
      <4>2. ASSUME NEW m \in Messages, marketQ' = Append(marketQ, m) PROVE marketQ' \in Seq(Messages)
        BY <4>2, AppendProperties DEF MarketTypes
      <4> QED
        BY <3>1, <4>1, <4>2
    <3> QED
      BY <2>3, <3>2, ExecMessage DEF ExecSends, engineVars, botVars, MarketTypes, EngineTypes
  <2>4. CASE EngineSends
    BY <2>4, EngineMessage DEF EngineSends, execVars, botVars, MarketTypes, EngineTypes
  <2>5. CASE Relay
    <3>1. inbox' \in Seq(Commands) /\ events' \in Seq(Messages) /\ marketQ' \in Seq(Messages)
      <4>1. ASSUME NEW c \in Commands PROVE Append(inbox, c) \in Seq(Commands)
        BY AppendProperties DEF MarketTypes
      <4>2. ASSUME NEW m \in Messages PROVE Append(events, m) \in Seq(Messages)
        BY AppendProperties DEF MarketTypes
      <4>3. inbox' = inbox \/ \E c \in Commands : inbox' = Append(inbox, c)
        BY <2>5, RelayedMessage DEF PositionNews
      <4>4. inbox' \in Seq(Commands)
        BY <4>1, <4>3 DEF MarketTypes
      <4> QED
        BY <2>5, <4>2, <4>4, RelayedMessage
    <3>2. inbox' \in Seq(Inputs)
      BY <1>1, <3>1, SeqMonotonic
    <3> QED
      BY <2>5, <3>1, <3>2 DEF Relay, execVars, botVars, MarketTypes, EngineTypes
  <2>6. ASSUME NEW j \in Jumps, Candle(j) PROVE MarketTypes'
    <3>1. [type |-> "Price", arg |-> j] \in Commands
      BY DEF Commands, Inputs
    <3>2. inbox' \in Seq(Commands)
      BY <2>6, <3>1 DEF Candle, MarketTypes
    <3>3. inbox' \in Seq(Inputs)
      BY <1>1, <3>2, SeqMonotonic
    <3> QED
      BY <2>6, <3>2, <3>3 DEF Candle, execVars, botVars, MarketTypes, EngineTypes
  <2>7. CASE BotActs \/ Handle
    <3>1. inbox' \in Seq(Inputs)
      BY <1>1, <2>7, BotTypes, SeqMonotonic
    <3> QED
      BY <2>7, <3>1, BotTypes DEF execVars, MarketTypes, EngineTypes
  <2>8. CASE UNCHANGED vars
    BY <2>8 DEF vars, engineVars, execVars, botVars, MarketTypes, EngineTypes
  <2> QED
    BY <2>1, <2>2, <2>3, <2>4, <2>5, <2>6, <2>7, <2>8
    DEF Next, Tasks, Bot, Gone, ExecActs, BotActs
<1> QED
  BY <1>2, <1>3, PTL DEF Spec

\* Every variable of a market has its type.
THEOREM MarketTypeCorrect == Spec => []TypeOK
<1>1. MarketTypes => TypeOK
  <2> SUFFICES ASSUME MarketTypes PROVE TypeOK
    OBVIOUS
  <2>1. inbox \in Seq(Command)
    BY InputsTyped, SeqMonotonic DEF MarketTypes, EngineTypes
  <2> QED
    BY <2>1 DEF MarketTypes, EngineTypes, TypeOK, Sessions
<1> QED
  BY <1>1, MarketTypesHold, PTL

-----------------------------------------------------------------------------
\* News of the position on their way to the engine.

\* The last word counts.
LEMMA HeardLast ==
  ASSUME NEW S, NEW q \in Seq(S), q # <<>>, NEW says, NEW u, NEW a, a = q[Len(q)]
  PROVE  a \in DOMAIN says => Heard(q, says, u, says[a])
<1> SUFFICES ASSUME a \in DOMAIN says PROVE Heard(q, says, u, says[a])
  OBVIOUS
<1>1. DOMAIN q = 1..Len(q) /\ Len(q) \in DOMAIN q /\ \A j \in DOMAIN q : ~(j > Len(q))
  OBVIOUS
<1> QED
  BY <1>1 DEF Heard

LEMMA LastWords ==
  /\ \A q \in Openings : q \in Seq(ExecNews) /\ q # <<>> /\ q[Len(q)] = "OpenPosition"
  /\ \A q \in Closings : q \in Seq(ExecNews) /\ q # <<>> /\ q[Len(q)] = "NoPosition"
<1>1. \A a, b, c : /\ <<a>> # <<>> /\ <<a>>[Len(<<a>>)] = a
                  /\ <<a, b>> # <<>> /\ <<a, b>>[Len(<<a, b>>)] = b
                  /\ <<a, b, c>> # <<>> /\ <<a, b, c>>[Len(<<a, b, c>>)] = c
  OBVIOUS
<1> QED
  BY <1>1, SayingTypes DEF Openings, Closings

\* What is not news changes nothing.
LEMMA HeardOther ==
  ASSUME NEW says, NEW u, NEW a, a \notin DOMAIN says
  PROVE  Heard(<<a>>, says, u, u)
BY DEF Heard

LEMMA HeldNews ==
  /\ \A c \in Commands : /\ c \in DOMAIN HeldByInbox <=> c.type \in {"Position", "OpenFailed"}
                         /\ c \in DOMAIN HeldByInbox => HeldByInbox[c] = Status(c.arg)
  /\ \A m \in Messages : /\ m \in DOMAIN HeldByQueue
                              <=> m.type \in {"OpenPosition", "NoPosition", "OpenFailed"}
                         /\ m \in DOMAIN HeldByQueue => HeldByQueue[m] = Status(m.arg)
  /\ DOMAIN HeldByExec = {"OpenPosition", "NoPosition", "OpenFailed"}
  /\ HeldByExec["OpenPosition"] = "some" /\ HeldByExec["NoPosition"] = "none"
  /\ HeldByExec["OpenFailed"] = "none"
BY DEF HeldByInbox, HeldByQueue, HeldByExec, PositionNews

LEMMA StatusIs ==
  Status(None) = "none" /\ \A p \in Positions : Status(p) = "some"
BY EngineAssumption DEF Status

\* What the executor says is what it holds.
LEMMA ExecHeld ==
  ASSUME MarketTypes, ExecSays
  PROVE  Heard(execOut', HeldByExec, Held, Held')
<1>1. CASE execOut' = <<>> /\ Held' = Held
  BY <1>1, HeardNothing
<1>2. CASE execOut' \in {<<"Paused">>, <<"Resumed">>} /\ Held' = Held
  BY <1>2, HeardOther, HeldNews
<1>3. CASE execOut' \in Openings /\ Held' = "some"
  <2>1. Heard(execOut', HeldByExec, Held, HeldByExec["OpenPosition"])
    BY <1>3, LastWords, HeardLast, HeldNews
  <2> QED
    BY <1>3, <2>1, HeldNews
<1>4. CASE execOut' \in Closings /\ Held' = "none"
  <2>1. Heard(execOut', HeldByExec, Held, HeldByExec["NoPosition"])
    BY <1>4, LastWords, HeardLast, HeldNews
  <2> QED
    BY <1>4, <2>1, HeldNews
<1> QED
  BY <1>1, <1>2, <1>3, <1>4 DEF ExecSays

LEMMA KnowsNext ==
  ASSUME MarketTypes, KnowsInv, [Next]_vars
  PROVE  KnowsInv'
<1> USE HeldNews, StatusIs
<1>0. PICK v1, v2 : /\ Heard(inbox, HeldByInbox, Status(openPos), v1)
                    /\ Heard(marketQ, HeldByQueue, v1, v2)
                    /\ Heard(execOut, HeldByExec, v2, Held)
  BY DEF KnowsInv
<1>1. ASSUME UNCHANGED <<openPos, inbox, marketQ, execOut, mode>> PROVE KnowsInv'
  BY <1>0, <1>1 DEF KnowsInv, Held, Holding, Cycle!Holding, Status
\* It is enough to follow what the inbox tells, and what the channel tells.
<1>2. ASSUME Heard(inbox', HeldByInbox, Status(openPos'), v1),
             UNCHANGED <<marketQ, execOut, mode>>
      PROVE  KnowsInv'
  BY <1>0, <1>2 DEF KnowsInv, Held, Holding, Cycle!Holding, Status
<1>3. CASE EngineAlone
  <2> DEFINE c == Head(inbox)
  <2>1. UNCHANGED <<marketQ, execOut, mode>>
    BY <1>3, EngineHearsNews
  <2>2. CASE UNCHANGED <<inbox, openPos>>
    BY <1>1, <2>1, <2>2
  <2>3. CASE RecvPrice \/ RecvParams \/ RecvOpenFailed
    <3>1. c \in Commands /\ inbox # <<>> /\ inbox' = Tail(inbox) /\ inbox \in Seq(Commands)
      BY <2>3, HeadTailProperties DEF MarketTypes, RecvPrice, RecvParams, RecvOpenFailed, Take
    <3>2. CASE c.type \in {"Price", "Margin"} /\ openPos' = openPos
      BY <1>0, <1>2, <2>1, <3>1, <3>2, HeardTaken
    <3>3. CASE c.type \in {"Position", "OpenFailed"} /\ openPos' = c.arg
      BY <1>0, <1>2, <2>1, <3>1, <3>3, HeardTaken
    <3>4. c.type = "OpenFailed" => c.arg = None
      BY <3>1 DEF Commands, Inputs, Cmd
    <3> QED
      BY <2>3, <3>2, <3>3, <3>4 DEF RecvPrice, RecvParams, RecvOpenFailed, Take
  <2> QED
    BY <1>3, <2>2, <2>3, EngineHearsNews
<1>4. CASE ExecActs
  <2>1. ExecSays /\ execOut = <<>> /\ UNCHANGED <<openPos, inbox, marketQ>>
    BY <1>4, ExecActsSay DEF ExecSays
  <2>2. v2 = Held
    BY <1>0, <2>1, HeardEmpty
  <2>3. Heard(execOut', HeldByExec, v2, Held')
    BY <2>1, <2>2, ExecHeld
  <2> QED
    BY <1>0, <2>1, <2>3 DEF KnowsInv
<1>5. CASE ExecSends
  <2> DEFINE h == Head(execOut)
  <2>1. /\ h \in ExecNews /\ execOut \in Seq(ExecNews) /\ execOut # <<>> /\ execOut' = Tail(execOut)
        /\ UNCHANGED <<inbox, openPos, mode>> /\ marketQ \in Seq(Messages)
    BY <1>5, ExecMessage DEF MarketTypes
  <2>2. CASE h = "SwapFill" /\ marketQ' = marketQ
    <3>1. Heard(execOut', HeldByExec, v2, Held)
      BY <1>0, <2>1, <2>2, HeardTaken
    <3> QED
      BY <1>0, <2>1, <2>2, <3>1 DEF KnowsInv, Held, Holding, Cycle!Holding
  <2>3. ASSUME NEW m \in Messages, m.type = h, marketQ' = Append(marketQ, m),
               m.type = "OpenPosition" => m.arg \in Positions,
               m.type # "OpenPosition" => m.arg = None
        PROVE  KnowsInv'
    <3>1. CASE h \in DOMAIN HeldByExec
      <4>1. HeldByQueue[m] = HeldByExec[h] /\ m \in DOMAIN HeldByQueue
        BY <2>3, <3>1
      <4>2. Heard(marketQ', HeldByQueue, v1, HeldByExec[h])
        BY <1>0, <2>1, <2>3, <4>1, HeardAppended
      <4>3. Heard(execOut', HeldByExec, HeldByExec[h], Held)
        BY <1>0, <2>1, <3>1, HeardTaken
      <4> QED
        BY <1>0, <2>1, <4>2, <4>3 DEF KnowsInv, Held, Holding, Cycle!Holding
    <3>2. CASE h \notin DOMAIN HeldByExec
      <4>1. m \notin DOMAIN HeldByQueue
        BY <2>3, <3>2
      <4>2. Heard(marketQ', HeldByQueue, v1, v2)
        BY <1>0, <2>1, <2>3, <4>1, HeardAppended
      <4>3. Heard(execOut', HeldByExec, v2, Held)
        BY <1>0, <2>1, <3>2, HeardTaken
      <4> QED
        BY <1>0, <2>1, <4>2, <4>3 DEF KnowsInv, Held, Holding, Cycle!Holding
    <3> QED
      BY <3>1, <3>2
  <2> QED
    BY <1>5, <2>2, <2>3, ExecMessage
<1>6. CASE EngineSends
  <2>1. PICK m \in Messages : m.type \in Kind /\ marketQ' = Append(marketQ, m)
    BY <1>6, EngineMessage DEF Message
  <2>2. m \notin DOMAIN HeldByQueue
    BY <2>1 DEF Kind
  <2>3. Heard(marketQ', HeldByQueue, v1, v2)
    BY <1>0, <2>1, <2>2, HeardAppended DEF MarketTypes
  <2> QED
    BY <1>0, <1>6, <2>3, EngineMessage DEF KnowsInv, Held, Holding, Cycle!Holding
<1>7. CASE Relay
  <2> DEFINE m == Head(marketQ)
  <2>1. /\ m \in Messages /\ marketQ \in Seq(Messages) /\ marketQ # <<>> /\ marketQ' = Tail(marketQ)
        /\ UNCHANGED <<openPos, execOut, mode>> /\ inbox \in Seq(Commands)
    BY <1>7, RelayedMessage DEF MarketTypes
  <2>2. CASE m.type \notin {"OpenPosition", "NoPosition", "OpenFailed"} /\ inbox' = inbox
    <3>1. Heard(marketQ', HeldByQueue, v1, v2)
      BY <1>0, <2>1, <2>2, HeardTaken
    <3> QED
      BY <1>0, <2>1, <2>2, <3>1 DEF KnowsInv, Held, Holding, Cycle!Holding
  <2>3. ASSUME m.type \in {"OpenPosition", "NoPosition", "OpenFailed"},
               NEW c \in PositionNews, inbox' = Append(inbox, c), c.arg = m.arg
        PROVE  KnowsInv'
    <3>1. c \in Commands /\ c \in DOMAIN HeldByInbox /\ HeldByInbox[c] = Status(m.arg)
      BY <2>3 DEF PositionNews
    <3>2. Heard(inbox', HeldByInbox, Status(openPos), Status(m.arg))
      BY <1>0, <2>1, <2>3, <3>1, HeardAppended
    <3>3. Heard(marketQ', HeldByQueue, Status(m.arg), v2)
      BY <1>0, <2>1, <2>3, HeardTaken
    <3> QED
      BY <1>0, <2>1, <3>2, <3>3 DEF KnowsInv, Held, Holding, Cycle!Holding
  <2> QED
    BY <1>7, <2>2, <2>3, RelayedMessage
\* Candles and margins are no news.
<1>8. ASSUME NEW c \in Commands, c.type \in {"Price", "Margin"}, inbox' \in {inbox, Append(inbox, c)},
             UNCHANGED <<openPos, marketQ, execOut, mode>>
      PROVE  KnowsInv'
  <2>1. Heard(inbox', HeldByInbox, Status(openPos'), v1)
    <3>1. c \notin DOMAIN HeldByInbox
      BY <1>8
    <3>2. Heard(Append(inbox, c), HeldByInbox, Status(openPos), v1)
      BY <1>0, <3>1, HeardAppended DEF MarketTypes
    <3> QED
      BY <1>0, <1>8, <3>2
  <2> QED
    BY <1>2, <1>8, <2>1
<1>9. CASE \E j \in Jumps : Candle(j)
  <2>1. \A j \in Jumps : [type |-> "Price", arg |-> j] \in Commands
    BY DEF Commands, Inputs
  <2> QED
    BY <1>8, <1>9, <2>1 DEF Candle, execVars
<1>10. CASE BotActs \/ Handle
  <2>1. UNCHANGED <<openPos, marketQ, execOut, mode>>
    BY <1>10, BotTypes DEF execVars
  <2>2. inbox' = inbox \/ \E m \in Margins : inbox' = Append(inbox, MarginCmd(m))
    BY <1>10, HandledMargin DEF BotActs, Adopt, UpdateMargin, UserControls, Control, Abort,
                                ToEngine, engineVars
  <2> QED
    BY <1>1, <1>8, <2>1, <2>2, MarginCommand
<1> QED
  BY <1>1, <1>3, <1>4, <1>5, <1>6, <1>7, <1>9, <1>10
  DEF Next, Tasks, Bot, Gone, ExecActs, BotActs, vars, engineVars, execVars

\* Once no news is on its way, the engine knows whether a position is held.
THEOREM EngineLearns == Spec => []EngineKnows
<1>1. Init => KnowsInv
  <2> SUFFICES ASSUME Init PROVE KnowsInv
    OBVIOUS
  <2>1. Status(openPos) = Held
    BY StatusIs DEF Init, EngineInit, Held, Holding, Cycle!Holding
  <2> QED
    BY <2>1, HeardNothing DEF Init, EngineInit, KnowsInv
<1>2. MarketTypes /\ KnowsInv => EngineKnows
  <2> SUFFICES ASSUME MarketTypes, KnowsInv, NoNews PROVE openPos # None <=> Holding
    BY DEF EngineKnows
  <2>1. PICK v1, v2 : /\ Heard(inbox, HeldByInbox, Status(openPos), v1)
                      /\ Heard(marketQ, HeldByQueue, v1, v2)
                      /\ Heard(execOut, HeldByExec, v2, Held)
    BY DEF KnowsInv
  <2>2. \A i \in DOMAIN inbox : inbox[i] \notin DOMAIN HeldByInbox
    BY DEF NoNews, HeldByInbox, PositionNews
  <2>3. v1 = Status(openPos) /\ v2 = v1 /\ Held = v2
    BY <2>1, <2>2, HeardNoNews, HeardEmpty DEF NoNews
  <2> QED
    BY <2>3 DEF Status, Held
<1> QED
  BY <1>1, <1>2, KnowsNext, MarketTypesHold, PTL DEF Spec

-----------------------------------------------------------------------------
\* The margin, from the session to the engine.

LEMMA MarginNews ==
  ASSUME NEW c \in Commands
  PROVE  /\ c \in DOMAIN MarginSays <=> c.type = "Margin"
         /\ c.type = "Margin" => MarginSays[c] = c.arg
BY DEF MarginSays, Commands, Inputs, Cmd

LEMMA MarginNext ==
  ASSUME MarketTypes, MarginInv, [Next]_vars
  PROVE  MarginInv'
<1> USE DEF MarginInv
<1>1. CASE UNCHANGED <<inbox, margin, session, phase>>
  BY <1>1
<1>2. ASSUME NEW c \in Commands, c.type # "Margin", inbox' = Append(inbox, c),
             UNCHANGED <<margin, session, phase>>
      PROVE  MarginInv'
  <2>1. c \notin DOMAIN MarginSays
    BY <1>2, MarginNews
  <2> QED
    BY <1>2, <2>1, HeardAppended DEF MarketTypes
<1>3. ASSUME NEW m \in Margins, inbox' = Append(inbox, MarginCmd(m)), session'.margin = m,
             UNCHANGED margin
      PROVE  MarginInv'
  <2>1. /\ MarginCmd(m) \in Commands /\ MarginCmd(m) \in DOMAIN MarginSays
        /\ MarginSays[MarginCmd(m)] = m
    BY MarginCommand, MarginNews
  <2>2. Heard(Append(inbox, MarginCmd(m)), MarginSays, margin, MarginSays[MarginCmd(m)])
    BY <2>1, HeardJustNow DEF MarketTypes
  <2> QED
    BY <1>3, <2>1, <2>2
<1>4. CASE EngineAlone
  <2> DEFINE c == Head(inbox)
  <2>1. UNCHANGED <<session, phase>>
    BY <1>4, EngineHearsNews
  <2>2. CASE UNCHANGED <<inbox, margin>>
    BY <1>1, <2>1, <2>2
  <2>3. CASE RecvPrice \/ RecvParams \/ RecvOpenFailed
    <3>1. c \in Commands /\ inbox # <<>> /\ inbox' = Tail(inbox) /\ inbox \in Seq(Commands)
      BY <2>3, HeadTailProperties DEF MarketTypes, RecvPrice, RecvParams, RecvOpenFailed, Take
    <3>2. CASE c.type # "Margin" /\ margin' = margin
      BY <2>1, <3>1, <3>2, HeardTaken, MarginNews
    <3>3. CASE c.type = "Margin" /\ margin' = c.arg
      BY <2>1, <3>1, <3>3, HeardTaken, MarginNews
    <3> QED
      BY <2>3, <3>2, <3>3 DEF RecvPrice, RecvParams, RecvOpenFailed, Take
  <2> QED
    BY <1>4, <2>2, <2>3, EngineHearsNews
<1>5. CASE Relay
  <2>1. UNCHANGED <<margin, session, phase>>
    BY <1>5, RelayedMessage
  <2>2. inbox' = inbox \/ \E c \in Commands : c.type # "Margin" /\ inbox' = Append(inbox, c)
    BY <1>5, RelayedMessage DEF PositionNews
  <2> QED
    BY <1>1, <1>2, <2>1, <2>2
<1>6. CASE \E j \in Jumps : Candle(j)
  <2>1. \A j \in Jumps : [type |-> "Price", arg |-> j] \in Commands
    BY DEF Commands, Inputs
  <2> QED
    BY <1>2, <1>6, <2>1 DEF Candle, botVars
<1>7. CASE BotActs \/ Handle
  <2>1. UNCHANGED margin
    BY <1>7, BotTypes
  <2>2. CASE phase' # "running" \/ UNCHANGED <<inbox, session, phase>>
    BY <1>1, <2>1, <2>2
  <2>3. ASSUME NEW m \in Margins, Adopt(m) \/ UpdateMargin(m) PROVE MarginInv'
    BY <1>3, <2>1, <2>3 DEF Adopt, UpdateMargin, ToEngine, MarketTypes, Sessions, NoSession
  <2>4. CASE Handle
    <3>1. PICK m \in Margins : /\ session' = [Applied(Head(events)) EXCEPT !.margin = m]
                               /\ \/ inbox' = inbox /\ m = session.margin
                                  \/ inbox' = Append(inbox, MarginCmd(m))
      BY <2>4, HandledMargin
    <3>2. session'.margin = m
      BY <2>4, <3>1, HandledMargin, SessionTypes DEF Sessions
    <3> QED
      BY <1>3, <2>1, <2>4, <3>1, <3>2, HandledMargin
  <2> QED
    BY <1>7, <2>2, <2>3, <2>4 DEF BotActs, UserControls, Control, AtSelect, Abort, engineVars
<1> QED
  BY <1>1, <1>4, <1>5, <1>6, <1>7, ExecActsSay, ExecMessage, EngineMessage
  DEF Next, Tasks, Bot, Gone, ExecActs, BotActs, vars, engineVars, botVars

-----------------------------------------------------------------------------
\* The session: what the executor tells it.

\* What each step does to the channels between the executor and the session.
LEMMA ToldSteps ==
  ASSUME MarketTypes, [Next]_vars, phase' # "gone"
  PROVE  /\ phase # "gone"
         /\ \/ ExecActs \/ ExecSends \/ EngineSends \/ Relay \/ Handle
            \/ /\ UNCHANGED <<events, marketQ, execOut, mode, execPaused>>
               /\ session'.pos = session.pos /\ session'.view = session.view
               /\ session'.isPaused = session.isPaused
<1>1. \A m : \A x \in {NoSession, session} :
        LET y == [x EXCEPT !.margin = m]
        IN  y.pos = x.pos /\ y.view = x.view /\ y.isPaused = x.isPaused
  BY DEF NoSession, MarketTypes, Sessions
<1>2. CASE BotActs
  <2>1. UNCHANGED <<events, marketQ, execOut, mode, execPaused>> /\ phase # "gone"
    BY <1>2, BotTypes DEF execVars, BotActs, Adopt, UpdateMargin, UserControls, Control, AtSelect, Abort
  <2>2. session' = session \/ \E m \in Margins : Adopt(m) \/ UpdateMargin(m)
    BY <1>2 DEF BotActs, UserControls, Control, Abort
  <2> QED
    BY <1>1, <2>1, <2>2 DEF Adopt, UpdateMargin, MarketTypes
<1>3. CASE EngineAlone \/ \E j \in Jumps : Candle(j)
  BY <1>3, EngineHearsNews DEF Candle, execVars, botVars
<1> QED
  BY <1>2, <1>3 DEF Next, Tasks, Bot, Gone, ExecActs, BotActs, vars, execVars, botVars

LEMMA PausedNews ==
  /\ \A m \in Messages : /\ m \in DOMAIN PausedByQueue <=> m.type \in {"Paused", "Resumed"}
                         /\ m \in DOMAIN PausedByQueue => PausedByQueue[m] = (m.type = "Paused")
  /\ DOMAIN PausedByExec = {"Paused", "Resumed"}
  /\ PausedByExec["Paused"] = TRUE /\ PausedByExec["Resumed"] = FALSE
BY DEF PausedByQueue, PausedByExec

LEMMA ExecPaused ==
  ASSUME MarketTypes, ExecSays
  PROVE  Heard(execOut', PausedByExec, execPaused, execPaused')
<1>1. CASE execOut' = <<>> /\ execPaused' = execPaused
  BY <1>1, HeardNothing
<1>2. CASE execOut' = IF execPaused' THEN <<"Paused">> ELSE <<"Resumed">>
  <2>1. PICK a \in {"Paused", "Resumed"} : execOut' = <<a>> /\ execPaused' = PausedByExec[a]
    <3>1. CASE execPaused' = TRUE
      BY <1>2, <3>1, PausedNews
    <3>2. CASE execPaused' = FALSE
      BY <1>2, <3>2, PausedNews
    <3> QED
      BY <3>1, <3>2 DEF ExecSays
  <2>2. Heard(<<a>>, PausedByExec, execPaused, PausedByExec[a])
    BY PausedNews DEF Heard
  <2> QED
    BY <2>1, <2>2
<1>3. CASE execOut' \in Openings \cup Closings /\ execPaused' = execPaused
  <2>1. \A q \in Openings \cup Closings : \A i \in DOMAIN q : q[i] \notin {"Paused", "Resumed"}
    BY DEF Openings, Closings
  <2> QED
    BY <1>3, <2>1, PausedNews DEF Heard
<1> QED
  BY <1>1, <1>2, <1>3 DEF ExecSays

\* What handling a message does to the session, by its type.
LEMMA AppliedParts ==
  ASSUME MarketTypes, NEW e \in Messages, NEW m, session' = [Applied(e) EXCEPT !.margin = m]
  PROVE  /\ session'.isPaused = IF e.type \in {"Paused", "Resumed"} THEN e.type = "Paused"
                                ELSE session.isPaused
         /\ session'.pos = IF e.type \in {"OpenPosition", "NoPosition", "OpenFailed", "Trade", "Idle"}
                           THEN e.arg ELSE session.pos
         /\ session'.view = IF e.type \in Kind THEN e.type
                            ELSE IF e.type \in {"OpenFailed", "Trade"} THEN "Idle" ELSE session.view
<1>1. \A x \in Sessions : LET y == [x EXCEPT !.margin = m]
                          IN  y.pos = x.pos /\ y.view = x.view /\ y.isPaused = x.isPaused
  BY DEF Sessions
<1>2. Applied(e) \in Sessions
  BY SessionTypes
<1>3. e.type # "OpenPosition" => e.arg = None
  BY DEF Messages
<1>4. /\ Applied(e).isPaused = IF e.type \in {"Paused", "Resumed"} THEN e.type = "Paused"
                               ELSE session.isPaused
      /\ Applied(e).pos = IF e.type \in {"OpenPosition", "NoPosition", "OpenFailed", "Trade", "Idle"}
                          THEN e.arg ELSE session.pos
      /\ Applied(e).view = IF e.type \in Kind THEN e.type
                           ELSE IF e.type \in {"OpenFailed", "Trade"} THEN "Idle" ELSE session.view
  <2> USE DEF MarketTypes, Sessions, Kind
  <2>1. CASE e.type \in {"OpenPosition", "NoPosition"}
    BY <1>3, <2>1 DEF Applied
  <2>2. CASE e.type \in Kind
    BY <1>3, <2>2 DEF Applied
  <2>3. CASE e.type \in {"OpenFailed", "Trade"}
    BY <1>3, <2>3 DEF Applied
  <2>4. CASE e.type \in {"Paused", "Resumed"}
    BY <1>3, <2>4 DEF Applied
  <2> QED
    BY <2>1, <2>2, <2>3, <2>4 DEF Messages, ExecNews
<1> QED
  BY <1>1, <1>2, <1>4

LEMMA PausedNext ==
  ASSUME MarketTypes, PausedInv, [Next]_vars
  PROVE  PausedInv'
<1> DEFINE Knows(e, q, x, before, v) == Told(e, q, x, PausedByQueue, PausedByExec, before, v)
<1> SUFFICES ASSUME phase' # "gone"
             PROVE  Knows(events', marketQ', execOut', session'.isPaused, execPaused')
  BY DEF PausedInv
<1>1. Knows(events, marketQ, execOut, session.isPaused, execPaused)
  BY ToldSteps DEF PausedInv
<1>2. /\ events \in Seq(Messages) /\ marketQ \in Seq(Messages) /\ execOut \in Seq(ExecNews)
  BY DEF MarketTypes
<1> HIDE DEF Knows
<1>3. CASE ExecActs
  <2>1. execOut = <<>> /\ Heard(execOut', PausedByExec, execPaused, execPaused')
    BY <1>3, ExecActsSay, ExecPaused DEF ExecSays
  <2> QED
    BY <1>1, <1>3, <2>1, ToldSaid, ExecActsSay DEF Knows
<1>4. CASE ExecSends
  <2>1. CASE Head(execOut) = "SwapFill" /\ marketQ' = marketQ
    <3>1. Head(execOut) \notin DOMAIN PausedByExec
      BY <2>1, PausedNews
    <3>2. Knows(events, marketQ, Tail(execOut), session.isPaused, execPaused)
      BY <1>1, <1>2, <1>4, <3>1, ToldDropped, ExecMessage DEF Knows
    <3> QED
      BY <1>4, <2>1, <3>2, ExecMessage
  <2>2. ASSUME NEW m \in Messages, m.type = Head(execOut), marketQ' = Append(marketQ, m)
        PROVE  Knows(events', marketQ', execOut', session'.isPaused, execPaused')
    <3>1. /\ m \in DOMAIN PausedByQueue <=> Head(execOut) \in DOMAIN PausedByExec
          /\ m \in DOMAIN PausedByQueue => PausedByQueue[m] = PausedByExec[Head(execOut)]
      BY <2>2, PausedNews
    <3> QED
      <4>1. execOut # <<>>
        BY <1>4, ExecMessage
      <4>2. Knows(events, Append(marketQ, m), Tail(execOut), session.isPaused, execPaused)
        BY <1>1, <1>2, <3>1, <4>1, ToldSent DEF Knows
      <4> QED
        BY <1>4, <2>2, <4>2, ExecMessage
  <2> QED
    BY <1>4, <2>1, <2>2, ExecMessage
<1>5. CASE EngineSends
  <2>1. PICK m \in Messages : m.type \in Kind /\ marketQ' = Append(marketQ, m)
    BY <1>5, EngineMessage DEF Message
  <2>2. m \notin DOMAIN PausedByQueue
    BY <2>1, PausedNews DEF Kind
  <2> QED
    BY <1>1, <1>2, <1>5, <2>1, <2>2, ToldBetween, EngineMessage DEF Knows
<1>6. CASE Relay
  BY <1>1, <1>2, <1>6, ToldRelayed, RelayedMessage DEF Knows
<1>7. CASE Handle
  <2>1. Head(events) \in Messages /\ events # <<>> /\ events' = Tail(events)
        /\ UNCHANGED <<marketQ, execOut, execPaused>>
    BY <1>7, HandledMargin, BotTypes DEF execVars
  <2>2. session'.isPaused = IF Head(events) \in DOMAIN PausedByQueue
                            THEN PausedByQueue[Head(events)] ELSE session.isPaused
    BY <1>7, <2>1, HandledMargin, AppliedParts, PausedNews
  <2> QED
    BY <1>1, <1>2, <2>1, <2>2, ToldHandled DEF Knows
<1> QED
  BY <1>1, <1>3, <1>4, <1>5, <1>6, <1>7, ToldSteps

LEMMA ShownNews ==
  /\ \A m \in Messages : /\ m \in DOMAIN ShownByQueue
                              <=> m.type \in {"OpenPosition", "NoPosition", "OpenFailed", "Trade",
                                              "Idle"}
                         /\ m \in DOMAIN ShownByQueue => ShownByQueue[m] = Status(m.arg)
  /\ DOMAIN ShownByExec = {"OpenPosition", "NoPosition", "OpenFailed", "Trade"}
  /\ ShownByExec["OpenPosition"] = "some" /\ ShownByExec["NoPosition"] = "none"
  /\ ShownByExec["OpenFailed"] = "none" /\ ShownByExec["Trade"] = "none"
BY DEF ShownByQueue, ShownByExec

LEMMA HeldIs == (Held = "some" <=> Holding) /\ (Held' = "some" <=> Holding')
BY DEF Held

\* What the executor says leaves no position to be shown that it does not hold.
LEMMA ExecShown ==
  ASSUME MarketTypes, ExecSays, NEW u, u = "some" => Holding
  PROVE  \E w : Heard(execOut', ShownByExec, u, w) /\ (w = "some" => Holding')
<1>1. CASE execOut' = <<>> /\ Held' = Held
  BY <1>1, HeardNothing, HeldIs
<1>2. CASE execOut' \in {<<"Paused">>, <<"Resumed">>} /\ Held' = Held
  BY <1>2, HeardOther, ShownNews, HeldIs
<1>3. CASE execOut' \in Openings /\ Held' = "some"
  <2>1. Heard(execOut', ShownByExec, u, ShownByExec["OpenPosition"])
    BY <1>3, LastWords, HeardLast, ShownNews
  <2> QED
    BY <1>3, <2>1, HeldIs
<1>4. CASE execOut' \in Closings /\ Held' = "none"
  <2>1. Heard(execOut', ShownByExec, u, ShownByExec["NoPosition"])
    BY <1>4, LastWords, HeardLast, ShownNews
  <2> QED
    BY <2>1, ShownNews
<1> QED
  BY <1>1, <1>2, <1>3, <1>4 DEF ExecSays

LEMMA ShownNext ==
  ASSUME MarketTypes, ShownInv, [Next]_vars
  PROVE  ShownInv'
<1> DEFINE Knows(e, q, x, before, v) == Told(e, q, x, ShownByQueue, ShownByExec, before, v)
<1> SUFFICES ASSUME phase' # "gone"
             PROVE  \E w : /\ Knows(events', marketQ', execOut', Status(session'.pos), w)
                           /\ w = "some" => Holding'
  BY DEF ShownInv, Status
<1>1. PICK v : Knows(events, marketQ, execOut, Status(session.pos), v) /\ (v = "some" => Holding)
  <2>1. phase # "gone"
    BY ToldSteps
  <2> QED
    BY <2>1 DEF ShownInv
<1>2. /\ events \in Seq(Messages) /\ marketQ \in Seq(Messages) /\ execOut \in Seq(ExecNews)
  BY DEF MarketTypes
<1>3. mode' = mode => (Holding' <=> Holding)
  BY DEF Holding, Cycle!Holding
<1> HIDE DEF Knows
<1>4. CASE ExecActs
  <2>1. PICK w : Heard(execOut', ShownByExec, v, w) /\ (w = "some" => Holding')
    BY <1>1, <1>4, ExecActsSay, ExecShown
  <2>2. execOut = <<>>
    BY <1>4, ExecActsSay DEF ExecSays
  <2> QED
    BY <1>1, <1>4, <2>1, <2>2, ToldSaid, ExecActsSay DEF Knows
<1>5. CASE ExecSends
  <2>1. CASE Head(execOut) = "SwapFill" /\ marketQ' = marketQ
    <3>1. Head(execOut) \notin DOMAIN ShownByExec
      BY <2>1, ShownNews
    <3>2. Knows(events, marketQ, Tail(execOut), Status(session.pos), v)
      BY <1>1, <1>2, <1>5, <3>1, ToldDropped, ExecMessage DEF Knows
    <3> QED
      BY <1>1, <1>3, <1>5, <2>1, <3>2, ExecMessage
  <2>2. ASSUME NEW m \in Messages, m.type = Head(execOut), marketQ' = Append(marketQ, m),
               m.type = "OpenPosition" => m.arg \in Positions,
               m.type # "OpenPosition" => m.arg = None
        PROVE  Knows(events', marketQ', execOut', Status(session'.pos), v)
    <3>1. Head(execOut) # "Idle"
      BY <1>5, ExecMessage DEF ExecNews
    <3>2. /\ m \in DOMAIN ShownByQueue <=> Head(execOut) \in DOMAIN ShownByExec
          /\ m \in DOMAIN ShownByQueue => ShownByQueue[m] = ShownByExec[Head(execOut)]
      BY <2>2, <3>1, ShownNews, StatusIs
    <3> QED
      <4>1. execOut # <<>>
        BY <1>5, ExecMessage
      <4>2. Knows(events, Append(marketQ, m), Tail(execOut), Status(session.pos), v)
        BY <1>1, <1>2, <3>2, <4>1, ToldSent DEF Knows
      <4> QED
        BY <1>5, <2>2, <4>2, ExecMessage
  <2> QED
    BY <1>1, <1>3, <1>5, <2>1, <2>2, ExecMessage
<1>6. CASE EngineSends
  <2>1. PICK m \in Messages : m.type \in Kind /\ m.arg = None /\ marketQ' = Append(marketQ, m)
    BY <1>6, EngineMessage DEF Message
  <2>2. m \in DOMAIN ShownByQueue => ShownByQueue[m] = "none"
    BY <2>1, ShownNews, StatusIs
  <2>3. \/ Knows(events, marketQ', execOut, Status(session.pos), v)
        \/ Knows(events, marketQ', execOut, Status(session.pos), "none")
    BY <1>1, <1>2, <2>1, <2>2, ToldBetween DEF Knows
  <2> QED
    BY <1>1, <1>3, <1>6, <2>3, EngineMessage
<1>7. CASE Relay
  BY <1>1, <1>2, <1>3, <1>7, ToldRelayed, RelayedMessage DEF Knows
<1>8. CASE Handle
  <2>1. Head(events) \in Messages /\ events # <<>> /\ events' = Tail(events)
        /\ UNCHANGED <<marketQ, execOut, mode>>
    BY <1>8, HandledMargin, BotTypes DEF execVars
  <2>2. Status(session'.pos) = IF Head(events) \in DOMAIN ShownByQueue
                               THEN ShownByQueue[Head(events)] ELSE Status(session.pos)
    BY <1>8, <2>1, HandledMargin, AppliedParts, ShownNews
  <2> QED
    BY <1>1, <1>2, <1>3, <2>1, <2>2, ToldHandled DEF Knows
<1> QED
  BY <1>1, <1>3, <1>4, <1>5, <1>6, <1>7, <1>8, ToldSteps

\* Once all is told, the session shows no position that is not held.
THEOREM ShownOnlyHeld == Spec => []ShownIsHeld
<1>1. Init => ShownInv
  <2> SUFFICES ASSUME Init PROVE ShownInv
    OBVIOUS
  <2>1. Status(session.pos) = "none"
    BY StatusIs DEF Init, NoSession
  <2> QED
    BY <2>1, ToldNothing DEF Init, ShownInv
<1>2. MarketTypes /\ ShownInv => ShownIsHeld
  <2> SUFFICES ASSUME MarketTypes, ShownInv, NoNews, events = <<>>, session.pos # None
               PROVE  Holding
    BY DEF ShownIsHeld
  <2>1. session.pos \in Positions /\ Status(session.pos) = "some"
    BY StatusIs DEF MarketTypes, Sessions
  <2>2. phase # "gone"
    BY DEF MarketTypes, NoSession
  <2>3. \A v : Told(<<>>, <<>>, <<>>, ShownByQueue, ShownByExec, "some", v) => v = "some"
    BY ToldAll
  <2> QED
    BY <2>1, <2>2, <2>3 DEF NoNews, ShownInv
<1> QED
  BY <1>1, <1>2, ShownNext, MarketTypesHold, PTL DEF Spec

\* The engine and the session agree on the margin, and once all is told the
\* session knows whether the executor is paused.
THEOREM SessionAgreement == Spec => []SessionAgrees
<1>1. Init => MarginInv /\ PausedInv
  <2> SUFFICES ASSUME Init PROVE PausedInv
    BY DEF Init, MarginInv
  <2>1. session.isPaused = execPaused
    BY DEF Init, NoSession
  <2> QED
    BY <2>1, ToldNothing DEF Init, PausedInv
<1>2. MarginInv /\ PausedInv => SessionAgrees
  <2> SUFFICES ASSUME PausedInv, AllTold PROVE session.isPaused = execPaused
    BY DEF MarginInv, SessionAgrees
  <2>1. Told(<<>>, <<>>, <<>>, PausedByQueue, PausedByExec, session.isPaused, execPaused)
    BY DEF AllTold, NoNews, PausedInv
  <2> QED
    BY <2>1, ToldAll
<1>3. MarketTypes /\ MarginInv /\ PausedInv /\ [Next]_vars => MarginInv' /\ PausedInv'
  BY MarginNext, PausedNext
<1> QED
  BY <1>1, <1>2, <1>3, MarketTypesHold, PTL DEF Spec

-----------------------------------------------------------------------------
\* The session: what the engine tells it.

\* The steps the engine takes besides telling.
EngineMoves == Strat \/ RecvPrice \/ RecvParams \/ RecvOpenFailed \/ Forced \/ Sent

LEMMA EngineStepsAre ==
  ASSUME MarketTypes, [Next]_vars
  PROVE  EngineMoves \/ EngineSends \/ UNCHANGED <<outbox, state, begun, pc>>
<1>1. CASE EngineAlone
  BY <1>1, EngineHearsNews DEF EngineMoves
<1>2. CASE EngineOrders
  BY <1>2 DEF EngineOrders, EngineMoves
<1>3. CASE BotActs \/ Handle
  BY <1>3, BotTypes
<1> QED
  BY <1>1, <1>2, <1>3, RelayedMessage
  DEF Next, Tasks, Bot, BotActs, Gone, vars, engineVars, BuyDecided, PollsOn, ExecSends,
      BotControls, Candle

\* A step of the engine tells nothing and leaves what was known, or it tells it.
EngineSays ==
  /\ outbox = <<>> /\ SpeaksInv' /\ Known'.kind \in Kind
  /\ \/ outbox' = <<>> /\ Known'.kind = Known.kind
     \/ outbox' = <<Known'.kind>>

LEMMA FinishSays ==
  ASSUME SpeaksInv, pc # "recv", NEW s \in State, Finish(s)
  PROVE  EngineSays
<1>1. s.kind \in Kind
  BY DEF State
<1> QED
  BY <1>1 DEF SpeaksInv, Finish, Return, EngineSays, Known

LEMMA AnswerSays ==
  ASSUME MarketTypes, SpeaksInv, NEW i \in Intent, Answer(i)
  PROVE  EngineSays
<1>1. /\ state \in State /\ begun \in State /\ i.arg \in Nat
      /\ state.kind \in Kind /\ begun.kind \in Kind
  BY DEF MarketTypes, EngineTypes, State, Intent
<1>2. CASE StratIgnored(i)
  BY <1>1, <1>2 DEF StratIgnored, Return, SpeaksInv, EngineSays, Known
<1>3. CASE StratArm(i)
  BY <1>1, <1>3, FinishSays, IdleIsState, ArmedIsState DEF StratArm
<1>4. CASE StratRejected(i)
  BY <1>1, <1>4, FinishSays DEF StratRejected
<1>5. CASE StratOrder(i) \/ StratAbort(i)
  BY <1>1, <1>5 DEF StratOrder, StratAbort, Send, SpeaksInv, EngineSays, Known
<1> QED
  BY <1>2, <1>3, <1>4, <1>5 DEF Answer

LEMMA MovesSay ==
  ASSUME MarketTypes, SpeaksInv, EngineMoves
  PROVE  EngineSays
<1>1. /\ state \in State /\ begun \in State /\ state.kind \in Kind /\ begun.kind \in Kind
      /\ Idle \in State /\ Idle.kind = "Idle" /\ "Idle" \in Kind
  BY IdleIsState DEF MarketTypes, EngineTypes, State, Idle, Kind
<1>2. CASE Strat
  BY <1>1, <1>2, StratAnswers, AnswerSays, FinishSays DEF StratQuiet, MarketTypes
<1>3. CASE RecvPrice
  <2>1. pc = "recv" /\ outbox = <<>> /\ outbox' = <<>>
    BY <1>3 DEF RecvPrice, Take
  <2>2. CASE paused
    BY <1>1, <1>3, <2>1, <2>2 DEF RecvPrice, EngineSays, SpeaksInv, Known
  <2>3. CASE ~paused
    <3> DEFINE s == Aged(Head(inbox).arg)
    <3>1. Head(inbox).arg \in Nat
      <4>1. Head(inbox) \in Inputs /\ Head(inbox).type = "Price"
        BY <1>3, TakeType DEF RecvPrice, MarketTypes
      <4> QED
        BY <4>1, InputsAre, EngineAssumption
    <3>2. s \in State /\ s.kind = state.kind
      BY <3>1, AgedState DEF MarketTypes
    <3>3. Refreshed(s).kind \in {"Opening", "Closing"} => Refreshed(s) = s
      BY <3>2, RefreshedState DEF MarketTypes
    <3>4. /\ begun' = s /\ pc' \in {"forcing", "tick"}
          /\ pc' = "tick" => state' = Refreshed(s)
      BY <1>3, <2>3 DEF RecvPrice
    <3> HIDE DEF s
    <3> QED
      BY <1>1, <2>1, <3>2, <3>3, <3>4 DEF EngineSays, SpeaksInv, Known, Busy
  <2> QED
    BY <2>2, <2>3
<1>4. CASE RecvParams
  BY <1>1, <1>4 DEF RecvParams, Take, EngineSays, SpeaksInv, Known
<1>5. CASE RecvOpenFailed
  BY <1>1, <1>5 DEF RecvOpenFailed, Take, EngineSays, SpeaksInv, Known
<1>6. CASE Forced
  BY <1>1, <1>6 DEF Forced, EngineSays, SpeaksInv, Known, Busy
<1>7. CASE Sent
  <2>1. want.op \in {"Open", "Close", "ForceClose"}
    BY DEF MarketTypes, EngineTypes, Order
  <2>2. PICK s \in State : Finish(s)
    BY <1>7, <2>1, IdleIsState DEF Sent
  <2> QED
    BY <1>7, <2>2, FinishSays DEF Sent
<1> QED
  BY <1>2, <1>3, <1>4, <1>5, <1>6, <1>7 DEF EngineMoves

LEMMA SpeaksNext ==
  ASSUME MarketTypes, SpeaksInv, [Next]_vars
  PROVE  SpeaksInv'
<1>1. CASE EngineMoves
  BY <1>1, MovesSay DEF EngineSays
<1>2. CASE EngineSends
  <2>1. outbox' = Tail(<<state.kind>>)
    BY <1>2 DEF EngineSends, SpeaksInv
  <2>2. Tail(<<state.kind>>) = <<>>
    OBVIOUS
  <2> QED
    BY <1>2, <2>1, <2>2, EngineMessage DEF SpeaksInv, Busy
<1>3. CASE UNCHANGED <<outbox, state, begun, pc>>
  BY <1>3 DEF SpeaksInv, Busy
<1> QED
  BY <1>1, <1>2, <1>3, EngineStepsAre

LEMMA ViewNews ==
  /\ \A m \in Messages : /\ m \in DOMAIN Views <=> m.type \in Kind \cup {"OpenFailed", "Trade"}
                         /\ m.type \in Kind => Views[m] = m.type
                         /\ m.type \in {"OpenFailed", "Trade"} => Views[m] = "Idle"
  /\ DOMAIN OwnViews = Kind
  /\ \A k \in Kind : OwnViews[k] = k
BY DEF Views, OwnViews, Kind

LEMMA ViewsNext ==
  ASSUME MarketTypes, SpeaksInv, ViewsInv, [Next]_vars
  PROVE  ViewsInv'
<1> DEFINE Knows(e, q, x, before, v) == Told(e, q, x, Views, OwnViews, before, v)
<1> SUFFICES ASSUME phase' # "gone"
             PROVE  \E w : /\ Knows(events', marketQ', outbox', session'.view, w)
                           /\ w \in {Known'.kind, "Idle"}
  BY DEF ViewsInv
<1>1. PICK v : /\ Knows(events, marketQ, outbox, session.view, v)
               /\ v \in {Known.kind, "Idle"}
  <2>1. phase # "gone"
    BY ToldSteps
  <2> QED
    BY <2>1 DEF ViewsInv
<1>2. /\ events \in Seq(Messages) /\ marketQ \in Seq(Messages) /\ outbox \in Seq(Kind)
  BY DEF MarketTypes, EngineTypes
<1>3. UNCHANGED <<state, begun, pc>> => Known' = Known
  BY DEF Known
<1> HIDE DEF Knows
<1>4. CASE EngineSends
  <2>1. PICK m \in Messages : /\ m.type = Head(outbox) /\ m.type \in Kind
                              /\ marketQ' = Append(marketQ, m)
    BY <1>4, EngineMessage DEF Message
  <2>2. /\ m \in DOMAIN Views <=> Head(outbox) \in DOMAIN OwnViews
        /\ m \in DOMAIN Views => Views[m] = OwnViews[Head(outbox)]
    BY <2>1, ViewNews
  <2>3. outbox # <<>>
    BY <1>4 DEF EngineSends
  <2>4. Knows(events, marketQ', Tail(outbox), session.view, v)
    BY <1>1, <1>2, <2>1, <2>2, <2>3, ToldSent DEF Knows
  <2> QED
    BY <1>1, <1>3, <1>4, <2>4, EngineMessage
<1>5. CASE UNCHANGED <<events, marketQ>> /\ session'.view = session.view
  <2>1. CASE EngineMoves
    <3>1. EngineSays
      BY <2>1, MovesSay
    <3>2. CASE outbox' = <<>> /\ Known'.kind = Known.kind
      BY <1>1, <1>5, <3>1, <3>2 DEF EngineSays
    <3>3. CASE outbox' = <<Known'.kind>>
      <4>1. Heard(outbox', OwnViews, v, Known'.kind)
        BY <3>1, <3>3, ViewNews DEF Heard, EngineSays
      <4>2. Knows(events, marketQ, outbox', session.view, Known'.kind)
        BY <1>1, <3>1, <4>1, ToldSaid DEF Knows, EngineSays
      <4> QED
        BY <1>5, <4>2
    <3> QED
      BY <3>1, <3>2, <3>3 DEF EngineSays
  <2>2. CASE UNCHANGED <<outbox, state, begun, pc>>
    BY <1>1, <1>3, <1>5, <2>2
  <2> QED
    BY <1>4, <2>1, <2>2, EngineStepsAre
<1>6. CASE ExecSends
  <2>1. UNCHANGED <<outbox, state, begun, pc, events, session>>
    BY <1>6 DEF ExecSends, engineVars, botVars
  <2>2. CASE marketQ' = marketQ
    BY <1>1, <1>3, <2>1, <2>2
  <2>3. ASSUME NEW m \in Messages, m.type = Head(execOut), marketQ' = Append(marketQ, m)
        PROVE  \E w \in {v, "Idle"} : Knows(events, marketQ', outbox, session.view, w)
    <3>1. m \in DOMAIN Views => Views[m] = "Idle"
      BY <1>6, <2>3, ViewNews, ExecMessage DEF ExecNews, Kind
    <3> QED
      BY <1>1, <1>2, <2>3, <3>1, ToldBetween DEF Knows
  <2> QED
    BY <1>1, <1>3, <1>6, <2>1, <2>2, <2>3, ExecMessage
<1>7. CASE Relay
  BY <1>1, <1>2, <1>3, <1>7, ToldRelayed, RelayedMessage DEF Knows
<1>8. CASE Handle
  <2>1. Head(events) \in Messages /\ events # <<>> /\ events' = Tail(events)
        /\ UNCHANGED <<marketQ, outbox, state, begun, pc>>
    BY <1>8, HandledMargin, BotTypes
  <2>2. session'.view = IF Head(events) \in DOMAIN Views
                        THEN Views[Head(events)] ELSE session.view
    BY <1>8, <2>1, HandledMargin, AppliedParts, ViewNews
  <2> QED
    BY <1>1, <1>2, <1>3, <2>1, <2>2, ToldHandled DEF Knows
<1>9. ExecActs => UNCHANGED <<events, marketQ>> /\ session' = session
  BY ExecActsSay
<1> QED
  BY <1>4, <1>5, <1>6, <1>7, <1>8, <1>9, ToldSteps

\* Once all is told, the session shows the state of the engine, or the Idle
\* that a Trade or an OpenFailed made of it.
THEOREM ViewIsFollowed == Spec => []ViewFollows
<1>1. Init => SpeaksInv /\ ViewsInv
  <2> SUFFICES ASSUME Init PROVE SpeaksInv /\ ViewsInv
    OBVIOUS
  <2>1. Told(<<>>, <<>>, <<>>, Views, OwnViews, "Idle", "Idle")
    BY ToldNothing
  <2> QED
    BY <2>1 DEF Init, EngineInit, NoSession, SpeaksInv, ViewsInv
<1>2. SpeaksInv /\ ViewsInv => ViewFollows
  <2> SUFFICES ASSUME ViewsInv, AllTold PROVE session.view \in {state.kind, "Idle"}
    BY DEF ViewFollows
  <2>1. PICK v : /\ Told(<<>>, <<>>, <<>>, Views, OwnViews, session.view, v)
                 /\ v \in {state.kind, "Idle"}
    BY DEF AllTold, NoNews, ViewsInv, Known
  <2> QED
    BY <2>1, ToldAll
<1>3. MarketTypes /\ SpeaksInv /\ ViewsInv /\ [Next]_vars => SpeaksInv' /\ ViewsInv'
  BY SpeaksNext, ViewsNext
<1> QED
  BY <1>1, <1>2, <1>3, MarketTypesHold, PTL DEF Spec

=============================================================================
