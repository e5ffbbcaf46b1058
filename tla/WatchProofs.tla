---------------------------- MODULE WatchProofs ----------------------------
(***************************************************************************)
(* The watch helper for any number of sessions and ticks: what is stored   *)
(* as evidence is what was shown, nobody is captured without an overlay    *)
(* and a Stop, and what was stopped leaves a clean screen.                 *)
(***************************************************************************)
EXTENDS Watch, SequenceTheorems, TLAPS

-----------------------------------------------------------------------------
(* What the steps of the threads and of the panel rest on.                  *)

\* A thread that has a tick in hand has one to go to; a menu is about a face.
StepsHold ==
    /\ \A s \in Sessions : threads[s].pc \in {"asked", "answered", "emit"} =>
          threads[s].tick < MaxTicks
    /\ gui.doing = "menu" => gui.offered \in Face

TypeInv == TypeOK /\ StepsHold

\* Every thread but the current one, and the one the GUI waits for, was told to stop and
\* has no answer in hand.
ThreadsInv ==
    /\ \A s \in Sessions \ {current, gui.joins} :
          /\ threads[s].pc \in {"none", "asked", "ending", "gone"}
          /\ threads[s].pc = "asked" => threads[s].stop
    /\ gui.joins # 0 => threads[gui.joins].stop
    /\ gui.doing \notin {"idle", "menu"} => current = 0
    /\ gui.doing \in {"idle", "menu", "closed"} => gui.joins = 0

IdentifyResult(i) == queue[i].kind = "result" /\ Identifies(queue[i].frame[2])

Emitting == \E s \in Sessions : threads[s].pc = "emit" /\ FrameOf(s) = retained

\* The last identify result posted is the retained frame's.
Pending ==
    \E i \in DOMAIN queue :
        /\ queue[i].kind = "result" /\ queue[i].frame = retained
        /\ \A j \in DOMAIN queue : j > i => ~ IdentifyResult(j)

\* No identify result is posted, and the identities are the retained frame's.
Settled ==
    /\ \A j \in DOMAIN queue : ~ IdentifyResult(j)
    /\ identities = None \/ identities.frame = retained

\* The retained frame is the one the next result, the queue or the panel knows last.
RetainedInv ==
    /\ \A s \in Sessions : threads[s].pc = "emit" /\ Identifies(threads[s].tick) =>
          retained = FrameOf(s)
    /\ retained # None => /\ Identifies(retained[2])
                          /\ Emitting \/ Pending \/ Settled

\* Until a signal comes in under it, the menu is about the face behind the box.
MenuInv == gui.doing = "menu" /\ ~ gui.moved => face = gui.offered

\* Sessions start one after the other, and the one that has an answer in hand is the last.
SessionOrder ==
    /\ \A s, t \in Sessions : threads[t].pc # "none" /\ s < t => threads[s].pc # "none"
    /\ \A s \in Sessions : threads[s].pc # "none" =>
          (current # 0 => s <= current) /\ (gui.joins # 0 => s <= gui.joins)

\* A frame some session came to, and not after the retained one.
Captured(f) ==
    /\ threads[f[1]].pc # "none" /\ f[2] <= threads[f[1]].tick
    /\ retained # None => ~ Before(retained, f)

\* What is posted or identified was captured.
FramesInv ==
    /\ \A i \in DOMAIN queue : IdentifyResult(i) => Captured(queue[i].frame)
    /\ identities # None => Captured(identities.frame)

\* Results are handled in the order of their frames, so the panel only moves ahead.
OrderInv ==
    /\ \A i, j \in DOMAIN queue : i < j /\ IdentifyResult(i) /\ IdentifyResult(j) =>
          ~ Before(queue[j].frame, queue[i].frame)
    /\ identities # None =>
          \A i \in DOMAIN queue : IdentifyResult(i) => ~ Before(queue[i].frame, identities.frame)
    /\ gui.doing = "menu" => identities # None /\ ~ Before(identities.frame, gui.offered.frame)

EndsAreLast ==
    \A i \in DOMAIN queue : queue[i].kind = "ended" => threads[queue[i].frame[1]].pc = "gone"

\* A session that started when nothing older was to be heard of is the only one there is.
ShownInv ==
    /\ gui.doing = "starting" => overlay.shown
    /\ current # 0 /\ current \notin overlapped /\ Capturing(current) =>
          /\ \A t \in Sessions \ {current} : ~ Unheard(t)
          /\ overlay.shown /\ buttons.stop

AllGone == died = {} /\ \A s \in Started : threads[s].pc = "gone"

\* When all threads are gone the last signal to come is an end.
CleanInv ==
    AllGone =>
        /\ queue # << >> => queue[Len(queue)].kind = "ended"
        /\ queue = << >> /\ gui.doing \in {"idle", "menu"} =>
              overlay = [shown |-> FALSE, hit |-> FALSE] /\ buttons.start

WatchInv ==
    /\ TypeInv /\ ThreadsInv /\ RetainedInv /\ MenuInv /\ EndsAreLast /\ ShownInv /\ CleanInv
    /\ SessionOrder /\ FramesInv /\ OrderInv /\ SavedAsShown

-----------------------------------------------------------------------------
(* What a step does to the threads, and to the queue.                       *)

LEMMA ThreadMoves ==
    ASSUME TypeInv, NEW s \in Sessions, NEW from, NEW to, Moves(s, from, to),
           to \in {"none", "loop", "asked", "answered", "emit", "ending", "gone"}
    PROVE  /\ threads' \in [Sessions -> Thread]
           /\ \A t \in Sessions : t # s => threads'[t] = threads[t]
           /\ threads[s].pc = from /\ threads'[s].pc = to
           /\ threads'[s].stop = threads[s].stop /\ threads'[s].tick = threads[s].tick
<1>1. threads \in [Sessions -> Thread] /\ threads[s] \in Thread /\ threads[s].pc = from
      /\ threads' = [threads EXCEPT ![s] = [threads[s] EXCEPT !.pc = to]]
  BY DEF TypeInv, TypeOK, Moves
<1>2. /\ [threads[s] EXCEPT !.pc = to] \in Thread
      /\ [threads[s] EXCEPT !.pc = to].pc = to
      /\ [threads[s] EXCEPT !.pc = to].stop = threads[s].stop
      /\ [threads[s] EXCEPT !.pc = to].tick = threads[s].tick
  BY <1>1 DEF Thread
<1> QED
  BY <1>1, <1>2

LEMMA ThreadGoesOn ==
    ASSUME TypeInv, NEW s \in Sessions, NEW who, Emit(s, who)
    PROVE  /\ threads' \in [Sessions -> Thread]
           /\ \A t \in Sessions : t # s => threads'[t] = threads[t]
           /\ threads[s].pc = "emit" /\ threads'[s].pc = "loop"
           /\ threads'[s].stop = threads[s].stop /\ threads'[s].tick = threads[s].tick + 1
<1>1. threads \in [Sessions -> Thread] /\ threads[s] \in Thread /\ threads[s].pc = "emit"
      /\ threads[s].tick < MaxTicks
      /\ threads' = [threads EXCEPT ![s] =
                        [threads[s] EXCEPT !.pc = "loop", !.tick = threads[s].tick + 1]]
  BY DEF TypeInv, TypeOK, StepsHold, Emit
<1>2. threads[s].tick + 1 \in 0..MaxTicks
  BY <1>1, BoundsAssumption DEF Thread
<1> DEFINE u == [threads[s] EXCEPT !.pc = "loop", !.tick = threads[s].tick + 1]
<1>3. u \in Thread /\ u.pc = "loop" /\ u.stop = threads[s].stop /\ u.tick = threads[s].tick + 1
  BY <1>1, <1>2 DEF Thread
<1> HIDE DEF u
<1>4. threads' = [threads EXCEPT ![s] = u]
  BY <1>1 DEF u
<1> QED
  BY <1>1, <1>3, <1>4

LEMMA FlagIsRaised ==
    ASSUME TypeInv, RaiseFlag
    PROVE  /\ threads' \in [Sessions -> Thread] /\ current' = 0
           /\ \A t \in Sessions : threads'[t].pc = threads[t].pc /\ threads'[t].tick = threads[t].tick
           /\ \A t \in Sessions \ {current} : threads'[t] = threads[t]
           /\ current # 0 => threads'[current].stop
<1>1. threads \in [Sessions -> Thread] /\ current \in {0} \cup Sessions /\ 0 \notin Sessions
  BY DEF TypeInv, TypeOK, Sessions
<1>2. CASE current = 0
  BY <1>1, <1>2 DEF RaiseFlag
<1>3. CASE current # 0
  <2> DEFINE u == [threads[current] EXCEPT !.stop = TRUE]
  <2>1. threads' = [threads EXCEPT ![current] = u] /\ current' = 0
    BY <1>1, <1>3 DEF RaiseFlag
  <2>2. u \in Thread
    BY <1>1, <1>3 DEF Thread
  <2>3. u.pc = threads[current].pc /\ u.tick = threads[current].tick
    BY <1>1, <1>3 DEF Thread
  <2>4. u.stop
    BY <1>1, <1>3, Zenon DEF Thread
  <2> HIDE DEF u
  <2>5. threads'[current] = u /\ \A t \in Sessions : t # current => threads'[t] = threads[t]
    BY <1>1, <1>3, <2>1
  <2>6. threads' \in [Sessions -> Thread]
    BY <1>1, <2>1, <2>2
  <2>7. \A t \in Sessions : threads'[t].pc = threads[t].pc /\ threads'[t].tick = threads[t].tick
    BY <2>3, <2>5
  <2> QED
    BY <2>1, <2>4, <2>5, <2>6, <2>7
<1> QED
  BY <1>2, <1>3

LEMMA SignalIsPosted ==
    ASSUME TypeInv, NEW kind \in {"result", "ended"}, NEW frame \in Frames,
           NEW who \in People \cup {None}, Post(kind, frame, who)
    PROVE  /\ queue' \in Seq(Signal) /\ Len(queue') = Len(queue) + 1
           /\ DOMAIN queue' = 1..(Len(queue) + 1) /\ DOMAIN queue = 1..Len(queue)
           /\ Len(queue) \in Nat
           /\ \A i \in DOMAIN queue : queue'[i] = queue[i]
           /\ queue'[Len(queue) + 1].kind = kind /\ queue'[Len(queue) + 1].frame = frame
<1> DEFINE signal == [kind |-> kind, frame |-> frame, who |-> who]
<1>1. signal \in Signal /\ signal.kind = kind /\ signal.frame = frame
  BY DEF Signal
<1>2. queue \in Seq(Signal) /\ queue' = Append(queue, signal)
  BY DEF TypeInv, TypeOK, Post
<1> HIDE DEF signal
<1>3. /\ queue' \in Seq(Signal) /\ Len(queue') = Len(queue) + 1
      /\ \A i \in 1..Len(queue) : queue'[i] = queue[i]
      /\ queue'[Len(queue) + 1] = signal
  BY <1>1, <1>2, AppendProperties
<1>4. /\ DOMAIN queue = 1..Len(queue) /\ Len(queue) \in Nat
      /\ DOMAIN queue' = 1..(Len(queue) + 1)
  BY <1>2, <1>3, LenProperties
<1> QED
  BY <1>1, <1>3, <1>4

LEMMA SignalIsTaken ==
    ASSUME TypeInv, Handling
    PROVE  /\ queue' \in Seq(Signal) /\ Signalled = queue[1] /\ Signalled \in Signal
           /\ Len(queue) \in Nat /\ Len(queue) > 0 /\ Len(queue') = Len(queue) - 1
           /\ DOMAIN queue = 1..Len(queue) /\ DOMAIN queue' = 1..Len(queue')
           /\ \A i \in DOMAIN queue' : queue'[i] = queue[i + 1]
           /\ gui'.doing = gui.doing /\ gui'.joins = gui.joins /\ gui'.offered = gui.offered
           /\ gui.doing = "menu" => gui'.moved
           /\ gui.doing \in {"idle", "menu"}
           /\ UNCHANGED <<threads, current, retained, saved, overlapped, died>>
<1>1. queue \in Seq(Signal) /\ queue # << >> /\ queue' = Tail(queue)
      /\ gui.doing \in {"idle", "menu"} /\ gui' = [gui EXCEPT !.moved = gui.doing = "menu"]
      /\ UNCHANGED <<threads, current, retained, saved, overlapped, died>>
  BY DEF TypeInv, TypeOK, Handling, history
<1>2. /\ queue' \in Seq(Signal) /\ Len(queue') = Len(queue) - 1
      /\ \A i \in 1..Len(queue') : queue'[i] = queue[i + 1]
      /\ Head(queue) \in Signal
  BY <1>1, HeadTailProperties
<1>3. Len(queue) \in Nat /\ DOMAIN queue = 1..Len(queue) /\ DOMAIN queue' = 1..Len(queue')
  BY <1>1, <1>2, LenProperties
<1>4. Len(queue) > 0
  BY <1>1, EmptySeq
<1>5. Signalled = queue[1]
  BY <1>1 DEF Signalled
<1>6. gui \in [doing : {"idle", "starting", "stopping", "closing", "closed", "menu"},
               joins : {0} \cup Sessions, offered : Face \cup {None}, moved : BOOLEAN]
  BY DEF TypeInv, TypeOK
<1>7. gui'.doing = gui.doing /\ gui'.joins = gui.joins /\ gui'.offered = gui.offered
  BY <1>1, <1>6
<1>8. gui.doing = "menu" => gui'.moved
  BY <1>1, <1>6, Zenon
<1> QED
  BY <1>1, <1>2, <1>3, <1>4, <1>5, <1>7, <1>8 DEF Signalled

\* A thread's step concerns the thread, the queue and the retained frame.
LEMMA ThreadSteps ==
    ASSUME TypeInv, NEW s \in Sessions, ThreadStep(s)
    PROVE  /\ threads' \in [Sessions -> Thread] /\ gui.doing # "closed"
           /\ \A t \in Sessions : t # s => threads'[t] = threads[t]
           /\ threads'[s].stop = threads[s].stop
           /\ UNCHANGED <<current, identities, face, buttons, overlay, gui, saved, overlapped>>
           /\ \/ /\ UNCHANGED <<retained, queue, died>>
                 /\ threads'[s].tick = threads[s].tick
                 /\ \/ threads[s].pc = "loop" /\ threads'[s].pc = "ending"
                    \/ /\ threads[s].pc = "loop" /\ threads'[s].pc = "asked"
                       /\ ~ threads[s].stop /\ threads[s].tick < MaxTicks
                    \/ /\ threads[s].pc = "asked"
                       /\ IF threads[s].stop THEN threads'[s].pc = "ending"
                          ELSE threads'[s].pc \in {"loop", "answered"}
              \/ /\ UNCHANGED <<retained, queue>> /\ died' = {s}
                 /\ threads'[s].tick = threads[s].tick
                 /\ threads[s].pc = "asked" /\ threads'[s].pc = "gone"
              \/ /\ UNCHANGED <<queue, died>> /\ threads'[s].tick = threads[s].tick
                 /\ threads[s].pc = "answered" /\ threads'[s].pc = "emit"
                 /\ retained' = IF Identifies(threads[s].tick) THEN FrameOf(s) ELSE retained
              \/ /\ UNCHANGED <<retained, died>> /\ threads'[s].tick = threads[s].tick + 1
                 /\ threads[s].pc = "emit" /\ threads'[s].pc = "loop"
                 /\ \E who \in People \cup {None} : Post("result", FrameOf(s), who)
              \/ /\ UNCHANGED <<retained, died>> /\ threads'[s].tick = threads[s].tick
                 /\ threads[s].pc = "ending" /\ threads'[s].pc = "gone"
                 /\ Post("ended", FrameOf(s), None)
<1>m. ASSUME NEW from, NEW to, Moves(s, from, to)
      PROVE  /\ gui.doing # "closed"
             /\ UNCHANGED <<current, identities, face, buttons, overlay, gui, saved, overlapped>>
  BY <1>m DEF Moves, screen
<1>1. CASE Leave(s)
  BY <1>1, <1>m, ThreadMoves DEF Leave
<1>2. CASE Ask(s)
  BY <1>2, <1>m, ThreadMoves DEF Ask
<1>3. CASE AskFails(s)
  <2>1. CASE threads[s].stop
    <3>1. Moves(s, "asked", "ending") /\ UNCHANGED <<retained, queue, died>>
      BY <1>3, <2>1 DEF AskFails
    <3> QED
      BY <1>m, <2>1, <3>1, ThreadMoves
  <2>2. CASE ~ threads[s].stop
    <3>1. Moves(s, "asked", "loop") /\ UNCHANGED <<retained, queue, died>>
      BY <1>3, <2>2 DEF AskFails
    <3> QED
      BY <1>m, <2>2, <3>1, ThreadMoves
  <2> QED
    BY <2>1, <2>2
<1>4. CASE Dies(s)
  BY <1>4, <1>m, ThreadMoves DEF Dies
<1>5. CASE Answer(s)
  <2>1. CASE threads[s].stop
    <3>1. Moves(s, "asked", "ending") /\ UNCHANGED <<retained, queue, died>>
      BY <1>5, <2>1 DEF Answer
    <3> QED
      BY <1>m, <2>1, <3>1, ThreadMoves
  <2>2. CASE ~ threads[s].stop
    <3>1. Moves(s, "asked", "answered") /\ UNCHANGED <<retained, queue, died>>
      BY <1>5, <2>2 DEF Answer
    <3> QED
      BY <1>m, <2>2, <3>1, ThreadMoves
  <2> QED
    BY <2>1, <2>2
<1>6. CASE Retain(s)
  BY <1>6, <1>m, ThreadMoves DEF Retain
<1>7. ASSUME NEW who \in People \cup {None}, Emit(s, who)
      PROVE  /\ threads' \in [Sessions -> Thread] /\ gui.doing # "closed"
             /\ \A t \in Sessions : t # s => threads'[t] = threads[t]
             /\ threads'[s].stop = threads[s].stop
             /\ UNCHANGED <<current, identities, face, buttons, overlay, gui, saved, overlapped>>
             /\ UNCHANGED <<retained, died>> /\ threads'[s].tick = threads[s].tick + 1
             /\ threads[s].pc = "emit" /\ threads'[s].pc = "loop"
             /\ Post("result", FrameOf(s), who)
  BY <1>7, ThreadGoesOn DEF Emit, screen, history
<1>8. CASE End(s)
  BY <1>8, <1>m, ThreadMoves DEF End
<1> QED
  BY <1>1, <1>2, <1>3, <1>4, <1>5, <1>6, <1>7, <1>8 DEF ThreadStep

-----------------------------------------------------------------------------
(* Types.                                                                   *)

LEMMA TypeInit == Init => TypeInv
<1> SUFFICES ASSUME Init PROVE TypeInv
  OBVIOUS
<1>1. queue \in Seq(Signal)
  BY EmptySeq DEF Init
<1>2. TypeOK
  BY <1>1, BoundsAssumption DEF Init, TypeOK, NoThread, Thread, IdleGui
<1>3. StepsHold
  BY DEF Init, StepsHold, NoThread, IdleGui
<1> QED
  BY <1>2, <1>3 DEF TypeInv

LEMMA FrameTyped ==
    ASSUME TypeInv, NEW s \in Sessions
    PROVE  FrameOf(s) \in Frames /\ FrameOf(s)[1] = s /\ FrameOf(s)[2] = threads[s].tick
<1>1. threads[s].tick \in 0..MaxTicks
  BY DEF TypeInv, TypeOK, Thread
<1> QED
  BY <1>1 DEF FrameOf, Frames

LEMMA ThreadTypeStep ==
    ASSUME TypeInv, NEW s \in Sessions, ThreadStep(s) PROVE TypeInv'
<1>1. threads' \in [Sessions -> Thread]
      /\ UNCHANGED <<current, identities, face, buttons, overlay, gui, saved, overlapped>>
      /\ \A t \in Sessions : t # s => threads'[t] = threads[t]
  BY ThreadSteps
<1>2. queue \in Seq(Signal) /\ retained \in Frames \cup {None} /\ died \subseteq Sessions
  BY DEF TypeInv, TypeOK
<1>3. retained' \in Frames \cup {None}
  BY <1>2, ThreadSteps, FrameTyped
<1>4. died' \subseteq Sessions
  BY <1>2, ThreadSteps
<1>5. queue' \in Seq(Signal)
  <2>1. ASSUME NEW kind \in {"result", "ended"}, NEW who \in People \cup {None},
               Post(kind, FrameOf(s), who)
        PROVE  queue' \in Seq(Signal)
    BY <2>1, FrameTyped, SignalIsPosted
  <2> QED
    BY <1>2, <2>1, ThreadSteps
<1>6. threads'[s].pc \in {"asked", "answered", "emit"} => threads'[s].tick < MaxTicks
  BY ThreadSteps DEF TypeInv, StepsHold
<1>7. StepsHold'
  BY <1>1, <1>6 DEF TypeInv, StepsHold
<1>8. TypeOK'
  BY <1>1, <1>3, <1>4, <1>5 DEF TypeInv, TypeOK
<1> QED
  BY <1>7, <1>8 DEF TypeInv


GuiState == [doing : {"idle", "starting", "stopping", "closing", "closed", "menu"},
             joins : {0} \cup Sessions, offered : Face \cup {None}, moved : BOOLEAN]

LEMMA GuiMoves ==
    ASSUME NEW joins \in {0} \cup Sessions, NEW offered \in Face \cup {None},
           NEW doing \in {"idle", "starting", "stopping", "closing", "closed", "menu"}
    PROVE  /\ IdleGui \in GuiState /\ IdleGui.doing = "idle" /\ IdleGui.joins = 0
           /\ ~ IdleGui.moved
           /\ [IdleGui EXCEPT !.doing = doing, !.joins = joins] \in GuiState
           /\ [IdleGui EXCEPT !.doing = doing, !.joins = joins].doing = doing
           /\ [IdleGui EXCEPT !.doing = doing, !.joins = joins].joins = joins
           /\ [IdleGui EXCEPT !.doing = doing, !.offered = offered] \in GuiState
           /\ [IdleGui EXCEPT !.doing = doing, !.offered = offered].doing = doing
           /\ [IdleGui EXCEPT !.doing = doing, !.offered = offered].joins = 0
           /\ [IdleGui EXCEPT !.doing = doing, !.offered = offered].offered = offered
           /\ [IdleGui EXCEPT !.doing = doing] \in GuiState
           /\ [IdleGui EXCEPT !.doing = doing].doing = doing
           /\ [IdleGui EXCEPT !.doing = doing].joins = 0
  BY DEF IdleGui, GuiState

\* Starting, stopping and closing, as the state they leave.
LEMMA ClickSteps ==
    ASSUME TypeInv
    PROVE  /\ ClickStart \/ ClickStop \/ CloseWindow =>
                 /\ RaiseFlag /\ gui' \in GuiState /\ gui.doing = "idle" /\ gui'.joins = current
                 /\ UNCHANGED <<retained, queue, buttons, saved, overlapped, died>>
                 /\ \/ /\ gui'.doing = "starting" /\ identities' = None /\ face' = None
                       /\ overlay' = [shown |-> TRUE, hit |-> FALSE]
                    \/ /\ gui'.doing \in {"stopping", "closing"}
                       /\ UNCHANGED <<identities, face, overlay>>
           /\ Stopped \/ Closed =>
                 /\ gui' \in GuiState /\ gui'.joins = 0 /\ Joined
                 /\ UNCHANGED <<threads, current, retained, queue, identities, face, saved,
                                overlapped, died>>
                 /\ overlay' = [shown |-> FALSE, hit |-> FALSE]
                 /\ \/ /\ gui.doing = "stopping" /\ gui'.doing = "idle"
                       /\ buttons' = [start |-> TRUE, stop |-> FALSE]
                    \/ /\ gui.doing = "closing" /\ gui'.doing = "closed" /\ UNCHANGED buttons
<1>1. current \in {0} \cup Sessions
  BY DEF TypeInv, TypeOK
<1>2. ASSUME NEW doing \in {"starting", "stopping", "closing"}, Waits(doing)
      PROVE  gui' \in GuiState /\ gui'.doing = doing /\ gui'.joins = current
  BY <1>1, <1>2 DEF Waits, IdleGui, GuiState
<1>3. CASE ClickStart
  BY <1>2, <1>3 DEF ClickStart, Stopped, Closed, StopFirst, Forget, history
<1>4. CASE ClickStop
  BY <1>2, <1>4 DEF ClickStop, Stopped, Closed, history, screen
<1>5. CASE CloseWindow
  BY <1>2, <1>5 DEF CloseWindow, Stopped, Closed, history, screen
<1>6. CASE Stopped
  <2>1. gui'.doing = "idle" /\ gui'.joins = 0 /\ gui' \in GuiState
    BY <1>1, <1>6, GuiMoves DEF Stopped
  <2> QED
    BY <1>6, <2>1 DEF ClickStart, ClickStop, CloseWindow, Stopped, Finish, history
<1>7. CASE Closed
  <2>1. gui'.doing = "closed" /\ gui'.joins = 0 /\ gui' \in GuiState
    BY <1>1, <1>7, GuiMoves DEF Closed
  <2> QED
    BY <1>7, <2>1 DEF ClickStart, ClickStop, CloseWindow, Closed, history
<1> QED
  BY <1>3, <1>4, <1>5, <1>6, <1>7

LEMMA SessionStarts ==
    ASSUME TypeInv, StartThread
    PROVE  \E s \in Sessions :
              /\ threads[s].pc = "none" /\ threads'[s].pc = "loop" /\ current' = s
              /\ threads' \in [Sessions -> Thread]
              /\ threads'[s].tick = threads[s].tick
              /\ \A t \in Sessions : t # s => threads'[t] = threads[t]
              /\ overlapped' = IF \E t \in Started : Unheard(t) THEN overlapped \cup {s}
                               ELSE overlapped
              /\ retained' = None /\ buttons' = [start |-> FALSE, stop |-> TRUE]
              /\ gui' \in GuiState /\ gui'.doing = "idle" /\ gui'.joins = 0
              /\ gui.doing = "starting" /\ Joined
              /\ UNCHANGED <<queue, identities, face, overlay, saved, died>>
<1>1. PICK s \in Sessions \ Started :
          /\ threads' = [threads EXCEPT ![s].pc = "loop"] /\ current' = s
          /\ overlapped' = IF \E t \in Started : Unheard(t) THEN overlapped \cup {s}
                           ELSE overlapped
  BY DEF StartThread
<1> DEFINE u == [threads[s] EXCEPT !.pc = "loop"]
<1>2. threads[s].pc = "none" /\ threads \in [Sessions -> Thread] /\ threads[s] \in Thread
  BY DEF Started, TypeInv, TypeOK
<1>3. u \in Thread /\ u.pc = "loop" /\ u.tick = threads[s].tick
  BY <1>2 DEF Thread
<1>4. threads' = [threads EXCEPT ![s] = u]
  BY <1>1, <1>2
<1> HIDE DEF u
<1>5. /\ threads' \in [Sessions -> Thread] /\ threads'[s] = u
      /\ \A t \in Sessions : t # s => threads'[t] = threads[t]
  BY <1>2, <1>3, <1>4
<1>6. /\ gui.doing = "starting" /\ Joined /\ gui' = IdleGui
      /\ retained' = None /\ buttons' = [start |-> FALSE, stop |-> TRUE]
      /\ UNCHANGED <<queue, identities, face, overlay, saved, died>>
  BY DEF StartThread
<1>7. gui' \in GuiState /\ gui'.doing = "idle" /\ gui'.joins = 0
  BY <1>6, GuiMoves
<1> QED
  BY <1>1, <1>2, <1>3, <1>5, <1>6, <1>7

\* What handling a signal shows.
LEMMA SignalSteps ==
    ASSUME TypeInv, OnIdentified \/ OnBoxes \/ OnEnded
    PROVE  /\ Handling /\ gui' \in GuiState
           /\ \/ /\ Signalled.kind = "result" /\ Identifies(Signalled.frame[2])
                 /\ identities'.frame = Signalled.frame /\ identities'.who = Signalled.who
                 /\ identities' \in [frame : Frames, who : People \cup {None}]
                 /\ face' \in {None, identities'} /\ (face' # None => identities'.who # None)
                 /\ overlay'.shown = overlay.shown /\ overlay' \in [shown : BOOLEAN, hit : BOOLEAN]
                 /\ UNCHANGED buttons
              \/ /\ Signalled.kind = "result" /\ ~ Identifies(Signalled.frame[2])
                 /\ face' = None \/ (face' = identities /\ identities # None /\ identities.who # None)
                 /\ overlay'.shown = overlay.shown /\ overlay' \in [shown : BOOLEAN, hit : BOOLEAN]
                 /\ UNCHANGED <<identities, buttons>>
              \/ /\ Signalled.kind = "ended" /\ UNCHANGED <<identities, face>>
                 /\ overlay' = [shown |-> FALSE, hit |-> FALSE]
                 /\ buttons' = [start |-> TRUE, stop |-> FALSE]
<1>1. Handling
  BY DEF OnIdentified, OnBoxes, OnEnded
<1>2. gui' = [gui EXCEPT !.moved = gui.doing = "menu"]
  BY <1>1 DEF Handling
<1>3. gui' \in GuiState
  BY <1>2 DEF TypeInv, TypeOK, GuiState
<1>4. overlay \in [shown : BOOLEAN, hit : BOOLEAN] /\ Signalled \in Signal
  BY <1>1, SignalIsTaken DEF TypeInv, TypeOK
<1>5. ASSUME NEW hit \in BOOLEAN, overlay' = [overlay EXCEPT !.hit = hit]
      PROVE  overlay'.shown = overlay.shown /\ overlay' \in [shown : BOOLEAN, hit : BOOLEAN]
  BY <1>4, <1>5
<1>6. CASE OnIdentified
  <2>1. /\ identities' = [frame |-> Signalled.frame, who |-> Signalled.who]
        /\ face' = IF Signalled.who = None THEN None ELSE identities'
        /\ overlay' = [overlay EXCEPT !.hit = Signalled.who # None]
        /\ Signalled.kind = "result" /\ Identifies(Signalled.frame[2]) /\ UNCHANGED buttons
    BY <1>6 DEF OnIdentified
  <2>2. identities'.frame = Signalled.frame /\ identities'.who = Signalled.who
        /\ identities' \in [frame : Frames, who : People \cup {None}]
    BY <1>4, <2>1 DEF Signal
  <2>3. face' \in {None, identities'} /\ (face' # None => identities'.who # None)
    BY <2>1, <2>2
  <2>4. overlay'.shown = overlay.shown /\ overlay' \in [shown : BOOLEAN, hit : BOOLEAN]
    BY <1>5, <2>1
  <2> QED
    BY <1>1, <1>3, <2>1, <2>2, <2>3, <2>4
<1>7. CASE OnBoxes
  <2>1. /\ overlay' = [overlay EXCEPT !.hit = Signalled.who # None]
        /\ Signalled.kind = "result" /\ ~ Identifies(Signalled.frame[2])
        /\ UNCHANGED <<identities, buttons>>
        /\ face' = None \/ (face' = identities /\ identities # None /\ identities.who # None)
    BY <1>7 DEF OnBoxes
  <2>2. overlay'.shown = overlay.shown /\ overlay' \in [shown : BOOLEAN, hit : BOOLEAN]
    BY <1>5, <2>1
  <2> QED
    BY <1>1, <1>3, <2>1, <2>2
<1>8. CASE OnEnded
  BY <1>1, <1>3, <1>8 DEF OnEnded, Finish
<1> QED
  BY <1>6, <1>7, <1>8

\* Saving, and opening and leaving the menu.
LEMMA SaveSteps ==
    ASSUME TypeInv, ClickRow \/ OpenMenu \/ PickSave \/ LeaveMenu
    PROVE  /\ gui' \in GuiState /\ gui.doing \in {"idle", "menu"} /\ gui'.doing \in {"idle", "menu"}
           /\ UNCHANGED <<threads, current, retained, queue, identities, face, buttons, overlay,
                          overlapped, died>>
           /\ \/ UNCHANGED <<gui, saved>>
              \/ gui' = IdleGui /\ UNCHANGED saved
              \/ /\ gui'.doing = "menu" /\ gui'.offered = face /\ gui'.joins = 0
                 /\ face \in Face /\ UNCHANGED saved
              \/ /\ Savable /\ gui \in GuiState /\ gui.doing = "idle" /\ UNCHANGED gui
                 /\ saved' = [bytes |-> retained, face |-> face, offered |-> face,
                              ahead |-> Ahead, moved |-> FALSE]
              \/ /\ Savable /\ gui \in GuiState /\ gui.doing = "menu" /\ gui' = IdleGui
                 /\ saved' = [bytes |-> retained, face |-> face, offered |-> gui.offered,
                              ahead |-> Ahead, moved |-> gui.moved]
<1>1. gui \in GuiState
  BY DEF TypeInv, TypeOK, GuiState
<1>2. IdleGui \in GuiState /\ IdleGui.doing = "idle"
  BY GuiMoves
<1>3. face \in Face \cup {None}
  BY DEF TypeInv, TypeOK
<1>4. CASE ClickRow
  BY <1>1, <1>4 DEF ClickRow, Save, screen
<1>5. CASE OpenMenu
  <2>1. face \in Face
    BY <1>3, <1>5 DEF OpenMenu, Savable
  <2>2. gui' \in GuiState /\ gui'.doing = "menu" /\ gui'.offered = face /\ gui'.joins = 0
    BY <1>5, <2>1, GuiMoves DEF OpenMenu
  <2> QED
    BY <1>5, <2>1, <2>2 DEF OpenMenu, screen, history
<1>6. CASE PickSave
  BY <1>1, <1>2, <1>6 DEF PickSave, Save, screen
<1>7. CASE LeaveMenu
  BY <1>2, <1>7 DEF LeaveMenu, screen, history
<1> QED
  BY <1>4, <1>5, <1>6, <1>7


LEMMA TypeStep == TypeInv /\ [Next]_vars => TypeInv'
<1> SUFFICES ASSUME TypeInv, [Next]_vars PROVE TypeInv'
  OBVIOUS
<1>0. /\ threads \in [Sessions -> Thread] /\ current \in {0} \cup Sessions
      /\ retained \in Frames \cup {None} /\ queue \in Seq(Signal)
      /\ identities \in [frame : Frames, who : People \cup {None}] \cup {None}
      /\ face \in Face \cup {None} /\ (face # None => identities # None /\ face = identities)
      /\ buttons \in [start : BOOLEAN, stop : BOOLEAN]
      /\ overlay \in [shown : BOOLEAN, hit : BOOLEAN] /\ gui \in GuiState
      /\ saved \in [bytes : Frames, face : Face, offered : Face, ahead : BOOLEAN,
                    moved : BOOLEAN] \cup {None}
      /\ overlapped \subseteq Sessions /\ died \subseteq Sessions /\ StepsHold
  BY DEF TypeInv, TypeOK, GuiState
<1>b. /\ [shown |-> TRUE, hit |-> FALSE] \in [shown : BOOLEAN, hit : BOOLEAN]
      /\ [shown |-> FALSE, hit |-> FALSE] \in [shown : BOOLEAN, hit : BOOLEAN]
      /\ [start |-> TRUE, stop |-> FALSE] \in [start : BOOLEAN, stop : BOOLEAN]
  OBVIOUS
<1>1. ASSUME NEW s \in Sessions, ThreadStep(s) PROVE TypeInv'
  BY <1>1, ThreadTypeStep
<1>2. CASE ClickStart \/ ClickStop \/ CloseWindow
  <2>1. /\ RaiseFlag /\ gui' \in GuiState /\ gui'.doing # "menu"
        /\ UNCHANGED <<retained, queue, buttons, saved, overlapped, died>>
        /\ overlay' \in [shown : BOOLEAN, hit : BOOLEAN]
        /\ \/ identities' = None /\ face' = None
           \/ UNCHANGED <<identities, face>>
    BY <1>0, <1>b, <1>2, ClickSteps
  <2>2. /\ threads' \in [Sessions -> Thread] /\ current' = 0
        /\ \A t \in Sessions : threads'[t].pc = threads[t].pc /\ threads'[t].tick = threads[t].tick
    BY <2>1, FlagIsRaised
  <2>3. StepsHold'
    BY <1>0, <2>1, <2>2 DEF StepsHold
  <2>4. TypeOK'
    BY <1>0, <2>1, <2>2 DEF TypeOK, GuiState
  <2> QED
    BY <2>3, <2>4 DEF TypeInv
<1>3. CASE Stopped \/ Closed
  <2>1. /\ gui' \in GuiState /\ gui'.doing # "menu"
        /\ buttons' \in [start : BOOLEAN, stop : BOOLEAN]
        /\ overlay' \in [shown : BOOLEAN, hit : BOOLEAN]
        /\ UNCHANGED <<threads, current, retained, queue, identities, face, saved,
                       overlapped, died>>
    BY <1>0, <1>b, <1>3, ClickSteps
  <2> QED
    BY <1>0, <2>1 DEF TypeInv, TypeOK, StepsHold, GuiState
<1>4. CASE StartThread
  <2>1. PICK s \in Sessions :
            /\ threads'[s].pc = "loop" /\ current' = s /\ threads' \in [Sessions -> Thread]
            /\ \A t \in Sessions : t # s => threads'[t] = threads[t]
            /\ overlapped' \subseteq Sessions
            /\ retained' = None /\ buttons' = [start |-> FALSE, stop |-> TRUE]
            /\ gui' \in GuiState /\ gui'.doing = "idle"
            /\ UNCHANGED <<queue, identities, face, overlay, saved, died>>
    BY <1>0, <1>4, SessionStarts
  <2>2. StepsHold'
    BY <1>0, <2>1 DEF StepsHold
  <2>3. TypeOK'
    BY <1>0, <2>1 DEF TypeOK, GuiState
  <2> QED
    BY <2>2, <2>3 DEF TypeInv
<1>5. CASE OnIdentified \/ OnBoxes \/ OnEnded
  <2>1. /\ UNCHANGED <<threads, current, retained, saved, overlapped, died>>
        /\ queue' \in Seq(Signal) /\ gui'.doing = gui.doing /\ gui'.offered = gui.offered
    BY <1>5, SignalSteps, SignalIsTaken
  <2>2. gui' \in GuiState
    BY <1>5, SignalSteps
  <2>3. buttons' \in [start : BOOLEAN, stop : BOOLEAN]
        /\ overlay' \in [shown : BOOLEAN, hit : BOOLEAN]
    BY <1>0, <1>b, <1>5, SignalSteps
  <2>4. /\ identities' \in [frame : Frames, who : People \cup {None}] \cup {None}
        /\ face' # None => identities' # None /\ face' = identities' /\ identities'.who # None
    <3>1. face # None => identities.who # None
      BY <1>0, NoneAssumption DEF Face
    <3> QED
      BY <1>0, <1>5, <3>1, SignalSteps
  <2>5. face' \in Face \cup {None}
    BY <2>4 DEF Face
  <2>6. StepsHold'
    BY <1>0, <2>1 DEF StepsHold
  <2>7. TypeOK'
    BY <1>0, <2>1, <2>2, <2>3, <2>4, <2>5 DEF TypeOK, GuiState
  <2> QED
    BY <2>6, <2>7 DEF TypeInv
<1>6. CASE ClickRow \/ OpenMenu \/ PickSave \/ LeaveMenu
  <2>1. /\ gui' \in GuiState
        /\ UNCHANGED <<threads, current, retained, queue, identities, face, buttons, overlay,
                       overlapped, died>>
    BY <1>6, SaveSteps
  <2>2. Ahead \in BOOLEAN
    BY DEF Ahead
  <2>3. Savable => retained \in Frames /\ face \in Face
    BY <1>0 DEF Savable
  <2>4. saved' \in [bytes : Frames, face : Face, offered : Face, ahead : BOOLEAN,
                    moved : BOOLEAN] \cup {None}
    <3>1. CASE UNCHANGED saved
      BY <1>0, <3>1
    <3>2. ASSUME NEW offered \in Face, NEW moved \in BOOLEAN, Savable,
                 saved' = [bytes |-> retained, face |-> face, offered |-> offered,
                           ahead |-> Ahead, moved |-> moved]
          PROVE  saved' \in [bytes : Frames, face : Face, offered : Face, ahead : BOOLEAN,
                             moved : BOOLEAN]
      BY <2>2, <2>3, <3>2
    <3>3. gui.moved \in BOOLEAN /\ (gui.doing = "menu" => gui.offered \in Face)
      BY <1>0 DEF GuiState, StepsHold
    <3> QED
      BY <1>6, <2>3, <3>1, <3>2, <3>3, SaveSteps
  <2>5. gui'.doing = "menu" => gui'.offered \in Face
    <3>1. IdleGui.doing = "idle"
      BY DEF IdleGui
    <3> QED
      BY <1>0, <1>6, <3>1, SaveSteps DEF StepsHold
  <2>6. TypeOK'
    BY <1>0, <2>1, <2>4 DEF TypeOK, GuiState
  <2> QED
    BY <1>0, <2>1, <2>5, <2>6 DEF TypeInv, StepsHold
<1>7. CASE UNCHANGED vars
  BY <1>7 DEF vars, screen, history, TypeInv, TypeOK, StepsHold
<1> QED
  BY <1>1, <1>2, <1>3, <1>4, <1>5, <1>6, <1>7 DEF Next

(* Every variable keeps its type; the face behind the box shown is always one of the *)
(* last identify result's (panel.py:394-452).                                        *)
THEOREM TypeCorrectness == Spec => []TypeOK
<1>1. Spec => []TypeInv
  BY TypeInit, TypeStep, PTL DEF Spec
<1>2. TypeInv => TypeOK
  BY DEF TypeInv
<1> QED
  BY <1>1, <1>2, PTL


-----------------------------------------------------------------------------
(* The threads.                                                             *)

LEMMA ThreadsStep == TypeInv /\ ThreadsInv /\ [Next]_vars => ThreadsInv'
<1> SUFFICES ASSUME TypeInv, ThreadsInv, [Next]_vars PROVE ThreadsInv'
  OBVIOUS
<1>0. /\ current \in {0} \cup Sessions /\ gui \in GuiState /\ gui.joins \in {0} \cup Sessions
      /\ 0 \notin Sessions
  BY DEF TypeInv, TypeOK, GuiState, Sessions
<1>1. ASSUME NEW s \in Sessions, ThreadStep(s) PROVE ThreadsInv'
  <2>1. /\ \A t \in Sessions : t # s => threads'[t] = threads[t]
        /\ threads'[s].stop = threads[s].stop /\ UNCHANGED <<current, gui>>
    BY <1>1, ThreadSteps
  <2>2. s \notin {current, gui.joins} =>
            threads'[s].pc \in {"ending", "gone"}
    BY <1>1, ThreadSteps DEF ThreadsInv
  <2>3. \A t \in Sessions \ {current, gui.joins} :
            /\ threads'[t].pc \in {"none", "asked", "ending", "gone"}
            /\ threads'[t].pc = "asked" => threads'[t].stop
    BY <2>1, <2>2 DEF ThreadsInv
  <2>4. gui.joins # 0 => threads'[gui.joins].stop
    BY <1>0, <2>1 DEF ThreadsInv
  <2> QED
    BY <2>1, <2>3, <2>4 DEF ThreadsInv
<1>2. CASE ClickStart \/ ClickStop \/ CloseWindow
  <2>1. RaiseFlag /\ gui.doing = "idle" /\ gui'.joins = current
        /\ gui'.doing \in {"starting", "stopping", "closing"}
    BY <1>2, ClickSteps
  <2>2. /\ current' = 0 /\ (current # 0 => threads'[current].stop)
        /\ \A t \in Sessions \ {current} : threads'[t] = threads[t]
    BY <2>1, FlagIsRaised
  <2> QED
    BY <2>1, <2>2 DEF ThreadsInv
<1>3. CASE Stopped \/ Closed
  <2>1. /\ gui'.joins = 0 /\ Joined /\ UNCHANGED <<threads, current>>
        /\ gui.doing \in {"stopping", "closing"} /\ gui'.doing \in {"idle", "closed"}
    BY <1>3, ClickSteps
  <2>2. \A t \in Sessions \ {0} : /\ threads[t].pc \in {"none", "asked", "ending", "gone"}
                                  /\ threads[t].pc = "asked" => threads[t].stop
    BY <1>0, <2>1 DEF ThreadsInv, Joined
  <2> QED
    BY <2>1, <2>2 DEF ThreadsInv
<1>4. CASE StartThread
  <2>1. PICK s \in Sessions :
            /\ current' = s /\ \A t \in Sessions : t # s => threads'[t] = threads[t]
            /\ gui'.doing = "idle" /\ gui'.joins = 0 /\ gui.doing = "starting" /\ Joined
    BY <1>4, SessionStarts
  <2>2. \A t \in Sessions \ {0} : /\ threads[t].pc \in {"none", "asked", "ending", "gone"}
                                  /\ threads[t].pc = "asked" => threads[t].stop
    BY <1>0, <2>1 DEF ThreadsInv, Joined
  <2> QED
    BY <1>0, <2>1, <2>2 DEF ThreadsInv
<1>5. CASE OnIdentified \/ OnBoxes \/ OnEnded
  <2>1. UNCHANGED <<threads, current>> /\ gui'.doing = gui.doing /\ gui'.joins = gui.joins
    BY <1>5, SignalSteps, SignalIsTaken
  <2> QED
    BY <2>1 DEF ThreadsInv
<1>6. CASE ClickRow \/ OpenMenu \/ PickSave \/ LeaveMenu
  <2>1. UNCHANGED <<threads, current>> /\ gui'.joins = 0 /\ gui.joins = 0
        /\ gui.doing \in {"idle", "menu"} /\ gui'.doing \in {"idle", "menu"}
    <3>1. IdleGui.joins = 0
      BY DEF IdleGui
    <3>2. gui.doing \in {"idle", "menu"} => gui.joins = 0
      BY DEF ThreadsInv
    <3> QED
      BY <1>6, <3>1, <3>2, SaveSteps
  <2> QED
    BY <2>1 DEF ThreadsInv
<1>7. CASE UNCHANGED vars
  BY <1>7 DEF vars, ThreadsInv
<1> QED
  BY <1>1, <1>2, <1>3, <1>4, <1>5, <1>6, <1>7 DEF Next

\* Only one thread ever has an answer in hand: the current one, or the one waited for.
LEMMA OneAnswers ==
    ASSUME TypeInv, ThreadsInv, NEW s \in Sessions, NEW t \in Sessions,
           threads[s].pc \in {"answered", "emit"}, threads[t].pc \in {"answered", "emit"}
    PROVE  s = t
<1>1. s \in {current, gui.joins} /\ t \in {current, gui.joins} /\ 0 \notin Sessions
  BY DEF ThreadsInv, Sessions
<1>2. current = 0 \/ gui.joins = 0
  BY DEF ThreadsInv, TypeInv, TypeOK
<1> QED
  BY <1>1, <1>2

-----------------------------------------------------------------------------
(* Saving.                                                                  *)

\* A result posted by the one thread that has an answer is the retained frame's, or does
\* not identify anybody.
LEMMA PostedResult ==
    ASSUME TypeInv, ThreadsInv, RetainedInv, NEW s \in Sessions, NEW who \in People \cup {None},
           threads[s].pc = "emit", Post("result", FrameOf(s), who),
           UNCHANGED <<retained, identities>>, retained # None
    PROVE  Pending' \/ Settled'
<1>1. /\ queue' \in Seq(Signal) /\ Len(queue') = Len(queue) + 1
      /\ DOMAIN queue' = 1..(Len(queue) + 1) /\ DOMAIN queue = 1..Len(queue)
      /\ Len(queue) \in Nat
      /\ \A i \in DOMAIN queue : queue'[i] = queue[i]
      /\ queue'[Len(queue) + 1].kind = "result" /\ queue'[Len(queue) + 1].frame = FrameOf(s)
  BY FrameTyped, SignalIsPosted
<1>2. CASE FrameOf(s) = retained
  <2>1. Len(queue) + 1 \in DOMAIN queue'
        /\ \A j \in DOMAIN queue' : ~ (j > Len(queue) + 1)
    BY <1>1
  <2> QED
    BY <1>1, <1>2, <2>1 DEF Pending
<1>3. CASE FrameOf(s) # retained
  <2>1. ~ Identifies(FrameOf(s)[2])
    BY <1>3, FrameTyped DEF RetainedInv
  <2>2. ~ Emitting
    BY <1>3, OneAnswers DEF Emitting
  <2>3. CASE Pending
    <3>1. PICK i \in DOMAIN queue :
              /\ queue[i].kind = "result" /\ queue[i].frame = retained
              /\ \A j \in DOMAIN queue : j > i => ~ IdentifyResult(j)
      BY <2>3 DEF Pending
    <3>2. i \in DOMAIN queue' /\ queue'[i].kind = "result" /\ queue'[i].frame = retained
      BY <1>1, <3>1
    <3>3. \A j \in DOMAIN queue' : j > i =>
              ~ (queue'[j].kind = "result" /\ Identifies(queue'[j].frame[2]))
      BY <1>1, <2>1, <3>1 DEF IdentifyResult
    <3> QED
      BY <3>2, <3>3 DEF Pending, IdentifyResult
  <2>4. CASE Settled
    <3>1. \A j \in DOMAIN queue' :
              ~ (queue'[j].kind = "result" /\ Identifies(queue'[j].frame[2]))
      BY <1>1, <2>1, <2>4 DEF Settled, IdentifyResult
    <3> QED
      BY <2>4, <3>1 DEF Settled, IdentifyResult
  <2> QED
    BY <2>2, <2>3, <2>4 DEF RetainedInv
<1> QED
  BY <1>2, <1>3

\* A posted end is no result.
LEMMA PostedEnd ==
    ASSUME TypeInv, NEW s \in Sessions, Post("ended", FrameOf(s), None),
           UNCHANGED <<retained, identities>>
    PROVE  (Pending => Pending') /\ (Settled => Settled')
<1>1. /\ queue' \in Seq(Signal) /\ Len(queue') = Len(queue) + 1
      /\ DOMAIN queue' = 1..(Len(queue) + 1) /\ DOMAIN queue = 1..Len(queue)
      /\ Len(queue) \in Nat
      /\ \A i \in DOMAIN queue : queue'[i] = queue[i]
      /\ queue'[Len(queue) + 1].kind = "ended"
  BY FrameTyped, SignalIsPosted
<1>2. ASSUME NEW j \in DOMAIN queue', queue'[j].kind = "result"
      PROVE  j \in DOMAIN queue /\ queue'[j] = queue[j]
  BY <1>1, <1>2
<1>3. Pending => Pending'
  BY <1>1, <1>2 DEF Pending, IdentifyResult
<1>4. Settled => Settled'
  BY <1>2 DEF Settled, IdentifyResult
<1> QED
  BY <1>3, <1>4

\* A signal taken off the queue settles the retained frame, or leaves it where it was.
LEMMA TakenSignal ==
    ASSUME TypeInv, OnIdentified \/ OnBoxes \/ OnEnded, Identifies(retained[2])
    PROVE  (Pending => Pending' \/ Settled') /\ (Settled => Settled')
<1>1. /\ Signalled = queue[1] /\ Len(queue) \in Nat /\ Len(queue) > 0
      /\ Len(queue') = Len(queue) - 1
      /\ DOMAIN queue = 1..Len(queue) /\ DOMAIN queue' = 1..Len(queue')
      /\ \A i \in DOMAIN queue' : queue'[i] = queue[i + 1]
      /\ UNCHANGED retained
  BY SignalSteps, SignalIsTaken
<1>2. ~ IdentifyResult(1) => UNCHANGED identities
  BY <1>1, SignalSteps DEF IdentifyResult
<1>3. IdentifyResult(1) => identities'.frame = queue[1].frame
  BY <1>1, SignalSteps DEF IdentifyResult
<1>4. 1 \in DOMAIN queue /\ \A j \in DOMAIN queue' : j + 1 \in DOMAIN queue /\ j + 1 > 1
  BY <1>1
<1>5. ASSUME Settled PROVE Settled'
  <2>1. ~ IdentifyResult(1)
    BY <1>4, <1>5 DEF Settled
  <2>2. \A j \in DOMAIN queue' : ~ IdentifyResult(j + 1)
    BY <1>4, <1>5 DEF Settled
  <2> QED
    BY <1>1, <1>2, <1>5, <2>1, <2>2 DEF Settled, IdentifyResult
<1>6. ASSUME Pending PROVE Pending' \/ Settled'
  <2>1. PICK i \in DOMAIN queue :
            /\ queue[i].kind = "result" /\ queue[i].frame = retained
            /\ \A j \in DOMAIN queue : j > i => ~ IdentifyResult(j)
    BY <1>6 DEF Pending
  <2>2. CASE i = 1
    <3>1. \A j \in DOMAIN queue' : ~ IdentifyResult(j + 1)
      BY <1>4, <2>1, <2>2
    <3>2. IdentifyResult(1)
      BY <2>1, <2>2 DEF IdentifyResult
    <3> QED
      BY <1>1, <1>3, <2>1, <2>2, <3>1, <3>2 DEF Settled, IdentifyResult
  <2>3. CASE i # 1
    <3>1. i - 1 \in DOMAIN queue' /\ queue'[i - 1] = queue[i]
      BY <1>1, <2>3
    <3>2. \A j \in DOMAIN queue' : j > i - 1 => ~ IdentifyResult(j + 1)
      BY <1>1, <1>4, <2>1
    <3> QED
      BY <1>1, <2>1, <3>1, <3>2 DEF Pending, IdentifyResult
  <2> QED
    BY <2>2, <2>3
<1> QED
  BY <1>5, <1>6


LEMMA RetainedStep == TypeInv /\ ThreadsInv /\ RetainedInv /\ [Next]_vars => RetainedInv'
<1> SUFFICES ASSUME TypeInv, ThreadsInv, RetainedInv, [Next]_vars PROVE RetainedInv'
  OBVIOUS
<1>0. threads \in [Sessions -> Thread]
  BY DEF TypeInv, TypeOK
\* A step that neither posts nor handles a signal, nor retains another frame.
<1>s. ASSUME \A t \in Sessions : threads'[t].pc = "emit" <=> threads[t].pc = "emit",
             \A t \in Sessions : threads[t].pc = "emit" => threads'[t].tick = threads[t].tick,
             UNCHANGED <<retained, queue>>, identities' \in {None, identities}
      PROVE  RetainedInv'
  <2>1. \A t \in Sessions : threads[t].pc = "emit" => FrameOf(t)' = FrameOf(t)
    BY <1>s DEF FrameOf
  <2>2. \A t \in Sessions : threads'[t].pc = "emit" /\ Identifies(threads'[t].tick) =>
            retained' = <<t, threads'[t].tick>>
    BY <1>s DEF RetainedInv, FrameOf
  <2>3. Emitting => Emitting'
    BY <1>s DEF Emitting, FrameOf
  <2>4. (Pending => Pending') /\ (Settled => Settled')
    BY <1>s DEF Pending, Settled, IdentifyResult
  <2> QED
    BY <1>s, <2>2, <2>3, <2>4 DEF RetainedInv, FrameOf
<1>1. ASSUME NEW s \in Sessions, ThreadStep(s) PROVE RetainedInv'
  <2>0. /\ \A t \in Sessions : t # s => threads'[t] = threads[t]
        /\ UNCHANGED identities
    BY <1>1, ThreadSteps
  <2>1. CASE /\ UNCHANGED <<retained, queue>> /\ threads'[s].tick = threads[s].tick
             /\ threads[s].pc \in {"loop", "asked"}
             /\ threads'[s].pc \in {"ending", "asked", "loop", "answered", "gone"}
    <3>1. \A t \in Sessions : /\ threads'[t].pc = "emit" <=> threads[t].pc = "emit"
                              /\ threads[t].pc = "emit" => threads'[t].tick = threads[t].tick
      BY <2>0, <2>1
    <3> QED
      BY <1>s, <2>0, <2>1, <3>1
  <2>2. CASE /\ UNCHANGED queue /\ threads'[s].tick = threads[s].tick
             /\ threads[s].pc = "answered" /\ threads'[s].pc = "emit"
             /\ retained' = IF Identifies(threads[s].tick) THEN FrameOf(s) ELSE retained
    <3>1. \A t \in Sessions : t # s => threads[t].pc # "emit" /\ threads'[t].pc # "emit"
      BY <2>0, <2>2, OneAnswers
    <3>2. CASE Identifies(threads[s].tick)
      <4>1. retained' = <<s, threads'[s].tick>>
        BY <2>2, <3>2 DEF FrameOf
      <4>2. Emitting' /\ Identifies(retained'[2])
        BY <2>2, <3>2, <4>1 DEF Emitting, FrameOf
      <4> QED
        BY <2>2, <3>1, <4>1, <4>2 DEF RetainedInv, FrameOf
    <3>3. CASE ~ Identifies(threads[s].tick)
      <4>1. retained' = retained /\ ~ Emitting
        BY <2>2, <3>1, <3>3 DEF Emitting
      <4>2. (Pending => Pending') /\ (Settled => Settled')
        BY <2>0, <2>2, <4>1 DEF Pending, Settled, IdentifyResult
      <4> QED
        BY <2>2, <3>1, <3>3, <4>1, <4>2 DEF RetainedInv
    <3> QED
      BY <3>2, <3>3
  <2>3. CASE /\ UNCHANGED retained /\ threads[s].pc = "emit" /\ threads'[s].pc = "loop"
             /\ \E who \in People \cup {None} : Post("result", FrameOf(s), who)
    <3>1. \A t \in Sessions : threads'[t].pc = "emit" => t # s /\ threads[t].pc = "emit"
      BY <2>0, <2>3
    <3>2. \A t \in Sessions : threads'[t].pc # "emit"
      BY <2>3, <3>1, OneAnswers
    <3>3. retained # None => Pending' \/ Settled'
      BY <2>0, <2>3, PostedResult
    <3> QED
      BY <2>3, <3>2, <3>3 DEF RetainedInv
  <2>4. CASE /\ UNCHANGED retained /\ threads[s].pc = "ending" /\ threads'[s].pc = "gone"
             /\ Post("ended", FrameOf(s), None)
    <3>1. (Pending => Pending') /\ (Settled => Settled')
      BY <2>0, <2>4, PostedEnd
    <3>2. \A t \in Sessions : threads'[t].pc = "emit" \/ threads[t].pc = "emit" =>
              threads'[t] = threads[t]
      BY <2>0, <2>4
    <3>3. Emitting => Emitting'
      BY <2>4, <3>2 DEF Emitting, FrameOf
    <3>4. \A t \in Sessions : threads'[t].pc = "emit" /\ Identifies(threads'[t].tick) =>
              retained' = <<t, threads'[t].tick>>
      BY <2>4, <3>2 DEF RetainedInv, FrameOf
    <3> QED
      BY <2>4, <3>1, <3>3, <3>4 DEF RetainedInv, FrameOf
  <2> QED
    BY <1>1, <2>1, <2>2, <2>3, <2>4, ThreadSteps
<1>2. CASE ClickStart \/ ClickStop \/ CloseWindow
  <2>1. RaiseFlag /\ UNCHANGED <<retained, queue>> /\ identities' \in {None, identities}
    BY <1>2, ClickSteps
  <2> QED
    BY <1>s, <2>1, FlagIsRaised
<1>3. CASE Stopped \/ Closed
  BY <1>3, <1>s, ClickSteps
<1>4. CASE StartThread
  <2>1. PICK s \in Sessions : threads'[s].pc = "loop" /\ current' = s
                              /\ retained' = None /\ gui'.joins = 0
    BY <1>4, SessionStarts
  <2>2. ThreadsInv'
    BY ThreadsStep
  <2>3. \A t \in Sessions : threads'[t].pc # "emit"
    BY <2>1, <2>2 DEF ThreadsInv, Sessions
  <2> QED
    BY <2>1, <2>3 DEF RetainedInv
<1>5. CASE OnIdentified \/ OnBoxes \/ OnEnded
  <2>1. UNCHANGED <<threads, retained>>
    BY <1>5, SignalSteps, SignalIsTaken
  <2>2. Emitting => Emitting'
    BY <2>1 DEF Emitting, FrameOf
  <2>3. retained # None => Identifies(retained[2]) /\ (Emitting' \/ Pending' \/ Settled')
    BY <1>5, <2>2, TakenSignal DEF RetainedInv
  <2> QED
    BY <2>1, <2>3 DEF RetainedInv, FrameOf
<1>6. CASE ClickRow \/ OpenMenu \/ PickSave \/ LeaveMenu
  BY <1>6, <1>s, SaveSteps
<1>7. CASE UNCHANGED vars
  BY <1>7, <1>s DEF vars
<1> QED
  BY <1>1, <1>2, <1>3, <1>4, <1>5, <1>6, <1>7 DEF Next

\* Only a signal handled under the menu takes the face it is about away.
LEMMA MenuStep == TypeInv /\ ThreadsInv /\ MenuInv /\ [Next]_vars => MenuInv'
<1> SUFFICES ASSUME TypeInv, ThreadsInv, MenuInv, [Next]_vars,
                    gui'.doing = "menu", ~ gui'.moved
             PROVE  face' = gui'.offered
  BY DEF MenuInv
<1>1. ASSUME NEW s \in Sessions, ThreadStep(s) PROVE face' = gui'.offered
  BY <1>1, ThreadSteps DEF MenuInv
<1>2. CASE ClickStart \/ ClickStop \/ CloseWindow
  BY <1>2, ClickSteps
<1>3. CASE Stopped \/ Closed
  BY <1>3, ClickSteps
<1>4. CASE StartThread
  BY <1>4, SessionStarts
<1>5. CASE OnIdentified \/ OnBoxes \/ OnEnded
  BY <1>5, SignalSteps, SignalIsTaken
<1>6. CASE ClickRow \/ OpenMenu \/ PickSave \/ LeaveMenu
  <2>1. IdleGui.doing = "idle"
    BY DEF IdleGui
  <2> QED
    BY <1>6, <2>1, SaveSteps DEF MenuInv
<1>7. CASE UNCHANGED vars
  BY <1>7 DEF vars, MenuInv
<1> QED
  BY <1>1, <1>2, <1>3, <1>4, <1>5, <1>6, <1>7 DEF Next

-----------------------------------------------------------------------------
(* The order of the frames.                                                 *)

LEMMA FramesAreOrdered ==
    ASSUME NEW f \in Frames, NEW g \in Frames, NEW h \in Frames
    PROVE  /\ f = g \/ Before(f, g) \/ Before(g, f)
           /\ ~ Before(f, f)
           /\ ~ Before(g, f) /\ ~ Before(h, g) => ~ Before(h, f)
<1>1. /\ f = <<f[1], f[2]>> /\ g = <<g[1], g[2]>> /\ h = <<h[1], h[2]>>
      /\ f[1] \in Int /\ f[2] \in Int /\ g[1] \in Int /\ g[2] \in Int /\ h[1] \in Int /\ h[2] \in Int
  BY BoundsAssumption DEF Frames, Sessions
<1> QED
  BY <1>1 DEF Before

\* The session that starts is the next one.
LEMMA StartsNext ==
    ASSUME TypeInv, SessionOrder, StartThread
    PROVE  \E s \in Sessions :
              /\ threads[s].pc = "none" /\ threads'[s].pc # "none" /\ current' = s /\ gui'.joins = 0
              /\ \A t \in Sessions : t # s => threads'[t] = threads[t]
              /\ \A t \in Sessions : threads[t].pc # "none" <=> t < s
<1>1. PICK s \in Sessions :
          /\ threads[s].pc = "none" /\ threads'[s].pc = "loop" /\ current' = s /\ gui'.joins = 0
          /\ \A t \in Sessions : t # s => threads'[t] = threads[t]
  BY SessionStarts
<1>2. \A t \in Sessions : threads[t].pc = "none" => s <= t
  <2>1. PICK u \in Sessions \ Started : (\A t \in Sessions \ Started : u <= t) /\ current' = u
    BY DEF StartThread
  <2> QED
    BY <1>1, <2>1 DEF Started
<1>3. \A t \in Sessions : threads[t].pc # "none" <=> t < s
  BY <1>1, <1>2, BoundsAssumption DEF SessionOrder, Sessions
<1> QED
  BY <1>1, <1>3

LEMMA SessionOrderStep == TypeInv /\ SessionOrder /\ [Next]_vars => SessionOrder'
<1> SUFFICES ASSUME TypeInv, SessionOrder, [Next]_vars PROVE SessionOrder'
  OBVIOUS
<1>s. ASSUME \A t \in Sessions : threads'[t].pc = "none" <=> threads[t].pc = "none",
             current' \in {0, current}, gui'.joins \in {0, gui.joins, current}
      PROVE  SessionOrder'
  BY <1>s DEF SessionOrder
<1>1. ASSUME NEW s \in Sessions, ThreadStep(s) PROVE SessionOrder'
  BY <1>1, <1>s, ThreadSteps
<1>2. CASE ClickStart \/ ClickStop \/ CloseWindow
  <2>1. RaiseFlag /\ gui'.joins = current
    BY <1>2, ClickSteps
  <2> QED
    BY <1>s, <2>1, FlagIsRaised
<1>3. CASE Stopped \/ Closed
  BY <1>3, <1>s, ClickSteps
<1>4. CASE StartThread
  <2>1. PICK s \in Sessions :
            /\ threads[s].pc = "none" /\ threads'[s].pc # "none" /\ current' = s /\ gui'.joins = 0
            /\ \A t \in Sessions : t # s => threads'[t] = threads[t]
            /\ \A t \in Sessions : threads[t].pc # "none" <=> t < s
    BY <1>4, StartsNext
  <2>2. \A t \in Sessions : threads'[t].pc # "none" <=> t <= s
    BY <2>1, BoundsAssumption DEF Sessions
  <2> QED
    BY <2>1, <2>2, BoundsAssumption DEF SessionOrder, Sessions
<1>5. CASE OnIdentified \/ OnBoxes \/ OnEnded
  BY <1>5, <1>s, SignalSteps, SignalIsTaken
<1>6. CASE ClickRow \/ OpenMenu \/ PickSave \/ LeaveMenu
  <2>1. IdleGui.joins = 0
    BY DEF IdleGui
  <2> QED
    BY <1>6, <1>s, <2>1, SaveSteps
<1>7. CASE UNCHANGED vars
  BY <1>7, <1>s DEF vars
<1> QED
  BY <1>1, <1>2, <1>3, <1>4, <1>5, <1>6, <1>7 DEF Next

\* A captured frame stays one: what is retained next is of the last session, at its tick.
LEMMA CapturedStays ==
    ASSUME TypeInv, ThreadsInv, SessionOrder, [Next]_vars, NEW f \in Frames, Captured(f)
    PROVE  /\ threads'[f[1]].pc # "none" /\ f[2] <= threads'[f[1]].tick
           /\ retained' # None => ~ Before(retained', f)
<1>0. /\ f[1] \in Sessions /\ f[1] \in Int /\ f[2] \in Int
      /\ \A t \in Sessions : threads[t].tick \in Int /\ t \in Int /\ t # 0
  BY BoundsAssumption DEF Frames, Sessions, TypeInv, TypeOK, Thread
<1>s. ASSUME \A t \in Sessions : /\ threads[t].pc # "none" => threads'[t].pc # "none"
                                 /\ threads'[t].tick = threads[t].tick,
             retained' \in {None, retained}
      PROVE  /\ threads'[f[1]].pc # "none" /\ f[2] <= threads'[f[1]].tick
             /\ retained' # None => ~ Before(retained', f)
  BY <1>0, <1>s DEF Captured
<1>1. ASSUME NEW s \in Sessions, ThreadStep(s)
      PROVE  /\ threads'[f[1]].pc # "none" /\ f[2] <= threads'[f[1]].tick
             /\ retained' # None => ~ Before(retained', f)
  <2>1. /\ \A t \in Sessions : t # s => threads'[t] = threads[t]
        /\ threads[s].pc # "none" /\ threads'[s].pc # "none"
        /\ threads'[s].tick \in {threads[s].tick, threads[s].tick + 1}
        /\ \/ UNCHANGED retained
           \/ threads[s].pc = "answered" /\ retained' = FrameOf(s)
    BY <1>1, ThreadSteps
  <2>2. threads'[f[1]].pc # "none" /\ f[2] <= threads'[f[1]].tick
    BY <1>0, <2>1 DEF Captured
  <2>3. CASE UNCHANGED retained
    BY <2>2, <2>3 DEF Captured
  <2>4. CASE threads[s].pc = "answered" /\ retained' = FrameOf(s)
    <3>1. s \in {current, gui.joins}
      BY <2>4 DEF ThreadsInv
    <3>2. f[1] <= s
      BY <1>0, <3>1 DEF Captured, SessionOrder
    <3>3. FrameOf(s)[1] = s /\ FrameOf(s)[2] = threads[s].tick
      BY FrameTyped
    <3>4. ~ Before(FrameOf(s), f)
      BY <1>0, <3>2, <3>3 DEF Before, Captured
    <3> QED
      BY <2>2, <2>4, <3>4
  <2> QED
    BY <2>1, <2>3, <2>4
<1>2. CASE ClickStart \/ ClickStop \/ CloseWindow
  <2>1. RaiseFlag /\ UNCHANGED retained
    BY <1>2, ClickSteps
  <2> QED
    BY <1>s, <2>1, FlagIsRaised
<1>3. CASE Stopped \/ Closed
  BY <1>3, <1>s, ClickSteps
<1>4. CASE StartThread
  BY <1>4, <1>s, SessionStarts
<1>5. CASE OnIdentified \/ OnBoxes \/ OnEnded
  BY <1>5, <1>s, SignalSteps, SignalIsTaken
<1>6. CASE ClickRow \/ OpenMenu \/ PickSave \/ LeaveMenu
  BY <1>6, <1>s, SaveSteps
<1>7. CASE UNCHANGED vars
  BY <1>7, <1>s DEF vars
<1> QED
  BY <1>1, <1>2, <1>3, <1>4, <1>5, <1>6, <1>7 DEF Next

\* The frames the panel knows of.
LEMMA FramesTyped ==
    ASSUME TypeInv
    PROVE  /\ \A i \in DOMAIN queue : queue[i].frame \in Frames
           /\ identities # None => identities.frame \in Frames
           /\ gui.doing = "menu" => gui.offered.frame \in Frames
           /\ face # None => face \in Face /\ face = identities /\ identities # None
           /\ None \notin Face
<1>1. ASSUME NEW i \in DOMAIN queue PROVE queue[i].frame \in Frames
  <2>1. queue \in Seq(Signal)
    BY DEF TypeInv, TypeOK
  <2>2. queue[i] \in Signal
    BY <2>1
  <2> QED
    BY <2>2 DEF Signal
<1>2. identities # None => identities.frame \in Frames
  BY DEF TypeInv, TypeOK
<1>3. gui.doing = "menu" => gui.offered.frame \in Frames
  BY DEF TypeInv, TypeOK, StepsHold, Face
<1>4. face # None => face \in Face /\ face = identities /\ identities # None
  BY DEF TypeInv, TypeOK
<1>5. None \notin Face
  BY NoneAssumption DEF Face
<1> QED
  BY <1>1, <1>2, <1>3, <1>4, <1>5

\* What a step does to what is posted and identified: a new result is the retained
\* frame's, a handled one is the panel's now, and a start forgets.
LEMMA FrameSteps ==
    ASSUME TypeInv, RetainedInv, [Next]_vars
    PROVE  \/ /\ UNCHANGED queue /\ identities' \in {None, identities}
              /\ gui'.doing = "menu" => identities' = identities
           \/ /\ UNCHANGED <<identities, gui>>
              /\ \E s \in Sessions, kind \in {"result", "ended"}, who \in People \cup {None} :
                    /\ Post(kind, FrameOf(s), who) /\ threads'[s].pc # "none"
                    /\ threads[s].tick <= threads'[s].tick /\ UNCHANGED retained
                    /\ kind = "result" /\ Identifies(threads[s].tick) => retained = FrameOf(s)
           \/ OnIdentified \/ OnBoxes \/ OnEnded
<1>1. ASSUME NEW s \in Sessions, ThreadStep(s)
      PROVE  \/ UNCHANGED <<queue, identities>>
             \/ /\ UNCHANGED <<identities, gui>>
                /\ \E kind \in {"result", "ended"}, who \in People \cup {None} :
                      /\ Post(kind, FrameOf(s), who) /\ threads'[s].pc # "none"
                      /\ threads[s].tick <= threads'[s].tick /\ UNCHANGED retained
                      /\ kind = "result" /\ Identifies(threads[s].tick) => retained = FrameOf(s)
  <2>1. threads[s].tick \in Int
    BY DEF TypeInv, TypeOK, Thread
  <2> QED
    BY <1>1, <2>1, ThreadSteps DEF RetainedInv
<1>2. CASE ClickStart \/ ClickStop \/ CloseWindow
  BY <1>2, ClickSteps
<1>3. CASE Stopped \/ Closed
  BY <1>3, ClickSteps
<1>4. CASE StartThread
  BY <1>4, SessionStarts
<1>6. CASE ClickRow \/ OpenMenu \/ PickSave \/ LeaveMenu
  BY <1>6, SaveSteps
<1>7. CASE UNCHANGED vars
  BY <1>7 DEF vars
<1> QED
  BY <1>1, <1>2, <1>3, <1>4, <1>6, <1>7 DEF Next

LEMMA FramesStep ==
    TypeInv /\ ThreadsInv /\ RetainedInv /\ SessionOrder /\ FramesInv /\ [Next]_vars => FramesInv'
<1> SUFFICES ASSUME TypeInv, ThreadsInv, RetainedInv, SessionOrder, FramesInv, [Next]_vars
             PROVE  FramesInv'
  OBVIOUS
<1> DEFINE captured(f) == /\ threads'[f[1]].pc # "none" /\ f[2] <= threads'[f[1]].tick
                          /\ retained' # None => ~ Before(retained', f)
<1>1. /\ \A i \in DOMAIN queue : queue[i].frame \in Frames
      /\ identities # None => identities.frame \in Frames
  BY FramesTyped
<1>2. ASSUME NEW i \in DOMAIN queue, IdentifyResult(i) PROVE captured(queue[i].frame)
  <2>1. queue[i].frame \in Frames /\ Captured(queue[i].frame)
    BY <1>1, <1>2 DEF FramesInv
  <2> QED
    BY <2>1, CapturedStays
<1>3. identities # None => captured(identities.frame)
  <2>1. identities # None => identities.frame \in Frames /\ Captured(identities.frame)
    BY <1>1 DEF FramesInv
  <2> QED
    BY <2>1, CapturedStays
<1>4. SUFFICES /\ \A i \in DOMAIN queue' :
                     queue'[i].kind = "result" /\ Identifies(queue'[i].frame[2]) =>
                        captured(queue'[i].frame)
               /\ identities' # None => captured(identities'.frame)
  BY DEF FramesInv, IdentifyResult, Captured
<1> HIDE DEF captured
<1>5. CASE UNCHANGED queue /\ identities' \in {None, identities}
  BY <1>2, <1>3, <1>5 DEF IdentifyResult
<1>6. ASSUME NEW s \in Sessions, NEW kind \in {"result", "ended"}, NEW who \in People \cup {None},
             Post(kind, FrameOf(s), who), threads'[s].pc # "none",
             threads[s].tick <= threads'[s].tick, UNCHANGED <<identities, retained>>,
             kind = "result" /\ Identifies(threads[s].tick) => retained = FrameOf(s)
      PROVE  /\ \A i \in DOMAIN queue' :
                   queue'[i].kind = "result" /\ Identifies(queue'[i].frame[2]) =>
                      captured(queue'[i].frame)
             /\ identities' # None => captured(identities'.frame)
  <2>1. /\ DOMAIN queue' = 1..(Len(queue) + 1) /\ DOMAIN queue = 1..Len(queue)
        /\ Len(queue) \in Nat
        /\ \A i \in DOMAIN queue : queue'[i] = queue[i]
        /\ queue'[Len(queue) + 1].kind = kind /\ queue'[Len(queue) + 1].frame = FrameOf(s)
        /\ FrameOf(s) \in Frames /\ FrameOf(s)[1] = s /\ FrameOf(s)[2] = threads[s].tick
    BY <1>6, FrameTyped, SignalIsPosted
  <2>2. kind = "result" /\ Identifies(threads[s].tick) => captured(FrameOf(s))
    BY <1>6, <2>1, FramesAreOrdered DEF captured
  <2>3. ASSUME NEW i \in DOMAIN queue', queue'[i].kind = "result", Identifies(queue'[i].frame[2])
        PROVE  captured(queue'[i].frame)
    <3>1. CASE i \in DOMAIN queue
      BY <1>2, <2>1, <2>3, <3>1 DEF IdentifyResult
    <3>2. CASE i = Len(queue) + 1
      BY <2>1, <2>2, <2>3, <3>2
    <3> QED
      BY <2>1, <3>1, <3>2
  <2> QED
    BY <1>3, <1>6, <2>3
<1>7. CASE OnIdentified \/ OnBoxes \/ OnEnded
  <2>1. /\ Signalled = queue[1] /\ Len(queue) \in Nat /\ Len(queue) > 0
        /\ Len(queue') = Len(queue) - 1
        /\ DOMAIN queue = 1..Len(queue) /\ DOMAIN queue' = 1..Len(queue')
        /\ \A i \in DOMAIN queue' : queue'[i] = queue[i + 1]
    BY <1>7, SignalSteps, SignalIsTaken
  <2>2. \/ IdentifyResult(1) /\ identities'.frame = queue[1].frame
        \/ UNCHANGED identities
    BY <1>7, <2>1, SignalSteps DEF IdentifyResult
  <2>3. 1 \in DOMAIN queue /\ \A i \in DOMAIN queue' : i + 1 \in DOMAIN queue
    BY <2>1
  <2> QED
    BY <1>2, <1>3, <2>1, <2>2, <2>3 DEF IdentifyResult
<1> QED
  BY <1>5, <1>6, <1>7, FrameSteps

LEMMA OrderStep ==
    TypeInv /\ RetainedInv /\ FramesInv /\ OrderInv /\ [Next]_vars => OrderInv'
<1> SUFFICES ASSUME TypeInv, RetainedInv, FramesInv, OrderInv, [Next]_vars
             PROVE  OrderInv'
  OBVIOUS
<1>1. /\ \A i \in DOMAIN queue : queue[i].frame \in Frames
      /\ identities # None => identities.frame \in Frames
      /\ gui.doing = "menu" => gui.offered.frame \in Frames
  BY FramesTyped
<1>2. CASE /\ UNCHANGED queue /\ identities' \in {None, identities}
           /\ gui'.doing = "menu" => identities' = identities
  <2>1. gui'.doing = "menu" =>
            identities' # None /\ ~ Before(identities'.frame, gui'.offered.frame)
    <3>1. ASSUME gui'.doing = "menu", ~ (gui.doing = "menu" /\ gui'.offered = gui.offered)
          PROVE  gui'.offered = face /\ face \in Face
      <4>1. ASSUME NEW s \in Sessions, ThreadStep(s) PROVE FALSE
        BY <3>1, <4>1, ThreadSteps
      <4>2. ~ (ClickStart \/ ClickStop \/ CloseWindow \/ Stopped \/ Closed)
        BY <3>1, ClickSteps
      <4>3. ~ StartThread
        BY <3>1, SessionStarts
      <4>4. ~ (OnIdentified \/ OnBoxes \/ OnEnded)
        BY <3>1, SignalSteps, SignalIsTaken
      <4>5. IdleGui.doing = "idle"
        BY DEF IdleGui
      <4>6. CASE ClickRow \/ OpenMenu \/ PickSave \/ LeaveMenu
        BY <3>1, <4>5, <4>6, SaveSteps
      <4>7. CASE UNCHANGED vars
        BY <3>1, <4>7 DEF vars
      <4> QED
        BY <4>1, <4>2, <4>3, <4>4, <4>6, <4>7 DEF Next
    <3>2. face \in Face => face = identities /\ identities # None
      BY FramesTyped
    <3> QED
      BY <1>1, <1>2, <3>1, <3>2, FramesAreOrdered DEF OrderInv
  <2> QED
    BY <1>2, <2>1 DEF OrderInv, IdentifyResult
<1>3. ASSUME NEW s \in Sessions, NEW kind \in {"result", "ended"}, NEW who \in People \cup {None},
             Post(kind, FrameOf(s), who), UNCHANGED <<identities, gui>>,
             kind = "result" /\ Identifies(threads[s].tick) => retained = FrameOf(s)
      PROVE  OrderInv'
  <2>1. /\ DOMAIN queue' = 1..(Len(queue) + 1) /\ DOMAIN queue = 1..Len(queue)
        /\ Len(queue) \in Nat
        /\ \A i \in DOMAIN queue : queue'[i] = queue[i]
        /\ queue'[Len(queue) + 1].kind = kind /\ queue'[Len(queue) + 1].frame = FrameOf(s)
        /\ FrameOf(s)[2] = threads[s].tick
    BY <1>3, FrameTyped, SignalIsPosted
  <2>2. ASSUME NEW i \in DOMAIN queue', queue'[i].kind = "result", Identifies(queue'[i].frame[2])
        PROVE  \/ i \in DOMAIN queue /\ IdentifyResult(i)
               \/ i = Len(queue) + 1 /\ queue'[i].frame = retained /\ retained # None
    <3>1. CASE i \in DOMAIN queue
      BY <2>1, <2>2, <3>1 DEF IdentifyResult
    <3>2. CASE i = Len(queue) + 1
      <4>1. retained = FrameOf(s)
        BY <1>3, <2>1, <2>2, <3>2
      <4>2. retained # None
        BY <4>1, FrameTyped, NoneAssumption
      <4> QED
        BY <2>1, <3>2, <4>1, <4>2
    <3> QED
      BY <2>1, <3>1, <3>2
  <2>3. retained # None =>
            /\ \A i \in DOMAIN queue : IdentifyResult(i) => ~ Before(retained, queue[i].frame)
            /\ identities # None => ~ Before(retained, identities.frame)
    BY DEF FramesInv, Captured
  <2>4. ASSUME NEW i \in DOMAIN queue', NEW j \in DOMAIN queue', i < j,
               queue'[i].kind = "result", Identifies(queue'[i].frame[2]),
               queue'[j].kind = "result", Identifies(queue'[j].frame[2])
        PROVE  ~ Before(queue'[j].frame, queue'[i].frame)
    <3>1. i \in DOMAIN queue /\ IdentifyResult(i)
      BY <2>1, <2>2, <2>4
    <3>2. CASE j \in DOMAIN queue /\ IdentifyResult(j)
      BY <2>1, <2>4, <3>1, <3>2 DEF OrderInv
    <3>3. CASE j = Len(queue) + 1 /\ queue'[j].frame = retained /\ retained # None
      BY <2>1, <2>3, <3>1, <3>3
    <3> QED
      BY <2>2, <2>4, <3>2, <3>3
  <2>5. ASSUME identities # None, NEW i \in DOMAIN queue',
               queue'[i].kind = "result", Identifies(queue'[i].frame[2])
        PROVE  ~ Before(queue'[i].frame, identities.frame)
    <3>1. CASE i \in DOMAIN queue /\ IdentifyResult(i)
      BY <2>1, <2>5, <3>1 DEF OrderInv
    <3>2. CASE queue'[i].frame = retained /\ retained # None
      BY <2>3, <2>5, <3>2
    <3> QED
      BY <2>2, <2>5, <3>1, <3>2
  <2> QED
    BY <1>3, <2>4, <2>5 DEF OrderInv, IdentifyResult
<1>4. CASE OnIdentified \/ OnBoxes \/ OnEnded
  <2>1. /\ Signalled = queue[1] /\ Len(queue) \in Nat /\ Len(queue) > 0
        /\ Len(queue') = Len(queue) - 1
        /\ DOMAIN queue = 1..Len(queue) /\ DOMAIN queue' = 1..Len(queue')
        /\ \A i \in DOMAIN queue' : queue'[i] = queue[i + 1]
        /\ gui'.doing = gui.doing /\ gui'.offered = gui.offered
    BY <1>4, SignalSteps, SignalIsTaken
  <2>2. \/ /\ IdentifyResult(1) /\ identities'.frame = queue[1].frame
           /\ identities' # None
        \/ UNCHANGED identities
    BY <1>4, <2>1, SignalSteps, NoneAssumption DEF IdentifyResult
  <2>3. 1 \in DOMAIN queue /\ \A i \in DOMAIN queue' : i + 1 \in DOMAIN queue /\ 1 < i + 1
    BY <2>1
  <2>4. \A i, j \in DOMAIN queue' :
            /\ i < j
            /\ queue'[i].kind = "result" /\ Identifies(queue'[i].frame[2])
            /\ queue'[j].kind = "result" /\ Identifies(queue'[j].frame[2])
            => ~ Before(queue'[j].frame, queue'[i].frame)
    <3> TAKE i, j \in DOMAIN queue'
    <3>1. i < j => i + 1 < j + 1 /\ i + 1 \in DOMAIN queue /\ j + 1 \in DOMAIN queue
      BY <2>1, <2>3
    <3>2. queue'[i] = queue[i + 1] /\ queue'[j] = queue[j + 1]
      BY <2>1
    <3> QED
      BY <3>1, <3>2 DEF OrderInv, IdentifyResult
  <2>5. identities' # None => \A i \in DOMAIN queue' :
            queue'[i].kind = "result" /\ Identifies(queue'[i].frame[2]) =>
               ~ Before(queue'[i].frame, identities'.frame)
    <3>1. ASSUME NEW i \in DOMAIN queue', IdentifyResult(i + 1), IdentifyResult(1)
          PROVE  ~ Before(queue[i + 1].frame, queue[1].frame)
      BY <2>3, <3>1 DEF OrderInv
    <3>2. ASSUME NEW i \in DOMAIN queue', IdentifyResult(i + 1), identities # None
          PROVE  ~ Before(queue[i + 1].frame, identities.frame)
      BY <2>3, <3>2 DEF OrderInv
    <3> QED
      BY <2>1, <2>2, <3>1, <3>2 DEF IdentifyResult
  <2>6. gui'.doing = "menu" => identities' # None /\ ~ Before(identities'.frame, gui'.offered.frame)
    <3>1. gui.doing = "menu" =>
              /\ identities # None /\ ~ Before(identities.frame, gui.offered.frame)
              /\ IdentifyResult(1) => ~ Before(queue[1].frame, identities.frame)
      BY <2>3 DEF OrderInv
    <3>2. gui.doing = "menu" /\ IdentifyResult(1) => ~ Before(queue[1].frame, gui.offered.frame)
      BY <1>1, <2>3, <3>1, FramesAreOrdered
    <3> QED
      BY <2>1, <2>2, <3>1, <3>2
  <2> QED
    BY <2>4, <2>5, <2>6 DEF OrderInv, IdentifyResult
<1> QED
  BY <1>2, <1>3, <1>4, FrameSteps

-----------------------------------------------------------------------------
(* What is saved.                                                           *)

LEMMA SavedStep ==
    TypeInv /\ RetainedInv /\ MenuInv /\ FramesInv /\ OrderInv /\ SavedAsShown /\ [Next]_vars
      => SavedAsShown'
<1> SUFFICES ASSUME TypeInv, RetainedInv, MenuInv, FramesInv, OrderInv, SavedAsShown, [Next]_vars
             PROVE  SavedAsShown'
  OBVIOUS
<1>1. CASE UNCHANGED saved
  BY <1>1 DEF SavedAsShown
<1>2. ASSUME NEW offered, NEW moved \in BOOLEAN, Savable,
             face # offered => moved /\ ~ Before(face.frame, offered.frame),
             saved' = [bytes |-> retained, face |-> face, offered |-> offered,
                       ahead |-> Ahead, moved |-> moved]
      PROVE  SavedAsShown'
  <2>1. retained # None /\ face # None /\ face = identities /\ identities # None
        /\ retained \in Frames /\ face.frame \in Frames
    BY <1>2 DEF Savable, TypeInv, TypeOK
  <2>2. Emitting \/ Pending => Ahead
    BY DEF Emitting, Pending, Ahead
  <2>3. Settled => retained = face.frame
    BY <2>1 DEF Settled
  <2>4. ~ Before(retained, face.frame)
    BY <2>1 DEF FramesInv, Captured
  <2>5. retained # face.frame => Ahead /\ Before(face.frame, retained)
    BY <2>1, <2>2, <2>3, <2>4, FramesAreOrdered DEF RetainedInv
  <2>6. saved'.bytes = retained /\ saved'.face = face /\ saved'.offered = offered
        /\ (saved'.ahead <=> Ahead) /\ (saved'.moved <=> moved)
    BY <1>2, Zenon
  <2> QED
    BY <1>2, <2>5, <2>6, Zenon DEF SavedAsShown
<1>3. ASSUME NEW s \in Sessions, ThreadStep(s) PROVE UNCHANGED saved
  BY <1>3, ThreadSteps
<1>4. CASE ClickRow \/ OpenMenu \/ PickSave \/ LeaveMenu
  <2>1. gui.moved \in BOOLEAN
    BY DEF TypeInv, TypeOK
  <2>2. gui.doing = "menu" /\ Savable /\ face # gui.offered =>
            gui.moved /\ ~ Before(face.frame, gui.offered.frame)
    BY DEF MenuInv, OrderInv, Savable, TypeInv, TypeOK
  <2> QED
    BY <1>1, <1>2, <1>4, <2>1, <2>2, SaveSteps
<1>5. CASE UNCHANGED vars
  BY <1>1, <1>5 DEF vars, history
<1>6. ClickStart \/ ClickStop \/ CloseWindow \/ Stopped \/ Closed => UNCHANGED saved
  BY ClickSteps
<1>7. StartThread => UNCHANGED saved
  BY SessionStarts
<1>8. OnIdentified \/ OnBoxes \/ OnEnded => UNCHANGED saved
  BY SignalSteps, SignalIsTaken
<1> QED
  BY <1>1, <1>3, <1>4, <1>5, <1>6, <1>7, <1>8 DEF Next


-----------------------------------------------------------------------------
(* What is on the screen.                                                   *)

\* No step brings a thread back, and only starting a session brings one to life.
LEMMA GoneStays ==
    ASSUME TypeInv, [Next]_vars, NEW t \in Sessions
    PROVE  /\ threads[t].pc = "gone" => threads'[t].pc = "gone"
           /\ threads[t].pc = "none" /\ threads'[t].pc # "none" => StartThread
<1>1. ASSUME NEW s \in Sessions, ThreadStep(s)
      PROVE  /\ threads[t].pc = "gone" => threads'[t].pc = "gone"
             /\ threads[t].pc = "none" => threads'[t].pc = "none"
  BY <1>1, ThreadSteps
<1>2. CASE ClickStart \/ ClickStop \/ CloseWindow
  <2>1. RaiseFlag
    BY <1>2, ClickSteps
  <2> QED
    BY <2>1, FlagIsRaised
<1>3. CASE Stopped \/ Closed
  BY <1>3, ClickSteps
<1>4. CASE StartThread
  BY <1>4, SessionStarts
<1>5. CASE OnIdentified \/ OnBoxes \/ OnEnded
  BY <1>5, SignalSteps, SignalIsTaken
<1>6. CASE ClickRow \/ OpenMenu \/ PickSave \/ LeaveMenu
  BY <1>6, SaveSteps
<1>7. CASE UNCHANGED vars
  BY <1>7 DEF vars
<1> QED
  BY <1>1, <1>2, <1>3, <1>4, <1>5, <1>6, <1>7 DEF Next

\* A signal's session.
LEMMA SignalSession ==
    ASSUME TypeInv, NEW i \in DOMAIN queue PROVE queue[i].frame[1] \in Sessions
<1>1. queue[i] \in Signal
  BY ElementOfSeq, LenProperties DEF TypeInv, TypeOK
<1> QED
  BY <1>1 DEF Signal, Frames

\* The queue after a step: one signal taken, one posted, or none.
LEMMA QueueSteps ==
    ASSUME TypeInv, [Next]_vars
    PROVE  \/ UNCHANGED queue
           \/ \E s \in Sessions :
                 /\ ThreadStep(s) /\ threads[s].pc = "emit"
                 /\ \E who \in People \cup {None} : Post("result", FrameOf(s), who)
           \/ \E s \in Sessions :
                 /\ ThreadStep(s) /\ threads[s].pc = "ending" /\ threads'[s].pc = "gone"
                 /\ Post("ended", FrameOf(s), None)
           \/ Handling /\ (OnIdentified \/ OnBoxes \/ OnEnded)
<1>1. ASSUME NEW s \in Sessions, ThreadStep(s)
      PROVE  \/ UNCHANGED queue
             \/ threads[s].pc = "emit" /\ \E who \in People \cup {None} : Post("result", FrameOf(s), who)
             \/ threads[s].pc = "ending" /\ threads'[s].pc = "gone" /\ Post("ended", FrameOf(s), None)
  BY <1>1, ThreadSteps
<1>2. ClickStart \/ ClickStop \/ CloseWindow \/ Stopped \/ Closed => UNCHANGED queue
  BY ClickSteps
<1>3. StartThread => UNCHANGED queue
  BY SessionStarts
<1>4. OnIdentified \/ OnBoxes \/ OnEnded => Handling
  BY SignalSteps
<1>5. ClickRow \/ OpenMenu \/ PickSave \/ LeaveMenu => UNCHANGED queue
  BY SaveSteps
<1>6. UNCHANGED vars => UNCHANGED queue
  BY DEF vars
<1> QED
  BY <1>1, <1>2, <1>3, <1>4, <1>5, <1>6 DEF Next

LEMMA EndsStep == TypeInv /\ EndsAreLast /\ [Next]_vars => EndsAreLast'
<1> SUFFICES ASSUME TypeInv, EndsAreLast, [Next]_vars,
                    NEW i \in DOMAIN queue', queue'[i].kind = "ended"
             PROVE  threads'[queue'[i].frame[1]].pc = "gone"
  BY DEF EndsAreLast
<1>1. ASSUME NEW j \in DOMAIN queue, queue'[i] = queue[j]
      PROVE  threads'[queue'[i].frame[1]].pc = "gone"
  <2>1. queue[j].frame[1] \in Sessions /\ threads[queue[j].frame[1]].pc = "gone"
    BY <1>1, SignalSession DEF EndsAreLast
  <2> QED
    BY <1>1, <2>1, GoneStays
<1>2. CASE UNCHANGED queue
  BY <1>1, <1>2
<1>3. ASSUME NEW s \in Sessions, NEW kind \in {"result", "ended"}, NEW who \in People \cup {None},
             Post(kind, FrameOf(s), who), kind = "ended" => threads'[s].pc = "gone"
      PROVE  threads'[queue'[i].frame[1]].pc = "gone"
  <2>1. /\ DOMAIN queue' = 1..(Len(queue) + 1) /\ DOMAIN queue = 1..Len(queue)
        /\ Len(queue) \in Nat /\ \A j \in DOMAIN queue : queue'[j] = queue[j]
        /\ queue'[Len(queue) + 1].kind = kind /\ queue'[Len(queue) + 1].frame = FrameOf(s)
    BY <1>3, FrameTyped, SignalIsPosted
  <2>2. CASE i = Len(queue) + 1
    BY <1>3, <2>1, <2>2, FrameTyped
  <2>3. CASE i # Len(queue) + 1
    BY <1>1, <2>1, <2>3
  <2> QED
    BY <2>2, <2>3
<1>4. CASE Handling
  <2>1. i + 1 \in DOMAIN queue /\ queue'[i] = queue[i + 1]
    BY <1>4, SignalIsTaken
  <2> QED
    BY <1>1, <2>1
<1> QED
  BY <1>2, <1>3, <1>4, QueueSteps

\* Capturing(current) where it matters: the one thread that is not told to stop.
LEMMA ShownStep ==
    TypeInv /\ ThreadsInv /\ EndsAreLast /\ ShownInv /\ [Next]_vars => ShownInv'
<1> SUFFICES ASSUME TypeInv, ThreadsInv, EndsAreLast, ShownInv, [Next]_vars PROVE ShownInv'
  OBVIOUS
<1>0. 0 \notin Sessions /\ current \in {0} \cup Sessions
      /\ \A i \in DOMAIN queue : queue[i].frame[1] \in Sessions
  BY SignalSession DEF Sessions, TypeInv, TypeOK
\* Steps that leave the screen and capture no more than before.
<1>s. ASSUME UNCHANGED <<current, overlapped, overlay, buttons>>,
             gui'.doing = "starting" => gui.doing = "starting",
             current # 0 /\ Capturing(current)' => Capturing(current),
             \A t \in Sessions \ {current} : ~ Unheard(t) => ~ Unheard(t)'
      PROVE  ShownInv'
  BY <1>s DEF ShownInv
<1>1. ASSUME NEW s \in Sessions, ThreadStep(s) PROVE ShownInv'
  <2>1. /\ \A t \in Sessions : t # s => threads'[t] = threads[t]
        /\ threads'[s].stop = threads[s].stop
        /\ UNCHANGED <<current, overlapped, overlay, buttons, gui>>
    BY <1>1, ThreadSteps
  <2>2. threads[s].pc \notin {"none", "gone"}
    BY <1>1, ThreadSteps
  <2>3. threads'[s].pc \in {"loop", "asked", "answered", "emit"} =>
            threads[s].pc \in {"loop", "asked", "answered", "emit"}
    BY <1>1, ThreadSteps
  <2>4. current # 0 /\ Capturing(current)' => Capturing(current)
    BY <1>0, <2>1, <2>3 DEF Capturing
  <2>5. ASSUME NEW t \in Sessions, ~ Unheard(t) PROVE ~ Unheard(t)'
    <3>1. t # s
      BY <2>2, <2>5 DEF Unheard
    <3>2. threads'[t].pc \in {"none", "gone"}
      BY <2>1, <2>5, <3>1 DEF Unheard
    <3>3. \A i \in DOMAIN queue' : ~ (queue'[i].kind = "ended" /\ queue'[i].frame[1] = t)
      <4>1. \A i \in DOMAIN queue : ~ (queue[i].kind = "ended" /\ queue[i].frame[1] = t)
        BY <2>5 DEF Unheard
      <4>2. CASE UNCHANGED queue
        BY <4>1, <4>2
      <4>3. ASSUME NEW kind \in {"result", "ended"}, NEW who \in People \cup {None},
                   Post(kind, FrameOf(s), who)
            PROVE  \A i \in DOMAIN queue' : ~ (queue'[i].kind = "ended" /\ queue'[i].frame[1] = t)
        <5>1. /\ DOMAIN queue' = 1..(Len(queue) + 1) /\ DOMAIN queue = 1..Len(queue)
              /\ Len(queue) \in Nat /\ \A j \in DOMAIN queue : queue'[j] = queue[j]
              /\ queue'[Len(queue) + 1].frame = FrameOf(s)
          BY <4>3, FrameTyped, SignalIsPosted
        <5>2. FrameOf(s)[1] = s
          BY FrameTyped
        <5> QED
          BY <3>1, <4>1, <5>1, <5>2
      <4> QED
        BY <1>1, <4>2, <4>3, ThreadSteps
    <3> QED
      BY <3>2, <3>3 DEF Unheard
  <2> QED
    BY <1>s, <2>1, <2>4, <2>5
<1>2. CASE ClickStart \/ ClickStop \/ CloseWindow
  <2>1. RaiseFlag /\ (gui'.doing = "starting" => overlay' = [shown |-> TRUE, hit |-> FALSE])
    BY <1>2, ClickSteps
  <2>2. current' = 0
    BY <2>1, FlagIsRaised
  <2>3. [shown |-> TRUE, hit |-> FALSE].shown
    OBVIOUS
  <2> QED
    BY <2>1, <2>2, <2>3 DEF ShownInv
<1>3. CASE Stopped \/ Closed
  <2>1. gui.doing \in {"stopping", "closing"} /\ gui'.doing # "starting" /\ UNCHANGED current
    BY <1>3, ClickSteps
  <2>2. current = 0
    BY <2>1 DEF ThreadsInv
  <2> QED
    BY <2>1, <2>2 DEF ShownInv
<1>4. CASE StartThread
  <2>1. PICK s \in Sessions :
            /\ threads[s].pc = "none" /\ current' = s
            /\ \A t \in Sessions : t # s => threads'[t] = threads[t]
            /\ overlapped' = IF \E t \in Started : Unheard(t) THEN overlapped \cup {s}
                             ELSE overlapped
            /\ buttons' = [start |-> FALSE, stop |-> TRUE]
            /\ gui'.doing = "idle" /\ gui.doing = "starting" /\ UNCHANGED <<queue, overlay>>
    BY <1>4, SessionStarts
  <2>2. overlay.shown /\ buttons'.stop
    BY <2>1 DEF ShownInv
  <2>3. ASSUME s \notin overlapped', NEW t \in Sessions \ {s} PROVE ~ Unheard(t)'
    <3>1. ~ \E u \in Started : Unheard(u)
      BY <2>1, <2>3
    <3>2. ~ Unheard(t)
      <4>1. CASE t \in Started
        BY <3>1, <4>1
      <4>2. CASE t \notin Started
        <5>1. threads[t].pc = "none"
          BY <2>3, <4>2 DEF Started
        <5> QED
          BY <5>1 DEF Unheard, EndsAreLast
      <4> QED
        BY <4>1, <4>2
    <3> QED
      BY <2>1, <2>3, <3>2 DEF Unheard
  <2> QED
    BY <2>1, <2>2, <2>3 DEF ShownInv
<1>5. CASE OnIdentified \/ OnBoxes \/ OnEnded
  <2>1. /\ UNCHANGED <<threads, current, overlapped>> /\ gui'.doing = gui.doing
        /\ Signalled = queue[1] /\ 1 \in DOMAIN queue
        /\ \A i \in DOMAIN queue' : i + 1 \in DOMAIN queue /\ queue'[i] = queue[i + 1]
        /\ gui.doing \in {"idle", "menu"}
    BY <1>5, SignalSteps, SignalIsTaken
  <2>2. ASSUME NEW t \in Sessions, ~ Unheard(t) PROVE ~ Unheard(t)'
    BY <2>1, <2>2 DEF Unheard
  <2>3. SUFFICES ASSUME current # 0, current \notin overlapped, Capturing(current)
                 PROVE  overlay'.shown /\ buttons'.stop
    BY <2>1, <2>2 DEF ShownInv, Capturing
  <2>4. overlay.shown /\ buttons.stop /\ \A t \in Sessions \ {current} : ~ Unheard(t)
    BY <2>3 DEF ShownInv
  <2>5. Signalled.kind # "ended"
    <3> SUFFICES ASSUME Signalled.kind = "ended" PROVE FALSE
      OBVIOUS
    <3>1. threads[queue[1].frame[1]].pc = "gone"
      BY <2>1 DEF EndsAreLast
    <3>2. queue[1].frame[1] # current
      BY <2>3, <3>1 DEF Capturing
    <3> QED
      BY <1>0, <2>1, <2>4, <3>2 DEF Unheard
  <2> QED
    BY <1>5, <2>4, <2>5, SignalSteps
<1>6. CASE ClickRow \/ OpenMenu \/ PickSave \/ LeaveMenu
  <2>1. /\ gui'.doing \in {"idle", "menu"}
        /\ UNCHANGED <<threads, current, queue, buttons, overlay, overlapped>>
    BY <1>6, SaveSteps
  <2> QED
    BY <1>s, <2>1 DEF Capturing, Unheard
<1>7. CASE UNCHANGED vars
  BY <1>7, <1>s DEF vars, screen, history, Capturing, Unheard
<1> QED
  BY <1>1, <1>2, <1>3, <1>4, <1>5, <1>6, <1>7 DEF Next


LEMMA CleanStep == TypeInv /\ CleanInv /\ [Next]_vars => CleanInv'
<1> SUFFICES ASSUME TypeInv, CleanInv, [Next]_vars, AllGone' PROVE CleanInv'
  BY DEF CleanInv
<1>0. died' = {} /\ \A t \in Sessions : threads'[t].pc \in {"none", "gone"}
  BY DEF AllGone, Started
<1>g. ASSUME died = died', \A t \in Sessions : threads'[t].pc = threads[t].pc PROVE AllGone
  BY <1>0, <1>g DEF AllGone, Started
<1>1. ASSUME NEW s \in Sessions, ThreadStep(s) PROVE CleanInv'
  <2>1. Post("ended", FrameOf(s), None)
    <3>1. threads'[s].pc \in {"none", "gone"}
      BY <1>0
    <3>2. died' # {s}
      BY <1>0
    <3> QED
      BY <1>1, <3>1, <3>2, ThreadSteps
  <2>2. queue' \in Seq(Signal) /\ Len(queue') = Len(queue) + 1 /\ Len(queue) \in Nat
        /\ queue'[Len(queue) + 1].kind = "ended"
    BY <2>1, FrameTyped, SignalIsPosted
  <2>3. queue' # << >>
    BY <2>2, EmptySeq
  <2> QED
    BY <2>2, <2>3 DEF CleanInv
<1>2. CASE ClickStart \/ ClickStop \/ CloseWindow
  <2>1. RaiseFlag /\ UNCHANGED <<queue, died>> /\ gui'.doing \notin {"idle", "menu"}
    BY <1>2, ClickSteps
  <2>2. AllGone
    BY <1>g, <2>1, FlagIsRaised
  <2> QED
    BY <2>1, <2>2 DEF CleanInv
<1>3. CASE Stopped \/ Closed
  <2>1. /\ UNCHANGED <<threads, queue, died>> /\ overlay' = [shown |-> FALSE, hit |-> FALSE]
        /\ \/ buttons' = [start |-> TRUE, stop |-> FALSE]
           \/ gui'.doing = "closed"
    BY <1>3, ClickSteps
  <2>2. AllGone
    BY <1>g, <2>1
  <2>3. [start |-> TRUE, stop |-> FALSE].start
    OBVIOUS
  <2> QED
    BY <2>1, <2>2, <2>3 DEF CleanInv
<1>4. CASE StartThread
  BY <1>0, <1>4, SessionStarts
<1>5. CASE OnIdentified \/ OnBoxes \/ OnEnded
  <2>1. /\ UNCHANGED <<threads, died>> /\ queue' \in Seq(Signal)
        /\ Signalled = queue[1] /\ Len(queue) \in Nat /\ Len(queue) > 0
        /\ Len(queue') = Len(queue) - 1 /\ DOMAIN queue' = 1..Len(queue')
        /\ \A i \in DOMAIN queue' : queue'[i] = queue[i + 1]
    BY <1>5, SignalSteps, SignalIsTaken
  <2>2. queue # << >> /\ (queue' # << >> => Len(queue') > 0)
    BY <2>1, EmptySeq DEF TypeInv, TypeOK
  <2>3. queue[Len(queue)].kind = "ended"
    BY <1>g, <2>1, <2>2 DEF CleanInv
  <2>4. CASE queue' # << >>
    <3>1. Len(queue') \in DOMAIN queue' /\ Len(queue') + 1 = Len(queue)
      BY <2>1, <2>2, <2>4
    <3> QED
      BY <2>1, <2>3, <2>4, <3>1 DEF CleanInv
  <2>5. CASE queue' = << >>
    <3>1. Len(queue) = 1
      BY <2>1, <2>5, EmptySeq
    <3>2. overlay' = [shown |-> FALSE, hit |-> FALSE]
          /\ buttons' = [start |-> TRUE, stop |-> FALSE]
      BY <1>5, <2>1, <2>3, <3>1, SignalSteps
    <3>3. [start |-> TRUE, stop |-> FALSE].start
      OBVIOUS
    <3> QED
      BY <2>5, <3>2, <3>3 DEF CleanInv
  <2> QED
    BY <2>4, <2>5
<1>6. CASE ClickRow \/ OpenMenu \/ PickSave \/ LeaveMenu
  <2>1. /\ gui.doing \in {"idle", "menu"}
        /\ UNCHANGED <<threads, queue, buttons, overlay, died>>
    BY <1>6, SaveSteps
  <2> QED
    BY <1>g, <2>1 DEF CleanInv
<1>7. CASE UNCHANGED vars
  BY <1>7, <1>g DEF vars, screen, history, CleanInv
<1> QED
  BY <1>1, <1>2, <1>3, <1>4, <1>5, <1>6, <1>7 DEF Next

-----------------------------------------------------------------------------
(* The session and its panel.                                               *)

LEMMA WatchInvInit == Init => WatchInv
<1> SUFFICES ASSUME Init PROVE WatchInv
  OBVIOUS
<1>1. TypeInv
  BY TypeInit
<1>2. /\ \A s \in Sessions : threads[s].pc = "none"
      /\ current = 0 /\ retained = None /\ queue = << >> /\ saved = None /\ identities = None
      /\ gui.doing = "idle" /\ gui.joins = 0
      /\ overlay = [shown |-> FALSE, hit |-> FALSE] /\ buttons = [start |-> TRUE, stop |-> FALSE]
  BY DEF Init, NoThread, IdleGui
<1>3. [start |-> TRUE, stop |-> FALSE].start
  OBVIOUS
<1>4. DOMAIN queue = {}
  BY <1>2
<1>5. ThreadsInv /\ RetainedInv /\ MenuInv /\ EndsAreLast
  BY <1>2, <1>4 DEF ThreadsInv, RetainedInv, MenuInv, EndsAreLast
<1>7. SessionOrder /\ FramesInv /\ OrderInv
  BY <1>2, <1>4 DEF SessionOrder, FramesInv, OrderInv
<1>6. ShownInv /\ CleanInv /\ SavedAsShown
  BY <1>2, <1>3 DEF ShownInv, CleanInv, SavedAsShown
<1> QED
  BY <1>1, <1>5, <1>6, <1>7 DEF WatchInv

LEMMA WatchInvStep == WatchInv /\ [Next]_vars => WatchInv'
  BY TypeStep, ThreadsStep, RetainedStep, MenuStep, EndsStep, ShownStep, CleanStep,
     SessionOrderStep, FramesStep, OrderStep, SavedStep DEF WatchInv

LEMMA WatchInvariant == Spec => []WatchInv
  BY WatchInvInit, WatchInvStep, PTL DEF Spec

(* What is stored as evidence is what the operator was shown, whatever sessions were *)
(* stopped and started meanwhile and however late their signals come in, or it is    *)
(* newer: the bytes are of a later identify pass only where the thread retained that *)
(* pass before the panel handled it, the face of a later one only where its result   *)
(* came in under the open menu, and neither is ever older than what was shown        *)
(* (panel.py:497-530, session.py:118-124).                                           *)
THEOREM EvidenceIsAsShown == Spec => []SavedAsShown
<1>1. WatchInv => SavedAsShown
  BY DEF WatchInv
<1> QED
  BY <1>1, WatchInvariant, PTL

(* At most one session captures the screen, and while one does that nothing older   *)
(* was to be heard of, the overlay is up and Stop takes a click                      *)
(* (session.py:70-134, panel.py:359-392).                                            *)
THEOREM NobodyIsWatchedUnseen == Spec => []CaptureIsShown
<1>1. WatchInv => CaptureIsShown
  <2> SUFFICES ASSUME WatchInv PROVE CaptureIsShown
    OBVIOUS
  <2>1. \A s \in Sessions : Capturing(s) => s = current
    BY DEF WatchInv, ThreadsInv, Capturing, Sessions
  <2>2. 0 \notin Sessions
    BY DEF Sessions
  <2> QED
    BY <2>1, <2>2 DEF WatchInv, ShownInv, CaptureIsShown
<1> QED
  BY <1>1, WatchInvariant, PTL

(* Once every thread is gone and its signals are handled, the overlay and the window *)
(* that takes clicks are down, in whatever order Stop, Start and the ends came       *)
(* (session.py:97-134, overlay.py:162).                                              *)
THEOREM StoppingCleansUp == Spec => []StoppedIsClean
<1>1. WatchInv => StoppedIsClean
  BY DEF WatchInv, CleanInv, AllGone, StoppedIsClean
<1> QED
  BY <1>1, WatchInvariant, PTL
=============================================================================
