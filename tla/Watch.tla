------------------------------- MODULE Watch -------------------------------
(***************************************************************************)
(* The watch helper: watch/session.py, watch/panel.py, watch/overlay.py.   *)
(*                                                                         *)
(* A session thread captures a window, asks the API process who is in the  *)
(* frame and posts signals to the GUI thread, which handles them one by    *)
(* one between the operator's clicks.  Stopping a session raises its flag  *)
(* and waits two seconds for it; a request may take ten, so a thread can   *)
(* outlive the wait, and its signals come late.                            *)
(*                                                                         *)
(* A frame is the pair <<session, tick>> it was captured at, and shows one *)
(* face at most.  A case is chosen and the handles take clicks throughout. *)
(***************************************************************************)
EXTENDS Integers, Sequences, FiniteSetsExt

CONSTANTS
    People,          \* who may be in front of the camera
    IdentifyEvery,   \* IDENTIFY_EVERY: every so many ticks the gallery is asked
    MaxSessions,     \* bound: sessions ever started
    MaxTicks,        \* bound: answered ticks of one session
    MaxAnswers,      \* bound: answered ticks of all sessions
    None

ASSUME BoundsAssumption ==
    MaxSessions \in Nat /\ MaxTicks \in Nat /\ MaxAnswers \in Nat /\ IdentifyEvery \in Nat \ {0}

Sessions == 1..MaxSessions
Frames == Sessions \X (0..MaxTicks)

\* None is nobody, no frame and no result of an identify pass.
ASSUME NoneAssumption ==
    /\ None \notin People /\ None \notin Frames
    /\ None \notin [frame : Frames, who : People \cup {None}]

VARIABLES
    threads,     \* each session's thread: where it is, its stop flag, its tick
    current,     \* Session._thread, 0 for none
    retained,    \* Session._retained: the last identify frame
    queue,       \* signals posted to the GUI thread, oldest first
    identities,  \* Panel._identities: the last identify result handled
    face,        \* Panel._identity_of[0]: the identify face behind the box shown
    buttons,     \* which of Start and Stop takes a click
    overlay,     \* whether the overlay is up, and a handle window with it
    gui,         \* what the GUI thread is in the middle of
    saved,       \* history: the last save
    overlapped,  \* history: sessions started before an older one's end was handled
    died         \* history: sessions whose thread an unexpected exception ended

screen == <<buttons, overlay>>
history == <<saved, overlapped, died>>
vars == <<threads, current, retained, queue, identities, face, screen, gui, history>>

-----------------------------------------------------------------------------
NoThread == [pc |-> "none", stop |-> FALSE, tick |-> 0]

Thread == [pc : {"none", "loop", "asked", "answered", "emit", "ending", "gone"},
           stop : BOOLEAN, tick : 0..MaxTicks]

\* A face as an identify pass saw it.
Face == [frame : Frames, who : People]

\* What a signal carries; an end carries no face.
Signal == [kind : {"result", "ended"}, frame : Frames, who : People \cup {None}]

IdleGui == [doing |-> "idle", joins |-> 0, offered |-> None, moved |-> FALSE]

TypeOK ==
    /\ threads \in [Sessions -> Thread]
    /\ current \in {0} \cup Sessions
    /\ retained \in Frames \cup {None}
    /\ queue \in Seq(Signal)
    /\ identities \in [frame : Frames, who : People \cup {None}] \cup {None}
    /\ face \in Face \cup {None}
    /\ face # None => identities # None /\ face = identities
    /\ buttons \in [start : BOOLEAN, stop : BOOLEAN]
    /\ overlay \in [shown : BOOLEAN, hit : BOOLEAN]
    /\ gui \in [doing : {"idle", "starting", "stopping", "closing", "closed", "menu"},
                joins : {0} \cup Sessions, offered : Face \cup {None}, moved : BOOLEAN]
    /\ saved \in [bytes : Frames, face : Face, offered : Face, ahead : BOOLEAN,
                  moved : BOOLEAN] \cup {None}
    /\ overlapped \subseteq Sessions
    /\ died \subseteq Sessions

Init ==
    /\ threads = [s \in Sessions |-> NoThread]
    /\ current = 0
    /\ retained = None
    /\ queue = << >>
    /\ identities = None
    /\ face = None
    /\ buttons = [start |-> TRUE, stop |-> FALSE]
    /\ overlay = [shown |-> FALSE, hit |-> FALSE]
    /\ gui = IdleGui
    /\ saved = None
    /\ overlapped = {}
    /\ died = {}

Identifies(tick) == tick % IdentifyEvery = 0

Started == {s \in Sessions : threads[s].pc # "none"}

-----------------------------------------------------------------------------
(* The session's thread: _run.                                              *)

Moves(s, from, to) ==
    /\ gui.doing # "closed"
    /\ threads[s].pc = from
    /\ threads' = [threads EXCEPT ![s].pc = to]
    /\ UNCHANGED <<current, identities, face, screen, gui, saved, overlapped>>

\* The top of the loop: told to stop, or the window is gone.
Leave(s) ==
    /\ Moves(s, "loop", "ending")
    /\ UNCHANGED <<retained, queue, died>>

\* The flag is down and the window is there: capture it and post it to the API.
Ask(s) ==
    /\ Moves(s, "loop", "asked")
    /\ ~ threads[s].stop
    /\ threads[s].tick < MaxTicks
    /\ MapThenSumSet(LAMBDA t : threads[t].tick, Sessions) < MaxAnswers
    /\ UNCHANGED <<retained, queue, died>>

\* The capture or the API failed: after a pause the same tick again.
AskFails(s) ==
    /\ Moves(s, "asked", IF threads[s].stop THEN "ending" ELSE "loop")
    /\ UNCHANGED <<retained, queue, died>>

\* An exception that is neither: the thread ends without a word.
Dies(s) ==
    /\ Moves(s, "asked", "gone")
    /\ died = {}
    /\ died' = {s}
    /\ UNCHANGED <<retained, queue>>

\* The answer is there; one that comes after the stop is thrown away.
Answer(s) ==
    /\ Moves(s, "asked", IF threads[s].stop THEN "ending" ELSE "answered")
    /\ UNCHANGED <<retained, queue, died>>

FrameOf(s) == <<s, threads[s].tick>>

\* Mutant: the last frame is kept whatever its cadence.
RetainAny(s) ==
    /\ Moves(s, "answered", "emit")
    /\ retained' = FrameOf(s)
    /\ UNCHANGED <<queue, died>>

Retain(s) ==
    /\ Moves(s, "answered", "emit")
    /\ retained' = IF Identifies(threads[s].tick) THEN FrameOf(s) ELSE retained
    /\ UNCHANGED <<queue, died>>

Post(kind, frame, who) == queue' = Append(queue, [kind |-> kind, frame |-> frame, who |-> who])

\* result.emit, and on to the next tick.
Emit(s, who) ==
    /\ gui.doing # "closed"
    /\ threads[s].pc = "emit"
    /\ threads' = [threads EXCEPT ![s].pc = "loop", ![s].tick = @ + 1]
    /\ Post("result", FrameOf(s), who)
    /\ UNCHANGED <<current, retained, identities, face, screen, gui, history>>

\* Mutant: only a window that closed is worth a signal.
EndUnlessStopped(s) ==
    /\ Moves(s, "ending", "gone")
    /\ IF threads[s].stop THEN queue' = queue ELSE Post("ended", FrameOf(s), None)
    /\ UNCHANGED <<retained, died>>

\* ended.emit, the last thing a thread does.
End(s) ==
    /\ Moves(s, "ending", "gone")
    /\ Post("ended", FrameOf(s), None)
    /\ UNCHANGED <<retained, died>>

-----------------------------------------------------------------------------
(* The operator's clicks: Panel, with Session.start and Session.stop.       *)

\* Mutant: starting takes it that nothing runs.
StopNothing ==
    /\ current' = 0
    /\ threads' = threads

\* Session.stop: the flag goes up and the thread is forgotten.
RaiseFlag ==
    /\ current' = 0
    /\ threads' = IF current = 0 THEN threads ELSE [threads EXCEPT ![current].stop = TRUE]

\* The start of Session.start stops what runs.
StopFirst == RaiseFlag

\* The GUI thread waits for the thread it stopped.
Waits(doing) == gui' = [IdleGui EXCEPT !.doing = doing, !.joins = current]

\* join(timeout): the thread is gone, or in a capture or a request that takes longer.
Joined == \A s \in Sessions : s = gui.joins => threads[s].pc \in {"gone", "asked"}

\* Overlay.finish, then the buttons.
Finish ==
    /\ overlay' = [shown |-> FALSE, hit |-> FALSE]
    /\ buttons' = [start |-> TRUE, stop |-> FALSE]

\* Mutant: the face behind the box is not reset.
ForgetIdentities == identities' = None /\ face' = face

\* A new session knows nobody yet.
Forget == identities' = None /\ face' = None

\* _on_start, up to the wait in Session.start; self_test may refuse before anything.
ClickStart ==
    /\ gui.doing = "idle" /\ buttons.start
    /\ Started # Sessions
    /\ Forget
    /\ overlay' = [shown |-> TRUE, hit |-> FALSE]
    /\ StopFirst
    /\ Waits("starting")
    /\ UNCHANGED <<retained, queue, buttons, history>>

\* An older session whose end the panel has not handled yet.
Unheard(s) ==
    \/ threads[s].pc \notin {"none", "gone"}
    \/ \E i \in DOMAIN queue : queue[i].kind = "ended" /\ queue[i].frame[1] = s

StartThread ==
    /\ gui.doing = "starting" /\ Joined
    /\ \E s \in Sessions \ Started :
          /\ \A t \in Sessions \ Started : s <= t
          /\ threads' = [threads EXCEPT ![s].pc = "loop"]
          /\ current' = s
          /\ overlapped' = IF \E t \in Started : Unheard(t) THEN overlapped \cup {s}
                           ELSE overlapped
    /\ retained' = None
    /\ buttons' = [start |-> FALSE, stop |-> TRUE]
    /\ gui' = IdleGui
    /\ UNCHANGED <<queue, identities, face, overlay, saved, died>>

ClickStop ==
    /\ gui.doing = "idle" /\ buttons.stop
    /\ RaiseFlag
    /\ Waits("stopping")
    /\ UNCHANGED <<retained, queue, identities, face, screen, history>>

Stopped ==
    /\ gui.doing = "stopping" /\ Joined
    /\ Finish
    /\ gui' = IdleGui
    /\ UNCHANGED <<threads, current, retained, queue, identities, face, history>>

\* closeEvent; the threads are daemons and go with the process.
CloseWindow ==
    /\ gui.doing = "idle"
    /\ RaiseFlag
    /\ Waits("closing")
    /\ UNCHANGED <<retained, queue, identities, face, screen, history>>

Closed ==
    /\ gui.doing = "closing" /\ Joined
    /\ gui' = [IdleGui EXCEPT !.doing = "closed"]
    /\ overlay' = [shown |-> FALSE, hit |-> FALSE]
    /\ UNCHANGED <<threads, current, retained, queue, identities, face, buttons, history>>

-----------------------------------------------------------------------------
(* The signals: Panel._on_result and Panel._on_ended.                       *)

\* A nested event loop under an open menu handles signals too.
Handling ==
    /\ gui.doing \in {"idle", "menu"}
    /\ queue # << >>
    /\ queue' = Tail(queue)
    /\ gui' = [gui EXCEPT !.moved = gui.doing = "menu"]
    /\ UNCHANGED <<threads, current, retained, history>>

Signalled == Head(queue)

\* An identify result: its faces are the identities now.
OnIdentified ==
    /\ Handling
    /\ Signalled.kind = "result" /\ Identifies(Signalled.frame[2])
    /\ identities' = [frame |-> Signalled.frame, who |-> Signalled.who]
    /\ face' = IF Signalled.who = None THEN None ELSE identities'
    /\ overlay' = [overlay EXCEPT !.hit = Signalled.who # None]
    /\ UNCHANGED buttons

\* A boxes-only result: its box may overlap the identity's, or no box at all.
OnBoxes ==
    /\ Handling
    /\ Signalled.kind = "result" /\ ~ Identifies(Signalled.frame[2])
    /\ overlay' = [overlay EXCEPT !.hit = Signalled.who # None]
    /\ \/ face' = None
       \/ /\ Signalled.who # None /\ identities # None /\ identities.who # None
          /\ face' = identities
    /\ UNCHANGED <<identities, buttons>>

OnEnded ==
    /\ Handling
    /\ Signalled.kind = "ended"
    /\ Finish
    /\ UNCHANGED <<identities, face>>

-----------------------------------------------------------------------------
(* Saving: save_and_tag, from a row of the panel or from the menu.          *)

\* _refusal finds nothing against it.
Savable == retained # None /\ identities # None /\ face # None

\* The retained frame's own result is not handled yet.
Ahead ==
    \/ \E i \in DOMAIN queue : queue[i].kind = "result" /\ queue[i].frame = retained
    \/ \E s \in Sessions : threads[s].pc = "emit" /\ FrameOf(s) = retained

Save(offered, moved) ==
    /\ Savable
    /\ saved' = [bytes |-> retained, face |-> face, offered |-> offered,
                 ahead |-> Ahead, moved |-> moved]
    /\ UNCHANGED <<threads, current, retained, queue, identities, face, screen,
                   overlapped, died>>

ClickRow ==
    /\ gui.doing = "idle"
    /\ Save(face, FALSE)
    /\ UNCHANGED gui

\* _on_picked: a click on a handle opens a menu about the face it is on.
OpenMenu ==
    /\ gui.doing = "idle"
    /\ overlay.hit /\ Savable
    /\ gui' = [IdleGui EXCEPT !.doing = "menu", !.offered = face]
    /\ UNCHANGED <<threads, current, retained, queue, identities, face, screen, history>>

PickSave ==
    /\ gui.doing = "menu"
    /\ Save(gui.offered, gui.moved)
    /\ gui' = IdleGui

\* The menu is dismissed, or the save is refused by now.
LeaveMenu ==
    /\ gui.doing = "menu"
    /\ gui' = IdleGui
    /\ UNCHANGED <<threads, current, retained, queue, identities, face, screen, history>>

-----------------------------------------------------------------------------
ThreadStep(s) ==
    \/ Leave(s) \/ Ask(s) \/ AskFails(s) \/ Dies(s) \/ Answer(s) \/ Retain(s)
    \/ \E who \in People \cup {None} : Emit(s, who)
    \/ End(s)

Next ==
    \/ \E s \in Sessions : ThreadStep(s)
    \/ ClickStart \/ StartThread \/ ClickStop \/ Stopped \/ CloseWindow \/ Closed
    \/ OnIdentified \/ OnBoxes \/ OnEnded
    \/ ClickRow \/ OpenMenu \/ PickSave \/ LeaveMenu

Spec == Init /\ [][Next]_vars

-----------------------------------------------------------------------------
(* Properties.                                                              *)

\* A frame captured before another one.
Before(f, g) == f[1] < g[1] \/ (f[1] = g[1] /\ f[2] < g[2])

(* What is stored as evidence is what the operator was shown: the bytes are    *)
(* those of the identify pass the box and the name come from, and the face is *)
(* the one that was offered.  Two races do not keep that: the thread has     *)
(* retained a frame whose result the panel has not handled yet, and a result *)
(* came in under the open menu.  They only ever move ahead: the bytes stored *)
(* are never older than the face stored with them, nor that face than the    *)
(* one offered, over every stop and start (panel.py:497-530,                 *)
(* session.py:118-124).                                                      *)
SavedAsShown ==
    saved # None =>
        /\ saved.bytes # saved.face.frame => saved.ahead /\ Before(saved.face.frame, saved.bytes)
        /\ saved.face # saved.offered =>
              saved.moved /\ ~ Before(saved.face.frame, saved.offered.frame)

Capturing(s) == threads[s].pc \in {"loop", "asked", "answered", "emit"} /\ ~ threads[s].stop

(* One session at most captures the screen, and while one does the overlay is  *)
(* up and Stop takes a click: nobody is watched without a way to see and end  *)
(* it.  Except a session started before an older one's end was handled, whose *)
(* overlay that end takes down (session.py:70-134, panel.py:359-392).         *)
CaptureIsShown ==
    /\ \A s, t \in Sessions : Capturing(s) /\ Capturing(t) => s = t
    /\ \A s \in Sessions \ overlapped :
          Capturing(s) /\ gui.doing = "idle" => overlay.shown /\ buttons.stop

(* Once all threads are gone and their signals handled, the overlay is down    *)
(* and so are the windows that swallow clicks, whatever came in after Stop,   *)
(* unless a thread died without a signal (session.py:97-134, overlay.py:162). *)
StoppedIsClean ==
    gui.doing = "idle" /\ died = {} /\ queue = << >>
      /\ (\A s \in Started : threads[s].pc = "gone") =>
        overlay = [shown |-> FALSE, hit |-> FALSE] /\ buttons.start
=============================================================================
