------------------------------- MODULE Overlay -------------------------------
(***************************************************************************)
(* What the user is told about the runs: the status events of the          *)
(* controller, the event router that shows and hides the overlay and plays *)
(* the ticks (app.EventRouter), and the overlay's own thread, which takes  *)
(* the commands from a queue, draws, and repaints on a timer (NativeHud).  *)
(*                                                                         *)
(* A run's own work is reduced to the events it publishes, in the order    *)
(* the controller publishes them: a stop frees the recording slot at once, *)
(* the event "processing" follows once the queued audio is drained and the *)
(* row written, and a run that is deleted publishes nothing more.          *)
(***************************************************************************)
EXTENDS Naturals, Sequences

CONSTANTS Runs,       \* the runs of a session
          Deletable,  \* the runs the user deletes
          MaxQueue,   \* commands that wait for the overlay's thread
          None        \* no run

ConstantsOK ==
  /\ Deletable \subseteq Runs
  /\ None \notin Runs
  /\ MaxQueue \in Nat

VARIABLES
  phase,      \* what each run does
  cueRun,     \* _recording_run: the run whose start was ticked
  ticked,     \* the ticks played for each run
  hides,      \* the runs whose end will hide the overlay 1.5 s later
  commands,   \* _commands of the overlay
  open,       \* the overlay's window exists
  shown,      \* _shown
  status,     \* _status, which the label and the dot are drawn from
  picture     \* the status the window shows

runVars == <<phase, cueRun, ticked, hides>>
hudVars == <<open, shown, status, picture>>
overlayVars == <<phase, cueRun, ticked, hides, commands, open, shown, status,
                 picture>>

\* Statuses that show the overlay; every other one hides it. awaiting stands
\* for awaiting_cleanup_choice and awaiting_destination, ended for held and
\* the terminal ones.
Showing == {"recording", "processing", "awaiting"}
Statuses == Showing \cup {"ended"}

Show == [name |-> "show"]
Hide == [name |-> "hide"]
Destroy == [name |-> "destroy"]
State(s) == [name |-> "state", status |-> s]
Commands == {Show, Hide, Destroy} \cup {State(s) : s \in Statuses}

TypeOK ==
  /\ phase \in [Runs -> Statuses \cup {"none", "stopped", "deleted"}]
  /\ cueRun \in Runs \cup {None}
  /\ ticked \in [Runs -> SUBSET {"start", "stop"}]
  /\ hides \subseteq Runs
  /\ commands \in Seq(Commands) /\ Len(commands) <= MaxQueue
  /\ open \in BOOLEAN /\ shown \in BOOLEAN
  /\ status \in Statuses \cup {"idle"}
  /\ picture \in Statuses \cup {"idle"}

Init ==
  /\ phase = [r \in Runs |-> "none"]
  /\ cueRun = None
  /\ ticked = [r \in Runs |-> {}]
  /\ hides = {}
  /\ commands = <<>>
  /\ open = TRUE
  /\ shown = FALSE
  /\ status = "idle"
  /\ picture = "idle"

(***************************************************************************)
(* EventRouter.publish                                                     *)
(***************************************************************************)

\* Mutant: the end of any run plays the stop tick.
AnyEnd(r, s) == s # "recording" /\ cueRun # None
\* Whether the event is the end of the recording that was ticked.
EndsRecording(r, s) == s # "recording" /\ cueRun = r

\* One tick when a run starts to record, one when it stops.
Cue(r, s) ==
  CASE s = "recording" /\ cueRun # r ->
         /\ cueRun' = r
         /\ ticked' = [ticked EXCEPT ![r] = @ \cup {"start"}]
    [] EndsRecording(r, s) ->
         /\ cueRun' = None
         /\ ticked' = [ticked EXCEPT ![cueRun] = @ \cup {"stop"}]
    [] OTHER -> UNCHANGED <<cueRun, ticked>>

\* Mutant: no end hides the overlay.
NeverHides(r) == hides
\* call_later(1.5, hud.hide)
HideLater(r) == hides \cup {r}

\* Commands reach the queue as long as the overlay is there.
Post(new) ==
  /\ Len(commands \o new) <= MaxQueue
  /\ commands' = IF open THEN commands \o new ELSE commands

\* The event goes to the overlay as a state, then ticks, then shows or hides.
Publish(r, s) ==
  /\ Cue(r, s)
  /\ IF s \in Showing
     THEN Post(<<State(s), Show>>) /\ UNCHANGED hides
     ELSE Post(<<State(s)>>) /\ hides' = HideLater(r)

\* One and a half seconds after the end of a run.
HideFires(r) ==
  /\ r \in hides
  /\ hides' = hides \ {r}
  /\ Post(<<Hide>>)
  /\ UNCHANGED <<phase, cueRun, ticked, hudVars>>

(***************************************************************************)
(* The events of a run, as the controller publishes them.                  *)
(***************************************************************************)

Move(r, p) == phase' = [phase EXCEPT ![r] = p]

\* A recording starts when no other run holds the slot.
StartRun(r) ==
  /\ phase[r] = "none"
  /\ \A q \in Runs : phase[q] # "recording"
  /\ Move(r, "recording")
  /\ Publish(r, "recording")
  /\ UNCHANGED hudVars

\* The capture stops: the slot is free, and no event says so yet.
StopRun(r) ==
  /\ phase[r] = "recording"
  /\ Move(r, "stopped")
  /\ UNCHANGED <<cueRun, ticked, hides, commands, hudVars>>

\* The audio is drained, or a choice was made, or the run is retried (a retry
\* within the 1.5 s before its own hide is left out: hides holds a run once).
ProcessRun(r) ==
  /\ phase[r] \in {"stopped", "awaiting", "ended"}
  /\ r \notin hides
  /\ Move(r, "processing")
  /\ Publish(r, "processing")
  /\ UNCHANGED hudVars

\* The run waits for a choice of the user, or for its destination.
AwaitUser(r) ==
  /\ phase[r] = "processing"
  /\ Move(r, "awaiting")
  /\ Publish(r, "awaiting")
  /\ UNCHANGED hudVars

\* Done, held, cancelled or failed, from wherever the run is.
EndRun(r) ==
  /\ phase[r] \in {"recording", "stopped", "processing", "awaiting"}
  /\ Move(r, "ended")
  /\ Publish(r, "ended")
  /\ UNCHANGED hudVars

\* _publish_state is silent about an aborted run.
DeleteRun(r) ==
  /\ r \in Deletable
  /\ phase[r] \notin {"none", "deleted"}
  /\ Move(r, "deleted")
  /\ UNCHANGED <<cueRun, ticked, hides, commands, hudVars>>

\* Shutdown destroys the overlay.
DestroyOverlay ==
  /\ open
  /\ Destroy \notin {commands[i] : i \in DOMAIN commands}
  /\ Post(<<Destroy>>)
  /\ UNCHANGED <<runVars, hudVars>>

(***************************************************************************)
(* The overlay's thread.                                                   *)
(***************************************************************************)

\* A frame may fail, and then the window keeps the one it had.
Draws(s) == picture' \in {s, picture}

\* Mutant: a destroyed window keeps its thread.
NeverCloses == UNCHANGED open
\* The window goes, the message loop ends and the thread with it.
Closes == open' = FALSE

\* One command of the queue (_drain_commands).
TakeCommand ==
  /\ open
  /\ commands # <<>>
  /\ commands' = Tail(commands)
  /\ LET command == Head(commands)
     IN \/ /\ command = Show
           /\ shown' = TRUE
           /\ Draws(status)
           /\ UNCHANGED <<open, status>>
        \/ /\ command = Hide
           /\ shown' = FALSE
           /\ UNCHANGED <<open, status, picture>>
        \/ /\ command.name = "state"
           /\ status' = command.status
           /\ Draws(command.status)
           /\ UNCHANGED <<open, shown>>
        \/ /\ command = Destroy
           /\ shown' = FALSE
           /\ Closes
           /\ UNCHANGED <<status, picture>>
  /\ UNCHANGED runVars

\* Mutant: only a hidden overlay is repainted.
AnimatesHidden == open /\ ~shown /\ status = "recording"
\* The timer repaints a shown overlay while it shows a recording.
Animates == open /\ shown /\ status = "recording"

Animate ==
  /\ Animates
  /\ Draws(status)
  /\ UNCHANGED <<runVars, commands, open, shown, status>>

\* A frame that succeeds.
Repaint == Animate /\ picture' = status

Next ==
  \/ \E r \in Runs : \/ StartRun(r) \/ StopRun(r) \/ ProcessRun(r)
                     \/ AwaitUser(r) \/ EndRun(r) \/ DeleteRun(r)
                     \/ HideFires(r)
  \/ TakeCommand \/ Animate \/ DestroyOverlay

Spec == Init /\ [][Next]_overlayVars

\* The loop's timers fire, the thread takes its commands, and frames do not
\* fail for ever. What a run does next is up to the user and the models.
FairSpec ==
  /\ Spec
  /\ \A r \in Runs : WF_overlayVars(HideFires(r))
  /\ WF_overlayVars(TakeCommand)
  /\ SF_overlayVars(Repaint)

(***************************************************************************)
(* Properties.                                                             *)
(***************************************************************************)

\* The stop tick is never heard while a run records, whatever the runs before
\* it still publish.
NoStopTick ==
  \A r \in Runs : "stop" \in ticked'[r] \ ticked[r]
                  => \A q \in Runs : phase'[q] # "recording"

\* When every run has ended the overlay goes away.
AllEnded == \A r \in Runs : phase[r] \in {"none", "ended", "deleted"}
HiddenAtTheEnd == []<>(~shown \/ ~AllEnded)

\* A recording the overlay shows is drawn as one, though frames may fail.
ListeningIsDrawn ==
  shown /\ status = "recording"
    ~> picture = "recording" \/ status # "recording" \/ ~shown

\* A destroyed overlay ends its thread.
DestroyEnds == [](Destroy \in {commands[i] : i \in DOMAIN commands} => <>~open)

=============================================================================
