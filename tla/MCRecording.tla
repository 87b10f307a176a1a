----------------------------- MODULE MCRecording -----------------------------
(***************************************************************************)
(* The recording side of the program on small instances: the slot of       *)
(* RunController (RecordingSlot), the microphone (Microphone), the         *)
(* shortcuts (Hotkeys), the overlay (Overlay), the part of a recording     *)
(* that is sent (SpeechGate) and, extended because theorems are about      *)
(* them, the hosted cleanup (CleanupChain) and the way into the field      *)
(* (Destination).  They share no variable, so a property of one holds in   *)
(* every interleaving of them if it holds while that one moves alone: a    *)
(* behaviour is one of one part, chosen at the start, and the states of    *)
(* the parts add up instead of multiplying.                                *)
(*                                                                         *)
(*   slot      starts that fail, are cancelled, retried, also before the   *)
(*             failed run has let go, or asked for again; in the other     *)
(*             run, deletions at any point and requests delivered again    *)
(*   blocks    a recording and the first microphone test, with blocks to   *)
(*             lose                                                        *)
(*   tests     three microphone tests that wait for each other             *)
(*   released  a recording and a test that have to give the device back    *)
(*   shortcuts both modes of the shortcuts on a small keyboard             *)
(*   overlay   what the user is told about two runs, also deleted ones     *)
(*   ending    the overlay without deletions, under fairness               *)
(*   cleanup   two dictations cleaned over a chain of three models         *)
(*   typing    one text for one of four fields in three tabs, two windows  *)
(*   speech    recordings of a few frames, from silence to speech          *)
(***************************************************************************)
EXTENDS CleanupChain, Destination, RecordingSlot, Microphone,
        Hotkeys, Integers

CONSTANT Parts   \* the parts of this instance

VARIABLES part,
          phase, cueRun, ticked, hides, commands, open, shown, status, picture,
          frames, rest, stage, sent, heard

hudVars == <<phase, cueRun, ticked, hides, commands, open, shown, status,
             picture>>
speechVars == <<frames, rest, stage, sent, heard>>
vars == <<part, slotVars, micVars, keyVars, hudVars, cleanupVars,
          destinationVars, speechVars>>

-----------------------------------------------------------------------------
Budgeted(of) == [k \in SlotBudgets |-> IF k \in DOMAIN of THEN of[k] ELSE 0]

\* A request delivered again, and a retry that comes early; or deletions.
RepeatLimits == Budgeted([repeats |-> 1, faults |-> 1, cancels |-> 1,
                          retries |-> 2, early |-> 1])
DeletionLimits == Budgeted([repeats |-> 1, cancels |-> 1, deletes |-> 2])

\* A longer queue, and no start that waits.
Blocks == INSTANCE Microphone WITH QueueMax <- 2, StartMax <- 0

\* The default shortcuts, with a modifier that has two physical keys and one
\* that no shortcut uses.
Keyboard == {"ctrl_l", "ctrl_r", "shift_l", "space", "escape"}
Names == [k \in Keyboard |-> CASE k \in {"ctrl_l", "ctrl_r"} -> "ctrl"
                               [] k = "shift_l" -> "shift"
                               [] OTHER -> k]
DictationKeys == [modifiers |-> {"ctrl"}, key |-> "space"]
CancelKeys == [modifiers |-> {}, key |-> "escape"]

FewKeyEvents == [lost |-> 1, rebuilds |-> 1, ends |-> 1]

Hud == INSTANCE Overlay
       WITH Runs <- 1 .. 2, Deletable <- 1 .. 2, MaxQueue <- 3, None <- 0
HudEnding == INSTANCE Overlay
             WITH Runs <- 1 .. 2, Deletable <- {}, MaxQueue <- 3, None <- 0

\* Three models for two dictations; two attempts and a bit.
ThreeModels == <<"a", "b", "c">>

\* One window with two tabs, the first with two fields, and another window.
TabWindows == [t1 |-> "w1", t2 |-> "w1", t3 |-> "w2"]
FieldTabs == [f |-> "t1", g |-> "t1", h |-> "t2", k |-> "t3"]

\* Levels below the floor, near it, above the noise and clearly audible; the
\* margins are no multiples of a frame.
Speech == INSTANCE SpeechGate
          WITH Levels <- {-75, -60, -48, -30}, FrameMax <- 6, FrameSize <- 2,
               AboveNoise <- 10, AbsoluteFloor <- -50, AlwaysSpeech <- -40,
               MinSpeech <- 2, BriefSpeech <- 4, PadBefore <- 3,
               PadAfter <- 5, at <- stage, text <- heard

ASSUME ConstantsAreSound ==
    /\ Blocks!MicConstantsOK
    /\ Hud!ConstantsOK /\ HudEnding!ConstantsOK /\ Speech!ConstantsOK

-----------------------------------------------------------------------------
Init ==
    /\ part \in Parts
    /\ SlotInit
    /\ MicInit
    /\ KeysInit /\ (part # "shortcuts" => mode = "hold")
    /\ Hud!Init
    /\ CleanupInit
    /\ DestinationInit
    /\ Speech!Init
    /\ part # "typing" => front = "w1" /\ clipboard = "old"

SlotMoves ==
    /\ part = "slot" /\ SlotNext
    /\ UNCHANGED <<part, micVars, keyVars, hudVars, cleanupVars,
                   destinationVars, speechVars>>
\* The captures that a part leaves alone.
Unused(set) == \A c \in set : consumer'[c] = "unused"
MicrophoneMoves ==
    /\ \/ part = "blocks" /\ Blocks!MicNext /\ Unused({2, 3})
       \/ part = "tests" /\ MicNext /\ Unused(Recordings)
       \/ part = "released" /\ MicNext
    /\ UNCHANGED <<part, slotVars, keyVars, hudVars, cleanupVars,
                   destinationVars, speechVars>>
KeysMove ==
    /\ part = "shortcuts" /\ KeysNext
    /\ UNCHANGED <<part, slotVars, micVars, hudVars, cleanupVars,
                   destinationVars, speechVars>>
HudMoves ==
    /\ \/ part = "overlay" /\ Hud!Next
       \/ part = "ending" /\ HudEnding!Next
    /\ UNCHANGED <<part, slotVars, micVars, keyVars, cleanupVars,
                   destinationVars, speechVars>>
CleanupMoves ==
    /\ part = "cleanup" /\ CleanupNext
    /\ UNCHANGED <<part, slotVars, micVars, keyVars, hudVars, destinationVars,
                   speechVars>>
TypingMoves ==
    /\ part = "typing" /\ DestinationNext
    /\ UNCHANGED <<part, slotVars, micVars, keyVars, hudVars, cleanupVars,
                   speechVars>>
SpeechMoves ==
    /\ part = "speech" /\ Speech!Next
    /\ UNCHANGED <<part, slotVars, micVars, keyVars, hudVars, cleanupVars,
                   destinationVars>>

Next == \/ SlotMoves \/ MicrophoneMoves \/ KeysMove \/ HudMoves
        \/ CleanupMoves \/ TypingMoves \/ SpeechMoves

Spec == Init /\ [][Next]_vars

\* The fairness of RecordingSlot, Microphone and Overlay.
FairSpec ==
    /\ Spec
    /\ \A r \in Runs :
         /\ WF_slotVars(part = "slot" /\ StartStep(r))
         /\ WF_slotVars(part = "slot" /\ ProcessStep(r))
         /\ WF_slotVars(part = "slot" /\ RetryStep(r))
         /\ WF_slotVars(part = "slot" /\ CancelCommit(r))
    /\ WF_slotVars(part = "slot" /\ DeleteCommit)
    /\ WF_slotVars(part = "slot" /\ DeleteAllReturns)
    /\ \A c \in Captures :
         /\ SF_micVars(part = "released" /\ Threads(c))
         /\ SF_micVars(part = "released" /\ Pump(c))
    /\ \A r \in 1 .. 2 : WF_hudVars(part = "ending" /\ HudEnding!HideFires(r))
    /\ WF_hudVars(part = "ending" /\ HudEnding!TakeCommand)
    /\ SF_hudVars(part = "ending" /\ HudEnding!Repaint)

-----------------------------------------------------------------------------
TypeOK ==
    /\ SlotTypeOK
    /\ IF part = "blocks" THEN Blocks!MicTypeOK ELSE MicTypeOK
    /\ KeysTypeOK
    /\ Hud!TypeOK
    /\ CleanupTypeOK
    /\ DestinationTypeOK
    /\ Speech!TypeOK

\* Who speaks clearly for long enough is heard, entirely; silence and even
\* noise are never sent for transcription (find_speech).
SpeechIsSent == Speech!LoudNeverLost /\ Speech!QuietNeverSent

-----------------------------------------------------------------------------
\* A deleted run does not record, wherever its start had come to, and gives up
\* the slot (abort, start, _process; WO-M4c).
DeletedIsOver ==
    /\ [](part = "slot" => NeverOrphaned)
    /\ part = "slot" => DeletedLetsGo

\* Every start request is answered, however its run is aborted on the way, and
\* delivered again it never starts a second run (RunCommands).
StartAnsweredOnce ==
    /\ [](part = "slot" => AnsweredOnce)
    /\ part = "slot" => StartAnswered

\* An overflow, a device error, a stop or a cancel gives the microphone back,
\* and a test gives it back by itself.
MicrophoneReturned ==
    part = "released" => LeaseReturned /\ TestEnds

\* The stop tick is never heard while a run records; a recording is drawn as
\* one though frames may fail, the overlay goes away when every run has ended,
\* and its thread ends with it (EventRouter, native_hud).
OverlayIsTrue ==
    /\ [][Hud!NoStopTick]_vars
    /\ part = "ending" => /\ HudEnding!ListeningIsDrawn
                          /\ HudEnding!HiddenAtTheEnd
                          /\ HudEnding!DestroyEnds

=============================================================================
