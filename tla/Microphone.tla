----------------------------- MODULE Microphone -----------------------------
(***************************************************************************)
(* Everything that uses the microphone: the recordings of runs, and the    *)
(* microphone test of application/commands/audio_commands.py, over the     *)
(* captures of AudioCapture.                                               *)
(*                                                                         *)
(* A test is a capture, a consumer task and a pump task with a timer.      *)
(* _capture and _task of AudioCommands are set and cleared together, so    *)
(* current stands for both.  pump[c] is the pump task of test c.  starts   *)
(* are mic_test_start commands waiting for a test that is finishing;       *)
(* their number is bounded by StartMax.                                    *)
(***************************************************************************)
EXTENDS AudioCapture, FiniteSets

CONSTANTS Tests, StartMax

Recordings == Captures \ Tests

\* Tests are numbered in the order in which they come.
MicConstantsOK ==
    /\ CaptureConstantsOK
    /\ Tests \subseteq Captures /\ Tests \subseteq Nat
    /\ StartMax \in Nat
ASSUME MicAssumption == MicConstantsOK

VARIABLES current, pump, starts

micTest == <<current, pump, starts>>
micVars == <<capture, micTest>>

TestRunning == current # NoCapture /\ pump[current] # "done"
\* _capture_stopped
CaptureStopped(c) == flags[c] \cap {"stopped", "cancelled"} # {}

\* _clear_finished
Cleared == IF TestRunning THEN current ELSE NoCapture

\* RunController.start and stop; cancel and abort both cancel the capture.
Recording(c) ==
    /\ c \in Recordings
    /\ Open(c) \/ OpenRefused(c) \/ StopCapture(c) \/ CancelCapture(c)
    /\ UNCHANGED micTest

\* The new capture of mic_test_start; if it fails it is cancelled and dropped.
NewTest(c) ==
    /\ \A t \in Tests : t < c => consumer[t] # "unused"
    /\ \/ Open(c) /\ current' = c /\ pump' = [pump EXCEPT ![c] = "running"]
       \/ OpenRefused(c) /\ current' = Cleared /\ UNCHANGED pump

\* mic_test_start with no test, or with one that is over.
TestStart(c) ==
    /\ c \in Tests
    /\ ~TestRunning
    /\ NewTest(c)
    /\ UNCHANGED starts

\* A test whose capture has stopped is finishing: its task is awaited.
TestStartWaits ==
    /\ LoopFree
    /\ TestRunning /\ CaptureStopped(current)
    /\ starts < StartMax
    /\ starts' = starts + 1
    /\ UNCHANGED <<capture, current, pump>>

\* The awaited task has ended; another start may have come first meanwhile.
TestStartGoesOn(c) ==
    /\ c \in Tests
    /\ starts > 0
    /\ \E t \in Tests : pump[t] = "done"
    /\ NewTest(c)
    /\ starts' = starts - 1

\* The wait is limited to a second.
TestStartGivesUp ==
    /\ LoopFree
    /\ starts > 0
    /\ starts' = starts - 1
    /\ UNCHANGED <<capture, current, pump>>

\* mic_test_stop
TestStop ==
    /\ TestRunning
    /\ StopCapture(current)
    /\ UNCHANGED micTest

\* Mutant: the timer leaves the capture running.
TimerIgnored(c) ==
    /\ c \in Tests
    /\ pump[c] = "running" /\ ~Over(c) /\ LoopFree
    /\ pump' = [pump EXCEPT ![c] = "stopping"]
    /\ UNCHANGED <<capture, current, starts>>

\* _pump: the timer of max_test_s ends a test that still runs.
TestTimer(c) ==
    /\ c \in Tests
    /\ pump[c] = "running" /\ ~Over(c)
    /\ pump' = [pump EXCEPT ![c] = "stopping"]
    /\ IF stream[c] = "none" THEN LoopFree /\ UNCHANGED capture
                             ELSE StopCapture(c)
    /\ UNCHANGED <<current, starts>>

\* An error of the consumer cancels the capture.
TestFails(c) ==
    /\ c \in Tests
    /\ pump[c] \in {"running", "stopping"}
    /\ consumer[c] = "raised"
    /\ CancelCapture(c)
    /\ pump' = [pump EXCEPT ![c] = "failed"]
    /\ UNCHANGED <<current, starts>>

\* Mutant: the finally clause clears the fields of whatever test there is.
ClearedBlindly(c) == NoCapture
\* The finally clause clears only its own test.
ClearedBy(c) == IF current = c THEN NoCapture ELSE current

TestDone(c) ==
    /\ c \in Tests
    /\ LoopFree
    /\ \/ pump[c] = "failed"
       \/ pump[c] \in {"running", "stopping"} /\ consumer[c] = "ended"
    /\ pump' = [pump EXCEPT ![c] = "done"]
    /\ current' = ClearedBy(c)
    /\ UNCHANGED <<capture, starts>>

-----------------------------------------------------------------------------
MicInit ==
    /\ CaptureInit
    /\ current = NoCapture
    /\ pump = [c \in Tests |-> "none"]
    /\ starts = 0

Threads(c) ==
    (Consume(c) \/ Executor(c) \/ PutBlock(c)) /\ UNCHANGED micTest

Pump(c) == TestTimer(c) \/ TestFails(c) \/ TestDone(c)

MicNext ==
    \/ \E c \in Captures : \/ Recording(c) \/ Threads(c)
                           \/ Audio(c) /\ UNCHANGED micTest
                           \/ TestStart(c) \/ TestStartGoesOn(c) \/ Pump(c)
    \/ TestStartWaits \/ TestStartGivesUp \/ TestStop

MicSpec == MicInit /\ [][MicNext]_micVars

\* Threads run, and the loop runs what is ready; the device and the user owe
\* nothing.  Strong fairness, because closing one stream keeps the loop from
\* every other capture for a while.
MicFairSpec ==
    MicSpec
    /\ \A c \in Captures : SF_micVars(Threads(c)) /\ SF_micVars(Pump(c))

-----------------------------------------------------------------------------
MicTypeOK ==
    /\ CaptureTypeOK
    /\ current \in Tests \cup {NoCapture}
    /\ pump \in [Tests -> {"none", "running", "stopping", "failed", "done"}]
    /\ starts \in 0..StartMax

\* A capture with an input stream is the one that holds the lease, on every
\* path through stop, cancel, errors and late finally clauses: two captures
\* never read the microphone at once.
StreamHasLease == \A c \in Captures : stream[c] # "none" => lease = c

\* The test that holds the microphone is the one mic_test_stop would stop,
\* also after starts that waited for the same finishing test overtook it.
TestIsStoppable == lease \in Tests => current = lease /\ pump[lease] # "done"

\* Once its stream is closed a capture accepts nothing more, not even from a
\* callback that was past its check when stop or cancel came.
AcceptsWhileOpen ==
    \A c \in Captures : queued'[c] > queued[c] => stream[c] # "none"

\* Two captures never read the microphone at once; mic_test_stop reaches the
\* test that holds it; and a closed capture accepts nothing more (capture.py,
\* AudioCommands).
MicrophoneIsOwned ==
    /\ [](StreamHasLease /\ TestIsStoppable)
    /\ [][AcceptsWhileOpen]_micVars

\* An overflow, a device error, a stop or a cancel gives the microphone back.
LeaseReturned == \A c \in Captures : Terminal(c) ~> lease # c

\* A microphone test ends by itself.
TestEnds == \A c \in Tests : lease = c ~> pump[c] = "done"

=============================================================================
