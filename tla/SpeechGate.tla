----------------------------- MODULE SpeechGate -----------------------------
(***************************************************************************)
(* What of a recording is sent for transcription (stt/speech_gate.py), in  *)
(* the session that collects it (_BufferSession): find_speech compares the *)
(* level of each frame with the noise of the whole recording, and sends    *)
(* the samples from the first frame of speech to the last, with margins.   *)
(* The session takes audio until it is finished or cancelled; a cancel     *)
(* while the request is under way does not call it back.                   *)
(***************************************************************************)
EXTENDS Naturals, Integers, Sequences, FiniteSets, SequencesExt, FiniteSetsExt

CONSTANTS
  Levels,       \* the levels of frames, in dB
  FrameMax,     \* the frames of a recording
  FrameSize,    \* the samples of a frame
  AboveNoise, AbsoluteFloor, AlwaysSpeech,   \* in dB, as in the source
  MinSpeech, BriefSpeech,                    \* in frames
  PadBefore, PadAfter                        \* in samples

ConstantsOK ==
  /\ Levels \subseteq Int
  /\ {AboveNoise, AbsoluteFloor, AlwaysSpeech} \subseteq Int
  /\ {FrameSize, MinSpeech} \subseteq Nat \ {0}
  /\ {FrameMax, BriefSpeech, PadBefore, PadAfter} \subseteq Nat

VARIABLES frames,   \* the level of each whole frame so far
          rest,     \* the samples after the last whole frame
          at,       \* "open", "asked", "done", "cancelled"
          sent,     \* the first sample sent and the one after the last
          text      \* what finish returns: "", "phrase" or "words"

speechVars == <<frames, rest, at, sent, text>>

NothingSent == <<0, 0>>
Samples == Len(frames) * FrameSize + rest

-----------------------------------------------------------------------------
\* Ten times the level below which a tenth of the frames lie: numpy's
\* percentile, between two frames in proportion.
NoiseTimesTen ==
  LET sorted == SortSeq(frames, LAMBDA a, b : a < b)
      position == Len(frames) - 1
      k == position \div 10 + 1
      part == position % 10
  IN  IF part = 0 THEN 10 * sorted[k]
      ELSE sorted[k] * (10 - part) + sorted[k + 1] * part

Least(a, b) == IF a < b THEN a ELSE b
Most(a, b) == IF a < b THEN b ELSE a

\* Mutant: silence has no floor.
NoFloor == Least(NoiseTimesTen + 10 * AboveNoise, 10 * AlwaysSpeech)
Threshold ==
  Most(10 * AbsoluteFloor,
       Least(NoiseTimesTen + 10 * AboveNoise, 10 * AlwaysSpeech))

SpeechFrames == {i \in 1 .. Len(frames) : 10 * frames[i] > Threshold}
HasSpeech == Cardinality(SpeechFrames) >= MinSpeech

\* Mutant: the margin is counted from the last frame of speech, not its end.
EndOf(last) == (last - 1) * FrameSize
AfterEnd(last) == last * FrameSize

Trimmed ==
  <<Most(0, (Min(SpeechFrames) - 1) * FrameSize - PadBefore),
    Least(Samples, AfterEnd(Max(SpeechFrames)) + PadAfter)>>

-----------------------------------------------------------------------------
Init == /\ frames = <<>> /\ rest = 0
        /\ at = "open" /\ sent = NothingSent /\ text = ""

PushAudio(level) ==
  /\ at = "open" /\ rest = 0 /\ Len(frames) < FrameMax
  /\ frames' = Append(frames, level)
  /\ UNCHANGED <<rest, at, sent, text>>

\* The recording ends within a frame.
PushRest ==
  /\ at = "open" /\ rest = 0
  /\ rest' \in 1 .. FrameSize - 1
  /\ UNCHANGED <<frames, at, sent, text>>

\* finish, up to the request; without speech there is none.
Finish ==
  /\ at = "open"
  /\ IF frames # <<>> /\ HasSpeech
     THEN at' = "asked" /\ sent' = Trimmed
     ELSE at' = "done" /\ UNCHANGED sent
  /\ UNCHANGED <<frames, rest, text>>

\* drop_hallucination.
Dropped(answer) ==
  IF Cardinality(SpeechFrames) < BriefSpeech /\ answer = "phrase" THEN ""
  ELSE answer

Answer ==
  /\ at = "asked"
  /\ \E answer \in {"", "phrase", "words"} : text' = Dropped(answer)
  /\ at' = "done"
  /\ UNCHANGED <<frames, rest, sent>>

Cancel ==
  /\ at = "open"
  /\ at' = "cancelled"
  /\ frames' = <<>> /\ rest' = 0
  /\ UNCHANGED <<sent, text>>

Next == \/ \E level \in Levels : PushAudio(level)
        \/ PushRest \/ Finish \/ Answer \/ Cancel

Spec == Init /\ [][Next]_speechVars

-----------------------------------------------------------------------------
TypeOK ==
  /\ Len(frames) <= FrameMax /\ ToSet(frames) \subseteq Levels
  /\ rest \in 0 .. FrameSize - 1
  /\ at \in {"open", "asked", "done", "cancelled"}
  /\ sent \in Nat \X Nat /\ text \in {"", "phrase", "words"}

Asked == sent # NothingSent
Loud == {i \in 1 .. Len(frames) : frames[i] > AlwaysSpeech}
Spread == Max(ToSet(frames)) - Min(ToSet(frames))

\* Speech is never cut: whoever speaks clearly for long enough is heard,
\* however loud his surroundings, with all he said and its margins as far as
\* they were recorded.
LoudNeverLost ==
  at \in {"asked", "done"} /\ Cardinality(Loud) >= MinSpeech =>
    /\ Asked
    /\ sent[1] <= Most(0, (Min(Loud) - 1) * FrameSize - PadBefore)
    /\ sent[2] >= Least(Samples, Max(Loud) * FrameSize + PadAfter)
    /\ sent[1] >= 0 /\ sent[2] <= Samples

\* Silence and even noise are never sent, where a model would hear a caption:
\* nothing below the floor, and nothing quiet that does not stand out.
QuietNeverSent ==
  Asked =>
    /\ \E i \in 1 .. Len(frames) : frames[i] > AbsoluteFloor
    /\ Loud # {} \/ Spread > AboveNoise
    /\ text = "phrase" => Cardinality(SpeechFrames) >= BriefSpeech

=============================================================================
