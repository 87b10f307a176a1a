---------------------------- MODULE AudioCapture ----------------------------
(***************************************************************************)
(* Microphone captures (audio/capture.py) and the lease they share         *)
(* (audio/device_lease.py).  Three threads meet on a capture: the audio    *)
(* callback accepts blocks into a bounded queue, an executor thread takes  *)
(* them out, and the event loop runs everything else: the consumer         *)
(* (chunks), stop and cancel.                                              *)
(*                                                                         *)
(*   lease      the capture whose token the device lease holds             *)
(*   flags      per capture, its events that are set; "device" stands for  *)
(*              a device error or a stream that finished by itself, and    *)
(*              "token" for a token it has not given back                  *)
(*   stream     the input stream: none, open, or over and not closed yet   *)
(*   callback   whether the callback is past its check of accepting        *)
(*   queued     blocks in the queue                                        *)
(*   consumer   where chunks is; "get", "got" and "empty" are the executor *)
(*              call, its block and its timeout, which the loop has yet to *)
(*              see                                                        *)
(*   busy       the capture whose stream the loop is closing: it waits for *)
(*              a callback that is running, and runs nothing else          *)
(***************************************************************************)
EXTENDS Naturals

CONSTANTS Captures, NoCapture, QueueMax

CaptureConstantsOK ==
    /\ NoCapture \notin Captures
    /\ QueueMax \in Nat \ {0}

VARIABLES lease, flags, stream, callback, queued, consumer, busy

capture == <<lease, flags, stream, callback, consumer, busy, queued>>

Flags == {"accepting", "stopped", "cancelled", "overflow", "device", "token"}
ConsumerStates == {"unused", "refused", "new", "loop", "get", "got", "empty",
                   "ended", "raised"}

LoopFree == busy = NoCapture
Has(c, flag) == flag \in flags[c]
Terminal(c) ==
    flags[c] \cap {"stopped", "cancelled", "overflow", "device"} # {}
Over(c) == consumer[c] \in {"ended", "raised"}

SetFlags(c, set) == flags' = [flags EXCEPT ![c] = set]
Consumer(c, at) == consumer' = [consumer EXCEPT ![c] = at]

\* _release_lease and DeviceLease.release: only the holder's token frees it.
Freed(c) == IF Has(c, "token") /\ lease = c THEN NoCapture ELSE lease

-----------------------------------------------------------------------------
(* The event loop. *)

\* start: the lease first, then the stream.
Open(c) ==
    /\ LoopFree
    /\ consumer[c] = "unused"
    /\ lease = NoCapture
    /\ lease' = c
    /\ SetFlags(c, {"token", "accepting"})
    /\ stream' = [stream EXCEPT ![c] = "open"]
    /\ Consumer(c, "new")
    /\ UNCHANGED <<callback, busy, queued>>

\* The lease is held, or the stream does not open: nothing is kept.
OpenRefused(c) ==
    /\ LoopFree
    /\ consumer[c] = "unused"
    /\ Consumer(c, "refused")
    /\ UNCHANGED <<lease, flags, stream, callback, busy, queued>>

\* stop and cancel up to the closing of the stream.
Close(c, event) ==
    /\ SetFlags(c, (flags[c] \ {"accepting"}) \cup {"stopped", event})
    /\ busy' = c
    /\ UNCHANGED <<lease, stream, callback, queued>>

\* A capture without a stream has been stopped before: a no-op.
StopCapture(c) ==
    /\ LoopFree
    /\ stream[c] # "none"
    /\ Close(c, "stopped")
    /\ UNCHANGED consumer

CancelCapture(c) ==
    /\ LoopFree
    /\ consumer[c] \notin {"unused", "refused"}
    /\ ~Has(c, "cancelled")
    /\ Close(c, "cancelled")
    /\ UNCHANGED consumer

\* Mutant: closing does not wait for a callback that is running.
ClosedAtOnce(c) ==
    /\ busy = c
    /\ busy' = NoCapture
    /\ stream' = [stream EXCEPT ![c] = "none"]
    /\ lease' = Freed(c)
    /\ SetFlags(c, flags[c] \ {"token"})
    /\ UNCHANGED <<callback, consumer, queued>>

\* The stream has stopped: cancel empties the queue, then the lease goes back.
Closed(c) ==
    /\ busy = c
    /\ callback[c] = "idle"
    /\ busy' = NoCapture
    /\ stream' = [stream EXCEPT ![c] = "none"]
    /\ lease' = Freed(c)
    /\ SetFlags(c, flags[c] \ {"token"})
    /\ queued' = [queued EXCEPT ![c] = IF Has(c, "cancelled") THEN 0 ELSE @]
    /\ UNCHANGED <<callback, consumer>>

\* chunks, its first step and the top of its loop.
Look(c) ==
    /\ LoopFree
    /\ consumer[c] \in {"new", "loop"}
    /\ IF Has(c, "cancelled")
       THEN /\ Consumer(c, "ended")
            /\ lease' = Freed(c)
            /\ SetFlags(c, flags[c] \ {"token"})
       ELSE Consumer(c, "get") /\ UNCHANGED <<lease, flags>>
    /\ UNCHANGED <<stream, callback, busy, queued>>

\* Mutant: an error does not stop the capture before it goes to the caller.
FinishUnclosed(c) ==
    /\ Consumer(c, IF flags[c] \cap {"device", "overflow"} # {}
                      /\ ~Has(c, "cancelled") THEN "raised" ELSE "ended")
    /\ lease' = Freed(c)
    /\ SetFlags(c, flags[c] \ {"token"})
    /\ UNCHANGED <<stream, callback, busy, queued>>

\* Mutant: after an error the lease is left to the caller.
FinishKeeps(c) ==
    /\ Consumer(c, "raised")
    /\ UNCHANGED <<lease, flags, stream, callback, busy, queued>>

\* The end of chunks: an error stops the capture; finally gives the lease back.
Finish(c) ==
    IF flags[c] \cap {"device", "overflow"} # {} /\ ~Has(c, "cancelled")
    THEN /\ Consumer(c, "raised")
         /\ SetFlags(c, (flags[c] \ {"accepting"}) \cup {"stopped"})
         /\ busy' = c
         /\ UNCHANGED <<lease, stream, callback, queued>>
    ELSE /\ Consumer(c, "ended")
         /\ lease' = Freed(c)
         /\ SetFlags(c, flags[c] \ {"token"})
         /\ UNCHANGED <<stream, callback, busy, queued>>

GoesOn(c) ==
    Consumer(c, "loop")
    /\ UNCHANGED <<lease, flags, stream, callback, busy, queued>>

\* The loop sees the timeout; what was queued since is not looked for.
ResumeEmpty(c) ==
    /\ LoopFree
    /\ consumer[c] = "empty"
    /\ IF Terminal(c) THEN Finish(c) ELSE GoesOn(c)

\* The loop sees a block, which is resampled, cut into chunks and yielded.
ResumeBlock(c) ==
    /\ LoopFree
    /\ consumer[c] = "got"
    /\ IF Terminal(c) /\ queued[c] = 0 THEN Finish(c) ELSE GoesOn(c)

-----------------------------------------------------------------------------
(* The executor thread: queue.get with a limit of 50 ms. *)

TakeBlock(c) ==
    /\ consumer[c] = "get" /\ queued[c] > 0
    /\ queued' = [queued EXCEPT ![c] = @ - 1]
    /\ Consumer(c, "got")
    /\ UNCHANGED <<lease, flags, stream, callback, busy>>

TakeTimesOut(c) ==
    /\ consumer[c] = "get" /\ queued[c] = 0
    /\ Consumer(c, "empty")
    /\ UNCHANGED <<lease, flags, stream, callback, busy, queued>>

-----------------------------------------------------------------------------
(* The audio thread. *)

callbackRest == <<lease, stream, consumer, busy>>

\* The callback finds accepting set and copies its block.
BlockArrives(c) ==
    /\ stream[c] = "open" /\ callback[c] = "idle"
    /\ Has(c, "accepting")
    /\ callback' = [callback EXCEPT ![c] = "copying"]
    /\ UNCHANGED <<flags, queued, callbackRest>>

\* Mutant: the queue has no limit.
PutAlways(c) ==
    /\ callback[c] = "copying"
    /\ callback' = [callback EXCEPT ![c] = "idle"]
    /\ queued' = [queued EXCEPT ![c] = @ + 1]
    /\ UNCHANGED <<flags, callbackRest>>

\* put_nowait; a full queue ends the capture.
PutBlock(c) ==
    /\ callback[c] = "copying"
    /\ callback' = [callback EXCEPT ![c] = "idle"]
    /\ IF queued[c] < QueueMax
       THEN /\ queued' = [queued EXCEPT ![c] = @ + 1]
            /\ UNCHANGED flags
       ELSE /\ SetFlags(c, (flags[c] \ {"accepting"}) \cup {"overflow"})
            /\ UNCHANGED queued
    /\ UNCHANGED callbackRest

\* The status of the callback reports an overflow or a device error.
StatusReport(c) ==
    /\ stream[c] = "open" /\ callback[c] = "idle"
    /\ Has(c, "accepting")
    /\ \E error \in {"overflow", "device"} :
          SetFlags(c, (flags[c] \ {"accepting"}) \cup {error})
    /\ UNCHANGED <<callback, queued, callbackRest>>

\* finished_callback of a stream that nobody closes: the device is gone.
StreamFinishes(c) ==
    /\ stream[c] = "open" /\ callback[c] = "idle"
    /\ ~Has(c, "stopped") /\ ~Has(c, "cancelled")
    /\ stream' = [stream EXCEPT ![c] = "over"]
    /\ SetFlags(c, flags[c] \cup {"device"})
    /\ UNCHANGED <<lease, callback, consumer, busy, queued>>

-----------------------------------------------------------------------------
CaptureInit ==
    /\ lease = NoCapture /\ busy = NoCapture
    /\ flags = [c \in Captures |-> {}]
    /\ stream = [c \in Captures |-> "none"]
    /\ callback = [c \in Captures |-> "idle"]
    /\ consumer = [c \in Captures |-> "unused"]
    /\ queued = [c \in Captures |-> 0]

Consume(c) == Look(c) \/ ResumeEmpty(c) \/ ResumeBlock(c) \/ Closed(c)
Executor(c) == TakeBlock(c) \/ TakeTimesOut(c)
Audio(c) == BlockArrives(c) \/ StatusReport(c) \/ StreamFinishes(c)

CaptureTypeOK ==
    /\ lease \in Captures \cup {NoCapture} /\ busy \in Captures \cup {NoCapture}
    /\ flags \in [Captures -> SUBSET Flags]
    /\ stream \in [Captures -> {"none", "open", "over"}]
    /\ callback \in [Captures -> {"idle", "copying"}]
    /\ queued \in [Captures -> 0..QueueMax]
    /\ consumer \in [Captures -> ConsumerStates]

=============================================================================
