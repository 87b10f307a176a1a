---------------------------- MODULE RunLifecycle ----------------------------
(***************************************************************************)
(* The run state machine of pipeline/state_machine.py: the statuses of a   *)
(* dictation run, the transition table and the recovery actions offered in *)
(* each status.  It has no variables: the modules that keep run rows apply *)
(* these operators to them.                                                *)
(***************************************************************************)

Terminal == {"done", "cancelled"}

\* A dispatch may be in progress in these statuses only.
Dispatchable ==
    {"processing", "awaiting_destination", "held", "error", "uncertain"}

Status ==
    Dispatchable \cup Terminal \cup {"recording", "awaiting_cleanup_choice"}

\* Mutant: a run that was processing is not looked for.
InterruptedRecording == {"recording"}

\* Statuses in which a restarted application finds work that died with it.
Interrupted == {"recording", "processing"}

\* TRANSITIONS with dispatching = False: status, then event, then next status.
\* A dispatch_begin event keeps the status and sets the dispatching bit.
Moves ==
    [recording |->
        [stop |-> "processing", cancel |-> "cancelled", fail |-> "error"],
     processing |->
        [cancel |-> "cancelled", fail |-> "error",
         cleanup_failed |-> "awaiting_cleanup_choice",
         destination_away |-> "awaiting_destination", hold |-> "held",
         dispatch_begin_auto |-> "processing"],
     awaiting_cleanup_choice |->
        [retry_cleanup |-> "processing", use_original |-> "processing",
         cancel |-> "cancelled"],
     awaiting_destination |->
        [dispatch_begin_auto |-> "awaiting_destination",
         dispatch_begin_explicit |-> "awaiting_destination",
         hold |-> "held", cancel |-> "cancelled"],
     held |-> [dispatch_begin_explicit |-> "held"],
     error |->
        [retry_stt |-> "processing", dispatch_begin_explicit |-> "error"],
     uncertain |-> [dispatch_begin_explicit |-> "uncertain"],
     done |-> << >>,
     cancelled |-> << >>]

\* Mutant: an uncertain outcome counts as done.
OutcomeMoveDone ==
    [inserted |-> "done", failed |-> "error", uncertain |-> "done"]

\* TRANSITIONS with dispatching = True: the outcome alone decides the status.
OutcomeMove ==
    [inserted |-> "done", failed |-> "error", uncertain |-> "uncertain"]

Accepts(status, event) == event \in DOMAIN Moves[status]

\* _RECOVERY_ACTIONS without copy, which changes nothing.
RecoveryActions ==
    [recording |-> {}, processing |-> {}, done |-> {}, cancelled |-> {},
     awaiting_cleanup_choice |-> {"retry_cleanup", "use_original"},
     awaiting_destination |-> {"insert"},
     held |-> {"insert"},
     error |-> {"retry_stt", "insert"},
     uncertain |-> {"insert"}]

=============================================================================
