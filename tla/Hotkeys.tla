------------------------------- MODULE Hotkeys -------------------------------
(***************************************************************************)
(* The dictation and cancel shortcuts: PynputListener and HotkeyService on *)
(* the listener thread, the callbacks they post to the event loop, and     *)
(* what _start_hotkey of app.py makes of them.                             *)
(*                                                                         *)
(*   held       the keys that are physically down                          *)
(*   down       _modifier_keys: physical modifier keys the listener knows  *)
(*   mode, pressed, holding, toggled, armed   of HotkeyService             *)
(*   posted     callbacks handed to call_soon_threadsafe, in order; what a *)
(*              toggle starts and stops with is the same one, "toggle"     *)
(*   run        the recording the loop sees: idle, starting (run_start has *)
(*              the slot and no active run yet) or recording               *)
(*   last       (observed) the last callback posted                        *)
(*   keysUsed   steps of the environment counted against KeyLimits         *)
(***************************************************************************)
EXTENDS Naturals, Sequences, FiniteSets

CONSTANTS DictateBy, CancelBy, Keys, NameOf, Modifiers, PostedMax, KeyLimits

KeyBudgets == {"lost", "rebuilds", "ends"}

KeysConstantsOK ==
    /\ {DictateBy.key, CancelBy.key} \cap Modifiers = {} /\ DictateBy # CancelBy
    /\ KeyLimits \in [KeyBudgets -> Nat] /\ PostedMax \in Nat
ASSUME KeysAssumption == KeysConstantsOK

Modes == {"hold", "toggle"}

VARIABLES held, down, mode, pressed, holding, toggled, armed, posted, run,
          last, keysUsed

keyState == <<pressed, holding, toggled, armed>>
service == <<mode, keyState>>
keyVars == <<held, down, service, posted, run, last, keysUsed>>

UseKeys(k) == keysUsed[k] < KeyLimits[k] /\ keysUsed' = [keysUsed EXCEPT ![k] = @ + 1]

\* All of a binding's modifiers and no other.
Matches(binding, names) == names \cap Modifiers = binding.modifiers

Post(callbacks) ==
    /\ posted' = posted \o callbacks
    /\ last' = IF callbacks = << >> THEN last ELSE callbacks[Len(callbacks)]

-----------------------------------------------------------------------------
(* HotkeyService, on the listener thread. *)

\* Keys of no shortcut are not looked at.
Tracked(name) == name \in Modifiers \cup {DictateBy.key, CancelBy.key}

\* Mutant: a key that repeats while it is down counts as a new press.
IgnoresNothing(name) == FALSE
\* A key that is remembered as down: auto-repeat, or its key-up was lost.
Repeated(name) == name \in pressed

\* _fire_dictation
FirePosts ==
    IF mode = "toggle" THEN <<"toggle">>
    ELSE IF holding THEN << >> ELSE <<"start">>

HandleDown(name) ==
    IF ~Tracked(name) \/ Repeated(name)
    THEN UNCHANGED <<service, posted, last>>
    ELSE LET names == pressed \cup {name}
             fires == /\ name = DictateBy.key /\ armed
                      /\ Matches(DictateBy, names)
             cancels == /\ name = CancelBy.key
                        /\ \/ CancelBy.modifiers = {}
                           \/ Matches(CancelBy, names)
         IN /\ pressed' = names
            /\ armed' = (armed /\ ~fires)
            /\ holding' = (mode = "hold" /\ (holding \/ fires) /\ ~cancels)
            /\ toggled' = (toggled # (mode = "toggle" /\ fires))
            /\ Post((IF fires THEN FirePosts ELSE << >>)
                    \o (IF cancels THEN <<"cancel">> ELSE << >>))
            /\ UNCHANGED mode

\* Mutant: only the dictation key itself ends a hold.
KeyEndsHold(name) == name = DictateBy.key
EndsHold(name) == name = DictateBy.key \/ name \in DictateBy.modifiers

HandleUp(name) ==
    IF name \notin pressed
    THEN UNCHANGED <<service, posted, last>>
    ELSE LET ends == mode = "hold" /\ holding /\ EndsHold(name)
         IN /\ pressed' = pressed \ {name}
            /\ armed' = (armed \/ name = DictateBy.key)
            /\ holding' = (holding /\ ~ends)
            /\ Post(IF ends THEN <<"stop">> ELSE << >>)
            /\ UNCHANGED <<mode, toggled>>

\* The listener counts the physical keys of a modifier.
\* Mutant: each of them is reported.
EachSide(k) == FALSE
OtherSideDown(k) == \E j \in down \ {k} : NameOf[j] = NameOf[k]

Unhandled == UNCHANGED <<service, posted, last>>

\* on_press
ReportDown(k) ==
    IF NameOf[k] \notin Modifiers
    THEN HandleDown(NameOf[k]) /\ UNCHANGED down
    ELSE /\ down' = down \cup {k}
         /\ IF k \in down \/ OtherSideDown(k)
            THEN Unhandled ELSE HandleDown(NameOf[k])

\* on_release
ReportUp(k) ==
    IF NameOf[k] \notin Modifiers
    THEN HandleUp(NameOf[k]) /\ UNCHANGED down
    ELSE /\ down' = down \ {k}
         /\ IF k \notin down \/ OtherSideDown(k)
            THEN Unhandled ELSE HandleUp(NameOf[k])

-----------------------------------------------------------------------------
(* The user, and the system that reports or loses what the user does. *)

Press(k) ==
    /\ k \notin held /\ Len(posted) < PostedMax
    /\ held' = held \cup {k}
    /\ ReportDown(k)
    /\ UNCHANGED <<run, keysUsed>>

AutoRepeat(k) ==
    /\ k \in held /\ Len(posted) < PostedMax
    /\ ReportDown(k)
    /\ UNCHANGED <<held, run, keysUsed>>

Release(k) ==
    /\ k \in held /\ Len(posted) < PostedMax
    /\ held' = held \ {k}
    /\ \/ ReportUp(k) /\ UNCHANGED keysUsed
       \/ UseKeys("lost") /\ UNCHANGED <<down, service, posted, last>>
    /\ UNCHANGED run

\* Mutant: a new service takes over without ending the hold of the old one.
NoReset == << >>
\* reset, of the service that is replaced.
ResetPosts == IF mode = "hold" /\ holding THEN <<"stop">> ELSE << >>

\* _rebuild_hotkey after a settings change: stop, then a service that knows no
\* key to be down, perhaps of the other mode.
Rebuild ==
    /\ UseKeys("rebuilds")
    /\ Post(ResetPosts)
    /\ pressed' = {} /\ down' = {}
    /\ mode' \in Modes
    /\ holding' = FALSE /\ toggled' = FALSE /\ armed' = TRUE
    /\ UNCHANGED <<held, run>>

-----------------------------------------------------------------------------
(* The event loop. *)

\* run_start is refused while the slot is taken.
Started == IF run = "idle" THEN "starting" ELSE run
\* on_stop and run_cancel look for the active run; while one is starting there
\* is none.
Ended == IF run = "recording" THEN "idle" ELSE run

\* What a callback does.
After(callback) ==
    IF callback = "start" \/ (callback = "toggle" /\ run # "recording")
    THEN Started ELSE Ended

Deliver ==
    /\ posted # << >>
    /\ posted' = Tail(posted)
    /\ run' = After(Head(posted))
    /\ UNCHANGED <<held, down, service, last, keysUsed>>

StartReturns ==
    /\ run = "starting"
    /\ run' = "recording"
    /\ UNCHANGED <<held, down, service, posted, last, keysUsed>>

\* The start fails, or the recording ends for another reason.
EndsOtherwise ==
    /\ run # "idle"
    /\ UseKeys("ends")
    /\ run' = "idle"
    /\ UNCHANGED <<held, down, service, posted, last>>

-----------------------------------------------------------------------------
KeysInit ==
    /\ held = {} /\ down = {} /\ pressed = {}
    /\ mode \in Modes
    /\ holding = FALSE /\ toggled = FALSE /\ armed = TRUE
    /\ posted = << >>
    /\ run = "idle"
    /\ last = "none"
    /\ keysUsed = [k \in KeyBudgets |-> 0]

KeysNext ==
    \/ \E k \in Keys : Press(k) \/ AutoRepeat(k) \/ Release(k)
    \/ Rebuild \/ Deliver \/ StartReturns \/ EndsOtherwise

KeysSpec == KeysInit /\ [][KeysNext]_keyVars

-----------------------------------------------------------------------------
KeysTypeOK ==
    /\ held \subseteq Keys
    /\ down \subseteq {k \in Keys : NameOf[k] \in Modifiers}
    /\ pressed \subseteq {NameOf[k] : k \in Keys}
    /\ mode \in Modes
    /\ holding \in BOOLEAN /\ toggled \in BOOLEAN /\ armed \in BOOLEAN
    /\ posted \in Seq({"start", "stop", "toggle", "cancel"})
    /\ run \in {"idle", "starting", "recording"}
    /\ last \in {"none", "start", "stop", "toggle", "cancel"}
    /\ keysUsed \in [KeyBudgets -> Nat]

\* A hold lasts exactly as long as its keys are known to be down: pressing and
\* releasing modifiers of either side in any order never leaves a hold behind.
HoldingKeysDown ==
    holding => /\ DictateBy.key \in pressed
               /\ DictateBy.modifiers \subseteq pressed

\* The service's view of the modifiers is the listener's count of both sides.
ModifiersCounted ==
    pressed \cap Modifiers = {NameOf[k] : k \in down}

\* Holding posts starts and stops in turn: every start is followed by one stop
\* or by the cancel that took its place, also across a rebuild.
StartOrStopInTurn ==
    Len(posted') > Len(posted) =>
      /\ last' = "start" => last # "start"
      /\ last' = "stop" => last = "start"

OneDictationKey ==
    \A j, k \in Keys :
      NameOf[j] = NameOf[k] /\ NameOf[k] = DictateBy.key => j = k

\* A press of the dictation key flips the toggle at most once: repeats never
\* do, whichever modifiers come and go while the key is down.  A new service
\* takes the repeat of a key that is still down for a press, and so does one
\* after the other of two keys of the same name has come up.
FiresOnPress ==
    toggled' # toggled /\ keysUsed'["rebuilds"] = 0 /\ OneDictationKey =>
      held' # held

\* A hold lasts exactly as long as its keys are known to be down, on whichever
\* side; it posts starts and stops in turn, also across a rebuild; and a press
\* flips the toggle at most once, auto-repeat never (HotkeyService).
ShortcutsAreFollowed ==
    /\ [](HoldingKeysDown /\ ModifiersCounted)
    /\ [][StartOrStopInTurn /\ FiresOnPress]_keyVars

=============================================================================
