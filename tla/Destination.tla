----------------------------- MODULE Destination -----------------------------
(***************************************************************************)
(* How a text gets into the field it was dictated for: destination.capture *)
(* remembers window, tab and field; deliver_next waits for the field or    *)
(* jumps back to it (inserter.bring_forward), verifies it (verifier),      *)
(* sends the keys or pastes (inserter.dispatch), reads the field back      *)
(* (inserter.confirm) and gives window and tab back (inserter.restore).    *)
(*                                                                         *)
(* An action is one call of Windows or UI Automation, because the user,    *)
(* other programs and the field's own program go on between any two: they  *)
(* move the focus, close windows, type, copy, and take the keys sent to    *)
(* them when they get to it.  verify is one step: its last call, that the  *)
(* field has the focus, holds only while its window is in front.           *)
(* What the database and a cancel do to a delivery is in InsertionProtocol.*)
(***************************************************************************)
EXTENDS Naturals, Sequences, SequencesExt

CONSTANTS Windows, Tabs, Fields,
          WindowOf,   \* the window of each tab
          TabOf,      \* the tab of each field
          None,       \* no window, field or text
          MoveMax     \* what the user and other programs do to a delivery

Texts == {"text", "part", "old", "new", "typed"}

\* Every window has a tab and every tab a field.
DestinationConstantsOK ==
  /\ WindowOf \in [Tabs -> Windows] /\ TabOf \in [Fields -> Tabs]
  /\ \A w \in Windows : \E t \in Tabs : WindowOf[t] = w
  /\ \A t \in Tabs : \E f \in Fields : TabOf[f] = t
  /\ None \notin Windows \cup Tabs \cup Fields \cup Texts \cup {"paste"}
  /\ MoveMax \in Nat

ASSUME DestinationAssumption == DestinationConstantsOK

VARIABLES
  front,      \* the window in front
  closed,     \* the windows that are gone
  tab,        \* the tab selected in each window
  focus,      \* the field each tab gives the focus to
  content,    \* what each field holds, oldest first
  clipboard,  \* the text in the clipboard
  keys,       \* what was sent and not yet taken by a program
  at,         \* the call the delivery is at
  snap,       \* DestinationSnapshot, with the strategy that follows from it
  prev,       \* PreviousFocus of a jump
  stable,     \* the last look of bring_forward found the field settled
  before,     \* before_text
  saved,      \* old_clipboard
  result,     \* the ProtocolResult, or what goes into it
  input,      \* idle_ms shows input since the jump began, to idle_check
  seen        \* what only the properties look at

desktopVars == <<front, closed, tab, focus, content, clipboard, keys>>
deliveryVars == <<snap, prev, stable, before, saved, result>>
destinationVars == <<desktopVars, at, deliveryVars, input, seen>>

Results == {"none", "refused", "held", "failed", "uncertain", "inserted"}
Waiting == {"none", "refused"}   \* results of a run that goes on waiting
NoFocus == [jumped |-> FALSE, window |-> None, tab |-> None]
Nowhere == [window |-> None, tab |-> None, read |-> FALSE]

Home(f) == WindowOf[TabOf[f]]
Focused == IF front = None THEN None ELSE focus[tab[front]]
\* selected_tab walks the window for its selected tab and may find none.
ReadTab(w) == IF w = None THEN {None} ELSE {tab[w], None}
Seen(update) == seen' = update

DestinationInit ==
  /\ front \in Windows /\ closed = {}
  /\ tab = [w \in Windows |-> CHOOSE t \in Tabs : WindowOf[t] = w]
  /\ focus = [t \in Tabs |-> CHOOSE f \in Fields : TabOf[f] = t]
  /\ content = [f \in Fields |-> <<>>]
  /\ clipboard \in {"old", None} /\ keys = None
  /\ at = "capture"
  /\ snap = [window |-> None, tab |-> None, field |-> None, strategy |-> None]
  /\ prev = NoFocus
  /\ stable = FALSE /\ before = None /\ saved = None /\ result = "none"
  /\ input = FALSE
  /\ seen = [landed |-> {}, moved |-> FALSE, from |-> Nowhere,
             copied |-> FALSE, denied |-> FALSE, users |-> clipboard,
             moves |-> 0]

(***************************************************************************)
(* capture, while the user starts to dictate.                              *)
(***************************************************************************)
CaptureWindow ==
  /\ at = "capture" /\ front # None
  /\ \E s \in {"unicode", "paste"} :
       snap' = [snap EXCEPT !.window = front, !.strategy = s]
  /\ at' = "capture tab"
  /\ UNCHANGED <<desktopVars, prev, stable, before, saved, result, input,
                 seen>>

CaptureTab ==
  /\ at = "capture tab"
  /\ \E t \in ReadTab(snap.window) : snap' = [snap EXCEPT !.tab = t]
  /\ at' = "capture field"
  /\ UNCHANGED <<desktopVars, prev, stable, before, saved, result, input,
                 seen>>

CaptureField ==
  /\ at = "capture field"
  /\ snap' = [snap EXCEPT !.field = Focused]
  /\ at' = "capture check"
  /\ UNCHANGED <<desktopVars, prev, stable, before, saved, result, input,
                 seen>>

\* "no window" or "foreground changed" is an error, and the run starts without.
CaptureCheck ==
  /\ at = "capture check"
  /\ at' = IF front = snap.window THEN "waiting" ELSE "over"
  /\ UNCHANGED <<desktopVars, deliveryVars, input, seen>>

(***************************************************************************)
(* verify.  UI Automation may fail at any time: then the field is          *)
(* unverifiable, or its tab or focus is read as none and so has changed.   *)
(***************************************************************************)
\* Mutant: the focus is not looked at.
FocusIgnored == TRUE
FieldHasFocus == Focused = snap.field

Verdicts ==
  IF snap.window \in closed THEN {"closed"}
  ELSE IF front # snap.window THEN {"changed"}
  ELSE IF snap.field = None THEN {"unverifiable"}
  ELSE {"unverifiable", "changed"} \cup
       (IF snap.tab \in ReadTab(snap.window) /\ FieldHasFocus THEN {"same"}
        ELSE {})

\* A delivery that jumped gives the focus back before it returns.
Jumped == prev.jumped
Onward(r) == IF r \in Waiting THEN "waiting" ELSE "over"
Return(r) ==
  /\ result' = r
  /\ at' = IF Jumped THEN "restore" ELSE Onward(r)
\* ProtocolOutcome.AWAITING; a refused activation is remembered meanwhile.
Awaits == Return(result)

\* The place a jump takes the user from, when it read t for its tab.
PlaceInFront(t) ==
  IF front = None THEN Nowhere
  ELSE [window |-> front, tab |-> tab[front], read |-> t # None]

\* deliver_next: nothing more is done for a field that is away, unless the user
\* is idle; a window that would not come forward is not asked again.
Tick ==
  /\ at = "waiting"
  /\ \E v \in Verdicts :
       \/ /\ v \in {"closed", "unverifiable"}
          /\ Return("held") /\ UNCHANGED <<prev, input, seen>>
       \/ /\ v = "same"
          /\ at' = "verify" /\ UNCHANGED <<result, prev, input, seen>>
       \/ /\ v = "changed" /\ result # "refused"
          /\ input' = FALSE
          /\ \E t \in ReadTab(front) :
               /\ prev' = [jumped |-> TRUE, window |-> front, tab |-> t]
               /\ Seen([seen EXCEPT !.from = PlaceInFront(t)])
          /\ at' = "activate" /\ UNCHANGED result
  /\ UNCHANGED <<desktopVars, snap, stable, before, saved>>

(***************************************************************************)
(* bring_forward.                                                          *)
(***************************************************************************)
\* Mutant: the failed jump leaves the user where it brought him.
StaysThere == at' = "over" /\ result' = "held" /\ UNCHANGED prev
JumpFails == at' = "restore" /\ result' = "held" /\ UNCHANGED prev

Activate ==
  /\ at = "activate"
  /\ \/ /\ snap.window \notin closed
        /\ front' = snap.window
        /\ at' = "select" /\ UNCHANGED <<result, prev>>
     \/ /\ front # snap.window           \* ForegroundUnavailable
        /\ at' = "waiting" /\ result' = "refused" /\ prev' = NoFocus
        /\ UNCHANGED front
  /\ UNCHANGED <<closed, tab, focus, content, clipboard, keys, snap, stable,
                 before, saved, input, seen>>

SelectTab ==
  /\ at = "select"
  /\ \/ /\ snap.tab = None
        /\ at' = "focus" /\ UNCHANGED <<tab, result, prev>>
     \/ /\ snap.tab # None /\ snap.window \notin closed
        /\ tab' = [tab EXCEPT ![snap.window] = snap.tab]
        /\ at' = "focus" /\ UNCHANGED <<result, prev>>
     \/ snap.tab # None /\ JumpFails /\ UNCHANGED tab
  /\ UNCHANGED <<front, closed, focus, content, clipboard, keys, snap, stable,
                 before, saved, input, seen>>

\* The focus set on a field of another window may bring that one forward.
FocusElement ==
  /\ at = "focus"
  /\ \/ /\ snap.field # None /\ Home(snap.field) \notin closed
        /\ focus' = [focus EXCEPT ![TabOf[snap.field]] = snap.field]
        /\ front' \in {front, Home(snap.field)}
        /\ at' = "settle" /\ UNCHANGED <<result, prev>>
     \/ JumpFails /\ UNCHANGED <<focus, front>>
  /\ UNCHANGED <<closed, tab, content, clipboard, keys, snap, stable, before,
                 saved, input, seen>>

\* Settled on two looks in a row that are settle_s apart.
SettleLook ==
  /\ at = "settle"
  /\ LET settled == front = snap.window /\ Focused = snap.field
     IN  \/ ~(settled /\ stable) /\ stable' = settled /\ at' = "settle"
         \/ settled /\ stable /\ stable' = FALSE /\ at' = "look"
  /\ UNCHANGED <<desktopVars, snap, prev, before, saved, result, input, seen>>

SettleTimesOut ==
  /\ at = "settle"
  /\ JumpFails /\ stable' = FALSE
  /\ UNCHANGED <<desktopVars, snap, before, saved, input, seen>>

\* deliver_next after the jump.
LookAgain ==
  /\ at = "look"
  /\ \E v \in Verdicts :
       IF v # "same" THEN Return("held")
       ELSE IF input THEN Awaits
       ELSE at' = "verify" /\ UNCHANGED result
  /\ UNCHANGED <<desktopVars, snap, prev, stable, before, saved, input, seen>>

(***************************************************************************)
(* The attempt up to its dispatch.                                         *)
(***************************************************************************)
VerifyFirst ==
  /\ at = "verify"
  /\ \E v \in Verdicts :
       CASE v = "same" -> at' = "recheck" /\ UNCHANGED result
         [] v = "changed" -> Awaits
         [] OTHER -> Return("held")
  /\ UNCHANGED <<desktopVars, snap, prev, stable, before, saved, input, seen>>

Recheck ==
  /\ at = "recheck"
  /\ \E v \in Verdicts :
       IF v = "same" THEN at' = "idle" /\ UNCHANGED result
       ELSE Return("failed")
  /\ Seen([seen EXCEPT !.moved = FALSE])
  /\ UNCHANGED <<desktopVars, snap, prev, stable, before, saved, input>>

\* Input during a jump; whoever returned to the field himself may go on.
IdleCheck ==
  /\ at = "idle"
  /\ IF Jumped /\ input THEN Return("failed")
     ELSE at' = "dispatch" /\ UNCHANGED result
  /\ UNCHANGED <<desktopVars, snap, prev, stable, before, saved, input, seen>>

(***************************************************************************)
(* dispatch.  Sending accepts the keys, a part of them, or none.           *)
(***************************************************************************)
\* The text field is one copy of the transcript longer than before.
OneInsertion(old, new) ==
  /\ Len(new) = Len(old) + 1
  /\ \E i \in 1 .. Len(new) : new[i] = "text" /\ RemoveAt(new, i) = old

Readable(f) == Home(f) \notin closed

ReadBefore ==
  /\ at = "dispatch"
  /\ before' \in {None} \cup
                 (IF Readable(snap.field) THEN {content[snap.field]} ELSE {})
  /\ at' = IF snap.strategy = "paste" THEN "save" ELSE "send"
  /\ UNCHANGED <<desktopVars, snap, prev, stable, saved, result, input, seen>>

\* An exception, after which the attempt is uncertain.
Raises == Return("uncertain")

SaveClipboard ==
  /\ at = "save"
  /\ \/ saved' = clipboard /\ at' = "set" /\ UNCHANGED result
     \/ Raises /\ UNCHANGED saved
  /\ Seen([seen EXCEPT !.copied = FALSE])
  /\ UNCHANGED <<desktopVars, snap, prev, stable, before, input>>

\* Another program may hold the clipboard; the finally clause follows anyway.
SetClipboard ==
  /\ at = "set"
  /\ \/ clipboard' = "text" /\ at' = "send" /\ UNCHANGED result
     \/ at' = "put back" /\ result' = "uncertain" /\ UNCHANGED clipboard
  /\ UNCHANGED <<front, closed, tab, focus, content, keys, snap, prev, stable,
                 before, saved, input, seen>>

Send ==
  /\ at = "send"
  /\ LET sent == IF snap.strategy = "paste" THEN "paste" ELSE "text"
         after == IF snap.strategy = "paste" THEN "settle paste" ELSE "confirm"
     IN  \/ keys' \in {sent, "part"} /\ at' = after /\ UNCHANGED result
         \/ /\ at' = IF snap.strategy = "paste" THEN after ELSE "failed"
            /\ result' = "failed" /\ UNCHANGED keys
  /\ UNCHANGED <<front, closed, tab, focus, content, clipboard, snap, prev,
                 stable, before, saved, input, seen>>

\* Nothing accepted, nothing to confirm.
NothingSent ==
  /\ at = "failed" /\ Return("failed")
  /\ UNCHANGED <<desktopVars, snap, prev, stable, before, saved, input, seen>>

\* The paste is seen in the field, or half a second has passed. A field that
\* cannot be read is waited for; what is still under way may arrive later.
PasteSettles ==
  /\ at = "settle paste"
  /\ at' = "put back"
  /\ UNCHANGED <<desktopVars, deliveryVars, input, seen>>

\* Mutant: an empty clipboard needs nothing put back.
KeepsText == IF saved = None THEN clipboard ELSE saved
PutBack == saved

RestoreClipboard ==
  /\ at = "put back"
  /\ \/ /\ clipboard' = PutBack
        /\ IF result \in {"failed", "uncertain"} THEN Return(result)
           ELSE at' = "confirm" /\ UNCHANGED result
        /\ UNCHANGED seen
     \/ /\ Raises
        /\ Seen([seen EXCEPT !.denied = TRUE])
        /\ UNCHANGED clipboard
  /\ saved' = None
  /\ UNCHANGED <<front, closed, tab, focus, content, keys, snap, prev, stable,
                 before, input>>

\* Mutant: any change of the field confirms the insertion.
AnyChange(old, new) == old # new
Confirmed(old, new) == OneInsertion(old, new)

Confirm ==
  /\ at = "confirm"
  /\ \/ Return("uncertain")     \* not readable, now or before
     \/ /\ before # None /\ Readable(snap.field)
        /\ Return(IF Confirmed(before, content[snap.field]) THEN "inserted"
                  ELSE "uncertain")
  /\ before' = None
  /\ UNCHANGED <<desktopVars, snap, prev, stable, saved, input, seen>>

\* restore: the window, if it is still there, then its tab, if it was read.
\* Windows may refuse the first and the tab may be gone; neither is noticed.
RestoreWindow ==
  /\ at = "restore"
  /\ IF prev.window \in closed \cup {None}
     THEN /\ at' = Onward(result) /\ prev' = NoFocus
          /\ UNCHANGED <<front, seen>>
     ELSE /\ at' = "restore tab" /\ UNCHANGED prev
          /\ \/ front' = prev.window /\ Seen([seen EXCEPT !.moved = TRUE])
             \/ Seen([seen EXCEPT !.from = Nowhere]) /\ UNCHANGED front
  /\ UNCHANGED <<closed, tab, focus, content, clipboard, keys, snap, stable,
                 before, saved, result, input>>

RestoreTab ==
  /\ at = "restore tab"
  /\ \/ prev.tab = None /\ UNCHANGED <<tab, seen>>
     \/ /\ prev.tab # None /\ prev.window \notin closed
        /\ tab' = [tab EXCEPT ![prev.window] = prev.tab]
        /\ Seen([seen EXCEPT !.moved = TRUE])
     \/ /\ prev.tab # None
        /\ Seen([seen EXCEPT !.from = Nowhere])
        /\ UNCHANGED tab
  /\ at' = Onward(result) /\ prev' = NoFocus
  /\ UNCHANGED <<front, closed, focus, content, clipboard, keys, snap, stable,
                 before, saved, result, input>>

(***************************************************************************)
(* The desktop.                                                            *)
(***************************************************************************)
\* A jump looks for input until idle_check.
Heeded == Jumped /\ at \in {"activate", "select", "focus", "settle", "look",
                            "verify", "recheck", "idle"}

Elsewhere(copies) ==
  /\ seen.moves < MoveMax /\ at # "over"
  /\ Seen([seen EXCEPT !.moves = @ + 1, !.moved = @ \/ ~copies,
                       !.from = IF copies THEN @ ELSE Nowhere,
                       !.copied = copies \/ @,
                       !.users = IF copies THEN "new" ELSE @])
  /\ UNCHANGED <<at, deliveryVars>>

\* The user goes to a field, or another program takes him there.
GoesTo(f) ==
  /\ Home(f) \notin closed /\ Focused # f
  /\ front' = Home(f)
  /\ tab' = [tab EXCEPT ![Home(f)] = TabOf[f]]
  /\ focus' = [focus EXCEPT ![TabOf[f]] = f]
  /\ input' \in {Heeded, Heeded /\ input}
  /\ Elsewhere(FALSE)
  /\ UNCHANGED <<closed, content, clipboard, keys>>

Closes(w) ==
  /\ w \notin closed
  /\ closed' = closed \cup {w}
  /\ front' \in IF front = w THEN (Windows \ closed') \cup {None} ELSE {front}
  /\ input' \in {Heeded, Heeded /\ input}
  /\ Elsewhere(FALSE)
  /\ UNCHANGED <<tab, focus, content, clipboard, keys>>

Types ==
  /\ Focused # None
  /\ content' = [content EXCEPT ![Focused] = Append(@, "typed")]
  /\ input' = Heeded
  /\ Elsewhere(FALSE)
  /\ UNCHANGED <<front, closed, tab, focus, clipboard, keys>>

Copies ==
  /\ clipboard' = "new" /\ input' = Heeded
  /\ Elsewhere(TRUE)
  /\ UNCHANGED <<front, closed, tab, focus, content, keys>>

\* The program of the field with the focus takes the keys; a paste takes what
\* the clipboard holds by then.
KeysArrive ==
  /\ keys # None
  /\ LET what == IF keys = "paste" THEN clipboard ELSE keys
     IN  IF Focused = None \/ what = None THEN UNCHANGED <<content, seen>>
         ELSE /\ \E i \in 1 .. Len(content[Focused]) + 1 :
                    content' = [content EXCEPT
                                  ![Focused] = InsertAt(@, i, what)]
              /\ IF what = "text"
                 THEN Seen([seen EXCEPT !.landed = @ \cup {Focused}])
                 ELSE UNCHANGED seen
  /\ keys' = None
  /\ UNCHANGED <<front, closed, tab, focus, clipboard, at, deliveryVars,
                 input>>

Capture == CaptureWindow \/ CaptureTab \/ CaptureField \/ CaptureCheck
BringForward == \/ Activate \/ SelectTab \/ FocusElement \/ SettleLook
                \/ SettleTimesOut
Checks == VerifyFirst \/ Recheck \/ IdleCheck
Dispatch == \/ ReadBefore \/ SaveClipboard \/ SetClipboard \/ Send
            \/ NothingSent \/ PasteSettles \/ RestoreClipboard \/ Confirm
GivesBack == RestoreWindow \/ RestoreTab
Desktop == \/ \E f \in Fields : GoesTo(f)
           \/ \E w \in Windows : Closes(w)
           \/ Types \/ Copies \/ KeysArrive

DestinationNext == \/ Capture \/ Tick \/ BringForward \/ LookAgain \/ Checks \/ Dispatch
        \/ GivesBack \/ Desktop

DestinationSpec == DestinationInit /\ [][DestinationNext]_destinationVars

-----------------------------------------------------------------------------
DestinationTypeOK ==
  /\ front \in Windows \cup {None} /\ closed \subseteq Windows
  /\ tab \in [Windows -> Tabs] /\ focus \in [Tabs -> Fields]
  /\ content \in [Fields -> Seq(Texts)]
  /\ clipboard \in {"old", "new", "text", None}
  /\ keys \in {None, "text", "part", "paste"}
  /\ result \in Results
  /\ input \in BOOLEAN /\ stable \in BOOLEAN

\* What is reported is what happened (InsertionProtocol rests on it): inserted,
\* when the field got the text and no other; failed, when nothing of it was or
\* will be typed.
ResultIsTrue ==
  /\ result = "inserted" => seen.landed = {snap.field}
  /\ result = "failed" => seen.landed = {} /\ keys = None

\* The text goes nowhere else unless the focus moves between the last look and
\* the program that takes the keys: then the user, another program, or the
\* delivery itself, when it gives the focus back with keys under way, moved it.
StrayNeedsMove == seen.landed \subseteq {snap.field} \/ seen.moved

\* What an insertion reports is what happened in the field, and it happened in
\* the field of the run unless the focus moved after the last look at it
\* (verify, dispatch, confirm).
OutcomeIsTrue == ResultIsTrue /\ StrayNeedsMove

\* A paste leaves the clipboard as the user had it (WO-feat-insertion-win),
\* unless another program holds it or he copies meanwhile; the transcript does
\* not stay in it either way.
ClipboardGivenBack ==
  at \in {"waiting", "restore", "over"} /\ ~seen.denied =>
    /\ clipboard # "text"
    /\ seen.copied \/ clipboard = seen.users

\* A jump that is over has brought the user back to his window and tab, however
\* it failed, unless he left them himself or Windows refused. His tab is lost
\* only where it could not be read and the destination is in the same window.
TabLost(place) == ~place.read /\ place.window = snap.window
BackAt(place) ==
  /\ front = place.window
  /\ tab[place.window] = place.tab \/ TabLost(place)
FocusGivenBack ==
  at \in {"waiting", "over"} /\ seen.from # Nowhere => BackAt(seen.from)

\* The user has his clipboard and his place back, however the paste or the jump
\* failed (dispatch, bring_forward, restore).
BorrowedGivenBack == ClipboardGivenBack /\ FocusGivenBack

=============================================================================
