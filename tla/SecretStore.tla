----------------------------- MODULE SecretStore -----------------------------
(***************************************************************************)
(* One key of DpapiSecretStore (settings/secret_store.py): set writes a    *)
(* temporary file, flushes it to the disk and puts it in the place of the  *)
(* old one. Any of its calls may fail, and the power may fail between any  *)
(* two: then a file that was not flushed holds anything.                   *)
(***************************************************************************)
EXTENDS Naturals

CONSTANTS Keys,      \* the keys a user enters
          NoKey,     \* no file, or no answer
          Torn,      \* the content of a file that was not on the disk in time
          CallMax, CrashMax

SecretConstantsOK ==
  /\ NoKey \notin Keys /\ Torn \notin Keys \cup {NoKey}
  /\ CallMax \in Nat /\ CrashMax \in Nat

ASSUME SecretAssumption == SecretConstantsOK

VARIABLES
  file,      \* the file of the key
  temp,      \* the temporary file
  flushed,   \* of "file" and "temp", those that are on the disk
  at,        \* the next call of set
  newKey,    \* the key being set
  before,    \* the file when set was called
  outcome,   \* how the last call ended: "none", "saved", "raised", "cleared"
  calls, crashes

secretVars == <<file, temp, flushed, at, newKey, before, outcome, calls,
                crashes>>

SecretInit ==
  /\ file = NoKey /\ temp = NoKey /\ flushed = {"file", "temp"}
  /\ at = "idle" /\ newKey = NoKey /\ before = NoKey /\ outcome = "none"
  /\ calls = 0 /\ crashes = 0

\* set, up to mkstemp; encrypting may fail before anything is written.
Set(k) ==
  /\ at = "idle" /\ calls < CallMax
  /\ calls' = calls + 1
  /\ newKey' = k /\ before' = file
  /\ \/ /\ temp' = Torn /\ flushed' = flushed \ {"temp"}
        /\ at' = "write" /\ outcome' = "none"
     \/ /\ outcome' = "raised" /\ UNCHANGED <<temp, flushed, at>>
  /\ UNCHANGED <<file, crashes>>

\* The finally clause; the file is gone if it was put in place.
Unlinked == temp' = NoKey /\ at' = "idle"
Raises == Unlinked /\ outcome' = "raised"

WriteTemp ==
  /\ at = "write"
  /\ \/ temp' = newKey /\ at' = "flush" /\ UNCHANGED outcome
     \/ Raises
  /\ UNCHANGED <<file, flushed, newKey, before, calls, crashes>>

\* Mutant: the file is closed without fsync.
NotFlushed == flushed
FlushedBy == flushed \cup {"temp"}

Flush ==
  /\ at = "flush"
  /\ \/ flushed' = FlushedBy /\ at' = "replace" /\ UNCHANGED <<temp, outcome>>
     \/ Raises /\ UNCHANGED flushed
  /\ UNCHANGED <<file, newKey, before, calls, crashes>>

\* os.replace fails while another program has the old file open.
Replace ==
  /\ at = "replace"
  /\ \/ /\ file' = temp
        /\ flushed' = IF "temp" \in flushed THEN flushed \cup {"file"}
                      ELSE flushed \ {"file"}
        /\ Unlinked /\ outcome' = "saved"
     \/ Raises /\ UNCHANGED <<file, flushed>>
  /\ UNCHANGED <<newKey, before, calls, crashes>>

Clear ==
  /\ at = "idle" /\ calls < CallMax
  /\ calls' = calls + 1
  /\ before' = file /\ newKey' = NoKey
  /\ \/ file' = NoKey /\ outcome' = "cleared"
     \/ file # NoKey /\ outcome' = "raised" /\ UNCHANGED file
  /\ UNCHANGED <<temp, flushed, at, crashes>>

\* What was not flushed may be lost. Nobody looks for the temporary file again.
PowerFails ==
  /\ crashes < CrashMax
  /\ crashes' = crashes + 1
  /\ file' \in IF "file" \in flushed THEN {file} ELSE {file, Torn}
  /\ temp' = NoKey /\ flushed' = {"file", "temp"}
  /\ at' = "idle" /\ outcome' = "none"
  /\ UNCHANGED <<newKey, before, calls>>

\* get: a file that cannot be decrypted is no key.
Get == IF file \in Keys THEN file ELSE NoKey

SecretNext == \/ \E k \in Keys : Set(k)
              \/ WriteTemp \/ Flush \/ Replace \/ Clear \/ PowerFails

SecretSpec == SecretInit /\ [][SecretNext]_secretVars

-----------------------------------------------------------------------------
SecretTypeOK ==
  /\ file \in Keys \cup {NoKey, Torn} /\ temp \in Keys \cup {NoKey, Torn}
  /\ flushed \subseteq {"file", "temp"}
  /\ at \in {"idle", "write", "flush", "replace"}
  /\ newKey \in Keys \cup {NoKey}
  /\ outcome \in {"none", "saved", "raised", "cleared"}

\* The old key or the new one, whole, wherever set fails or the power does: a
\* failed call leaves what was there, a finished one what was asked for, and
\* the user never loses the old key before the new one is safe.
OldOrNewKey ==
  /\ Get \in {before, newKey}
  /\ outcome = "raised" => Get = before
  /\ outcome \in {"saved", "cleared"} => Get = newKey

=============================================================================
