---------------------------- MODULE SettingsStore ----------------------------
(***************************************************************************)
(* The one row of settings (settings/store.py, settings/schema.py) over    *)
(* several launches: load reads, upgrades or recovers it, update merges    *)
(* and validates a patch, and both are one write of the database after     *)
(* which the caller remembers the result, unless it was cancelled by then. *)
(* Between two launches another release may have stored its settings, or   *)
(* the row may be damaged.                                                 *)
(*                                                                         *)
(* Data is a function from the names of fields to their values, as in the  *)
(* JSON: fields may be missing, or be those of another release.            *)
(***************************************************************************)
EXTENDS Naturals, Sequences

CONSTANTS
  Values,      \* the values that the schema accepts for each of its fields
  Default,     \* default_settings
  Canonical,   \* each readable shortcut, written as format_binding does
  SttModels,   \* the models the catalog accepts
  Replaced,    \* the model that release 2 replaced, and by which
  MaxBackups,  \* MAX_SETTINGS_BACKUPS
  Others,      \* what other releases stored, some earlier and valid
  Patches,     \* what the page may send
  NoSettings,  \* None, in the source
  LaunchMax, EditMax

SchemaVersion == 4
Fields == DOMAIN Values
Shortcuts == {"dictation_shortcut", "cancel_shortcut"}

VARIABLES
  row,       \* the row: whether it is there, readable, and its data
  backups,   \* settings_backup, oldest first
  inUse,     \* _settings, or NoSettings
  reply,     \* what the write under way answers, or NoSettings
  own,       \* this program wrote the row
  launches, edits

settingsVars == <<row, backups, inUse, reply, own, launches, edits>>

StoredAs(d) == [is |-> "data", data |-> d]
NoRow == [is |-> "none", data |-> <<>>]
Damaged == [is |-> "damaged", data |-> <<>>]

-----------------------------------------------------------------------------
(***************************************************************************)
(* parse_settings.                                                         *)
(***************************************************************************)
Without(d, f) == [g \in DOMAIN d \ {f} |-> d[g]]
\* {**below, **above}, as TLC's @@; the provers do not know that one.
Over(above, below) ==
  [f \in DOMAIN above \cup DOMAIN below |->
     IF f \in DOMAIN above THEN above[f] ELSE below[f]]

Upgrade1(d) ==
  LET model == IF "stt_model_id" \in DOMAIN d
                  /\ d.stt_model_id = Replaced.old
               THEN [stt_model_id |-> Replaced.new] ELSE <<>>
  IN  Over([schema_version |-> 2, local_only |-> FALSE], Over(model, d))
Upgrade2(d) == Over([schema_version |-> 3], Without(d, "local_only"))
Upgrade3(d) ==
  Over([schema_version |-> 4],
       Over(d, [cleanup_provider |-> Default.cleanup_provider]))

Upgraded(d) ==
  LET second == IF d.schema_version = 1 THEN Upgrade1(d) ELSE d
      third == IF second.schema_version = 2 THEN Upgrade2(second) ELSE second
  IN  IF third.schema_version = 3 THEN Upgrade3(third) ELSE third

Completed(d) == Over(Upgraded(d), Default)
\* format_binding.
Formatted(s) ==
  [f \in Fields |-> IF f \in Shortcuts THEN Canonical[s[f]] ELSE s[f]]

Valid(s) ==
  /\ DOMAIN s = Fields                       \* extra = "forbid"
  /\ \A f \in Fields : s[f] \in Values[f]
  /\ \A f \in Shortcuts : s[f] \in DOMAIN Canonical
  /\ Canonical[s.dictation_shortcut] # Canonical[s.cancel_shortcut]
  /\ s.stt_model_id \in SttModels

\* What is formatted is read back as the same, and the defaults are valid.
SettingsConstantsOK ==
  /\ Shortcuts \cup {"schema_version", "stt_model_id"} \subseteq Fields
  /\ "local_only" \notin Fields
  /\ Values.schema_version = {SchemaVersion}
  /\ \A t \in DOMAIN Canonical :
       /\ Canonical[t] \in DOMAIN Canonical
       /\ Canonical[Canonical[t]] = Canonical[t]
       /\ \A f \in Shortcuts : Canonical[t] \in Values[f]
  /\ Valid(Default) /\ Formatted(Default) = Default
  /\ MaxBackups \in Nat \ {0} /\ LaunchMax \in Nat /\ EditMax \in Nat

ASSUME SettingsAssumption == SettingsConstantsOK

\* An unknown version, a newer one among them, has no step.
Parses(d) ==
  /\ "schema_version" \in DOMAIN d /\ d.schema_version \in 1 .. SchemaVersion
  /\ Valid(Completed(d))
Parsed(d) == Formatted(Completed(d))

-----------------------------------------------------------------------------
SettingsInit ==
  /\ row = NoRow /\ backups = <<>>
  /\ inUse = NoSettings /\ reply = NoSettings
  /\ own = FALSE
  /\ launches = 1 /\ edits = 0

\* Mutant: the first backups are kept, not the last.
KeepsOldest(all) ==
  IF Len(all) <= MaxBackups THEN all ELSE SubSeq(all, 1, MaxBackups)
Newest(all) ==
  IF Len(all) <= MaxBackups THEN all
  ELSE SubSeq(all, Len(all) - MaxBackups + 1, Len(all))

\* The write of load; settings_get and state_get load again.
Load ==
  /\ reply = NoSettings
  /\ \/ /\ row = NoRow
        /\ row' = StoredAs(Default) /\ reply' = Default /\ own' = TRUE
        /\ UNCHANGED backups
     \/ /\ row.is = "data" /\ Parses(row.data)
        /\ reply' = Parsed(row.data)
        /\ IF row.data.schema_version = SchemaVersion
           THEN UNCHANGED <<row, own>>
           ELSE row' = StoredAs(Parsed(row.data)) /\ own' = TRUE
        /\ UNCHANGED backups
     \/ /\ row.is # "none" /\ (row.is = "data" => ~Parses(row.data))
        /\ backups' = Newest(Append(backups, row))
        /\ row' = StoredAs(Default) /\ reply' = Default /\ own' = TRUE
  /\ UNCHANGED <<inUse, launches, edits>>

\* Mutant: the patch is checked with the defaults, not with what is stored.
WithDefaults(merged, patch) == Parses(Over(patch, Default))
Accepted(merged, patch) == Parses(merged)

\* The write of update.
Update(patch) ==
  /\ reply = NoSettings /\ inUse # NoSettings /\ edits < EditMax
  /\ "schema_version" \notin DOMAIN patch
  /\ row.is = "data"
  /\ LET merged == Over(patch, row.data)
     IN  /\ Accepted(merged, patch)
         /\ row' = StoredAs(Parsed(merged))
         /\ reply' = Parsed(merged)
  /\ own' = TRUE
  /\ edits' = edits + 1
  /\ UNCHANGED <<backups, inUse, launches>>

Returns ==
  /\ reply # NoSettings
  /\ inUse' = reply
  /\ reply' = NoSettings
  /\ UNCHANGED <<row, backups, own, launches, edits>>

\* The bridge gave up: the write is done, its result is dropped.
CallerGone ==
  /\ reply # NoSettings
  /\ reply' = NoSettings
  /\ UNCHANGED <<row, backups, inUse, own, launches, edits>>

\* A crash or an exit, after which another release may run, or the same again.
Relaunch ==
  /\ launches < LaunchMax
  /\ launches' = launches + 1
  /\ inUse' = NoSettings /\ reply' = NoSettings
  /\ \/ UNCHANGED <<row, own>>
     \/ /\ row' \in {StoredAs(d) : d \in Others} \cup {Damaged}
        /\ own' = FALSE
  /\ UNCHANGED <<backups, edits>>

SettingsNext == \/ Load \/ Returns \/ CallerGone \/ Relaunch
                \/ \E patch \in Patches : Update(patch)

SettingsSpec == SettingsInit /\ [][SettingsNext]_settingsVars

-----------------------------------------------------------------------------
SettingsTypeOK ==
  /\ row.is \in {"none", "data", "damaged"}
  /\ Len(backups) <= MaxBackups
  /\ \A i \in 1 .. Len(backups) : backups[i].is \in {"data", "damaged"}
  /\ inUse # NoSettings => Valid(inUse)
  /\ reply # NoSettings => Valid(reply)
  /\ own \in BOOLEAN

\* A choice lives on as it was, formatted, or as the model that replaced it.
Preserved(f, old, new) ==
  \/ new = old
  \/ f \in Shortcuts /\ old \in DOMAIN Canonical /\ new = Canonical[old]
  \/ f = "stt_model_id" /\ old = Replaced.old /\ new = Replaced.new
  \/ f = "schema_version"
CarriesOver(d) ==
  \A f \in DOMAIN d \cap Fields : Preserved(f, d[f], row'.data[f])

CarriedOverOrBackedUp ==
  launches' = launches /\ row' # row /\ row # NoRow =>
    \/ backups' # <<>> /\ backups'[Len(backups')] = row
    \/ CarriesOver(row.data)
    \/ /\ edits' > edits
       /\ \E patch \in Patches : CarriesOver(Over(patch, row.data))

\* Whatever this program replaces it carries over or backs up: every choice of
\* an earlier release or of the user is in the new row but for those he just
\* edited, or else the whole old row is the newest backup (load, _recover).
CarriesOverOrBacksUp == [][CarriedOverOrBackedUp]_settingsVars

OnlyOthersRecovered == backups' # backups => ~own

\* What this program stored it never takes for damaged, on this launch or the
\* next: only rows of others are recovered (load, update).
RecoversOnlyOthers == [][OnlyOthersRecovered]_settingsVars

\* The choices of the user survive releases, damage and crashes: nothing is
\* lost without a backup, and nothing is reset without a reason.
SettingsSurvive == CarriesOverOrBacksUp /\ RecoversOnlyOthers

=============================================================================
