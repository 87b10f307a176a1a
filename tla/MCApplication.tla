---------------------------- MODULE MCApplication ----------------------------
(***************************************************************************)
(* The application around the recordings on small instances: its processes *)
(* (AppLifecycle), the settings and the local cleanup model (ModelHealth), *)
(* the history on disk (Retention), the dictionary's replacements          *)
(* (DictionaryText), the database (Database), the row of settings          *)
(* (SettingsStore), a key (SecretStore) and the rows of the dictionary     *)
(* (DictionaryRepo); those that theorems are about are extended.  They     *)
(* share no variable, so a behaviour is one of one machine, chosen at the  *)
(* start, as in MCRecording.                                               *)
(*                                                                         *)
(*   processes  two launches, with a crash anywhere; or one, under         *)
(*              fairness                                                   *)
(*   edits      two editors of settings and selections, a failing store    *)
(*   loaded     one editor, failing loads and unloads, under fairness      *)
(*   told       two choices of the model, under fairness                   *)
(*   database   two writes, two releases, crashes, callers who give up     *)
(*   history    eviction and expiry, deletion of one run and of all,       *)
(*              attempts in flight, crashes, files that stay               *)
(*   rows       the rows of the dictionary, their export and import        *)
(*   text       short transcripts with overlapping terms                   *)
(*   settings   five launches between those of other releases              *)
(*   secret     three changes of one key, two power failures               *)
(***************************************************************************)
EXTENDS AppLifecycle, ModelHealth, Retention, Database, SettingsStore,
        SecretStore, DictionaryRepo, TLC

CONSTANT Machines   \* the machines of this instance

VARIABLES machine, entries, text, passes

textVars == <<entries, text, passes>>
otherVars == <<dictionaryVars, textVars, settingsVars, secretVars>>
vars == <<machine, dbVars, lifeVars, modelVars, historyVars, otherVars>>

-----------------------------------------------------------------------------
Local == [provider |-> "lmstudio", model |-> "m1", cloud |-> "m2", on |-> TRUE]
Select(m) == [kind |-> "select", model |-> m]
Edit(f, x) == [kind |-> "update", patch |-> [n \in {f} |-> x]]
Key(value) == [kind |-> "key", saved |-> value]

\* What the editors of "edits" and of "told" ask for.
Editing == {Edit("model", "m2"), Edit("model", "m1"),
            Edit("provider", "nvidia"), Edit("on", FALSE), Key(TRUE)}
Choosing == {Select("m2"), Edit("model", "m1")}
Loading == INSTANCE ModelHealth
           WITH Editors <- {"e1"},
                Requests <- {Select("m2"), Edit("provider", "nvidia"),
                             Edit("on", FALSE)},
                FailMax <- 1, UnloadMax <- 1

\* What happens to a history: evictions and expiries with a crash; deletions, and
\* a file that stays; an attempt in flight at an eviction; the deletion of all.
Use(kinds, starts, claims, fails, crashed) ==
    [kinds |-> kinds, starts |-> starts, claims |-> claims, fails |-> fails,
     crashes |-> crashed]
Histories == {Use({}, 3, 0, 0, 1), Use({"delete"}, 2, 0, 1, 1),
              Use({"claim"}, 3, 1, 0, 0), Use({"clear"}, 1, 0, 1, 0)}

\* Entries that meet in every way, by spelling and by alias; files whose second
\* entry repeats the spelling of the first, or has an alias another may have.
Entry(spelling, aliases) == [spelling |-> spelling, aliases |-> aliases]
TypedEntries == {Entry("x", {}), Entry("x", {"y"}), Entry("y", {}),
                 Entry("z", {"y"})}
GivenFiles == {<<Entry("x", {}), Entry("x", {"y"})>>,
               <<Entry("y", {}), Entry("z", {"x"})>>}

\* Letters in two cases, a ligature, a letter and a mark that compose and what
\* they make, white space, an opening and a closing character; dictionaries in
\* which one term begins another, an alias of one entry begins with the spelling
\* of another, or terms compose.
Folds == [a |-> <<"a">>, A |-> <<"a">>, b |-> <<"b">>, L |-> <<"a", "b">>,
          m |-> <<"m">>, E |-> <<"e">>, stop |-> <<".">>, open |-> <<"(">>]
Composed == (<<"a", "m">> :> "e")
Plain == {"a", "A", "b", "L", "stop", "open", "space"}
Composing == {"a", "m", "b", "E", "stop", "space"}
UpToFour(clusters) == UNION {[1 .. k -> clusters] : k \in 0 .. 4}
Text == INSTANCE DictionaryText
        WITH Fold <- Folds, Compose <- Composed, Spaces <- {"space"},
             Openers <- {"open"}, Closers <- {"stop"}, Conditional <- {"stop"},
             Texts <- UpToFour(Plain) \cup UpToFour(Composing),
             Dictionaries <-
               {{Entry(<<"A">>, {<<"b">>}),
                 Entry(<<"b", "b">>, {<<"a", "space", "a">>})},
                {Entry(<<"A", "b">>, {}), Entry(<<"b">>, {<<"a", "a">>})},
                {Entry(<<"L">>, {<<"b", "space", "a">>}),
                 Entry(<<"A">>, {<<"b">>})},
                {Entry(<<"A", "m">>, {<<"m">>}),
                 Entry(<<"b">>, {<<"E", "b">>, <<"a">>})}}

\* What other releases left: valid settings of three earlier ones, settings
\* whose model is gone, shortcuts that conflict, and a newer release.
Texts == {"F9", "f9", "esc", "escape", "junk"}
Bindings(dictation, cancel) ==
  [dictation_shortcut |-> dictation, cancel_shortcut |-> cancel]
Release(n) == [schema_version |-> n]
Model(m) == [stt_model_id |-> m]
Preferred == Release(4) @@ Model("whisper") @@ Bindings("f9", "escape")
             @@ [cleanup_provider |-> "lmstudio"]
Foreign == {Release(1) @@ Model("voxtral") @@ Bindings("esc", "F9"),
            Release(2) @@ Model("other") @@ [local_only |-> TRUE],
            Release(3) @@ Model("other") @@ [cancel_shortcut |-> "esc"],
            Release(3) @@ Model("gone"),
            Release(4) @@ Model("other") @@ Bindings("escape", "esc"),
            Release(5) @@ [sound |-> TRUE]}
Edited == {Model("other"), Model("gone"), Release(3), [sound |-> TRUE],
           [cleanup_provider |-> "nvidia"], [dictation_shortcut |-> "esc"],
           [cancel_shortcut |-> "F9"], [cancel_shortcut |-> "esc"],
           Bindings("esc", "F9")}
FieldValues == [schema_version |-> {4},
                stt_model_id |-> {"voxtral", "whisper", "other", "gone"},
                dictation_shortcut |-> Texts, cancel_shortcut |-> Texts,
                cleanup_provider |-> {"lmstudio", "nvidia"}]
Formats == [F9 |-> "f9", f9 |-> "f9", esc |-> "escape", escape |-> "escape"]
Voxtral == [old |-> "voxtral", new |-> "whisper"]

ASSUME InstancesAreSound ==
    Loading!ModelsConstantsOK /\ Text!ConstantsOK

-----------------------------------------------------------------------------
AppInit ==
    /\ machine \in Machines
    /\ Init
    /\ LifeInit
    /\ IF machine = "loaded" THEN Loading!ModelsInit ELSE ModelsInit
    /\ HistoryInit
    /\ machine # "history" => allowed = Use({}, 3, 0, 0, 1)
    /\ DictionaryInit
    /\ IF machine = "text" THEN Text!Init
       ELSE entries = {} /\ text = <<>> /\ passes = 0
    /\ SettingsInit
    /\ SecretInit

ProcessesMove ==
    /\ machine = "processes" /\ LifeNext
    /\ UNCHANGED <<machine, dbVars, modelVars, historyVars, otherVars>>
ModelsMove ==
    /\ \/ machine = "loaded" /\ Loading!ModelsNext
       \/ machine \in {"edits", "told"} /\ ModelsNext
    /\ UNCHANGED <<machine, dbVars, lifeVars, historyVars, otherVars>>
DatabaseMoves ==
    /\ machine = "database" /\ Next
    /\ UNCHANGED <<machine, lifeVars, modelVars, historyVars, otherVars>>
HistoryMoves ==
    /\ machine = "history" /\ HistoryNext
    /\ UNCHANGED <<machine, dbVars, lifeVars, modelVars, otherVars>>
DictionaryMoves ==
    /\ machine = "rows" /\ DictionaryNext
    /\ UNCHANGED <<machine, dbVars, lifeVars, modelVars, historyVars, textVars,
                   settingsVars, secretVars>>
TextMoves ==
    /\ machine = "text" /\ Text!Next
    /\ UNCHANGED <<machine, dbVars, lifeVars, modelVars, historyVars,
                   dictionaryVars, settingsVars, secretVars>>
SettingsMove ==
    /\ machine = "settings" /\ SettingsNext
    /\ UNCHANGED <<machine, dbVars, lifeVars, modelVars, historyVars,
                   dictionaryVars, textVars, secretVars>>
SecretMoves ==
    /\ machine = "secret" /\ SecretNext
    /\ UNCHANGED <<machine, dbVars, lifeVars, modelVars, historyVars,
                   dictionaryVars, textVars, settingsVars>>

AppNext == ProcessesMove \/ ModelsMove \/ DatabaseMoves \/ HistoryMoves
           \/ DictionaryMoves \/ TextMoves \/ SettingsMove \/ SecretMoves

AppSpec == AppInit /\ [][AppNext]_vars

\* The fairness of ModelHealth, in its two fair machines.
Edits(e) == \/ machine = "loaded" /\ e = "e1" /\ Loading!EditorStep(e)
            \/ machine = "told" /\ EditorStep(e)
Locks(e) == \/ machine = "loaded" /\ e = "e1" /\ Loading!SelectLocks(e)
            \/ machine = "told" /\ SelectLocks(e)
IsTold(a) == \/ machine = "loaded" /\ a # "e2" /\ Loading!Answered(a)
             \/ machine = "told" /\ Answered(a)
Tells(a) == \/ machine = "loaded" /\ a # "e2" /\ Loading!Publishes(a)
            \/ machine = "told" /\ Publishes(a)
Fair == machine \in {"loaded", "told"}
ModelFairness ==
    /\ \A e \in Editors : WF_modelVars(Edits(e)) /\ SF_modelVars(Locks(e))
    /\ \A a \in Actors : WF_modelVars(IsTold(a)) /\ SF_modelVars(Tells(a))
    /\ WF_modelVars(Fair /\ TimerTicks)
    /\ WF_modelVars(Fair /\ LoadStarts)
    /\ WF_modelVars(Fair /\ LoadEnds)
    /\ WF_modelVars(Fair /\ AfterLoad)
    /\ \A m \in Models : WF_modelVars(Fair /\ BackoffPasses(m))

\* The fairness of AppLifecycle and of Database.
AppFairSpec ==
    /\ AppSpec
    /\ ModelFairness
    /\ \A p \in Processes :
         /\ WF_lifeVars(machine = "processes" /\ StartsUp(p))
         /\ WF_lifeVars(machine = "processes" /\ ShutsDown(p))
         /\ WF_lifeVars(machine = "processes" /\ Leaves(p))
    /\ \A w \in Writes :
         /\ WF_dbVars(machine = "database" /\ Take(w))
         /\ WF_dbVars(machine = "database" /\ Answer(w))
         /\ WF_dbVars(machine = "database" /\ (Commit(w) \/ WriteFails(w)))

-----------------------------------------------------------------------------
AllTypesOK ==
    /\ TypeOK
    /\ LifeTypeOK
    /\ IF machine = "loaded" THEN Loading!ModelsTypeOK ELSE ModelsTypeOK
    /\ HistoryTypeOK
    /\ DictionaryTypeOK
    /\ SettingsTypeOK
    /\ SecretTypeOK

\* The scan over folded text does what the rules say of the source.
FollowsTheRules == machine = "text" => Text!FollowsTheRules

-----------------------------------------------------------------------------
\* A shutdown that was asked for ends, even when a cleanup never answers, and
\* a caller that waits for the database it closes is answered.
ShutdownCompletes ==
    /\ machine = "processes" => ShutdownEnds
    /\ machine = "database" => EveryWriteAnswered

\* Once the user leaves the settings alone, the readiness shown is and stays
\* that of the selected model.
EventuallyTheChoice == machine = "told" => ChoiceIsShown

\* A local model that stays selected is loaded in the end.
EventuallyLoaded == machine = "loaded" => Loading!ModelIsLoaded

=============================================================================
