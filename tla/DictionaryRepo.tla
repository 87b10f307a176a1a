--------------------------- MODULE DictionaryRepo ---------------------------
(***************************************************************************)
(* The stored dictionary: rows added, changed, deleted, exported and       *)
(* imported by commands, each one callback on the database's only thread,  *)
(* so each is one action.  A page edits rows of a list it loaded earlier,  *)
(* and imports a file it exported earlier.                                 *)
(*                                                                         *)
(* A term stands for a normalized spelling or alias; the limits on lengths *)
(* and the notes are left out.                                             *)
(*                                                                         *)
(* Source: dictionary/repo.py, dictionary/import_export.py,                *)
(* dictionary/apply.py (validate_entries), storage/migrations/             *)
(* m003_dictionary.py, application/commands/dictionary_commands.py.        *)
(***************************************************************************)
EXTENDS Naturals, Sequences, FiniteSets

CONSTANTS Spellings,         \* normalized spellings and aliases
          MaxImportEntries,  \* the most entries a file may have
          MaxId,             \* bound of the model: rows ever created
          Entries,           \* the entries a user may type
          OtherFiles         \* the files a user has besides the exported one

AnyEntry == [spelling : Spellings, aliases : SUBSET Spellings]

DictionaryConstantsOK ==
  /\ Entries \subseteq AnyEntry
  /\ OtherFiles \subseteq Seq(AnyEntry)
  /\ MaxImportEntries \in Nat /\ MaxId \in Nat

ASSUME DictionaryAssumption == DictionaryConstantsOK

VARIABLES
  table,     \* the rows, each with the id it is named by and the time it was
             \* created at (created_at)
  lastId,    \* the highest id ever given (sqlite_sequence)
  clock,     \* rows created so far
  listed,    \* the rows of the page's last dict_list
  saved,     \* the text of the page's last dict_export
  pristine   \* since that export rows were only deleted

dictionaryVars == <<table, lastId, clock, listed, saved, pristine>>

Row(id, born, entry) ==
  [id |-> id, born |-> born, spelling |-> entry.spelling,
   aliases |-> entry.aliases]

Rows == [id : Nat, born : Nat, spelling : Spellings,
         aliases : SUBSET Spellings]

DictionaryTypeOK ==
  /\ table \subseteq Rows
  /\ lastId \in Nat
  /\ clock \in Nat
  /\ listed \subseteq Rows
  /\ saved \in Seq(AnyEntry)
  /\ pristine \in BOOLEAN

DictionaryInit ==
  /\ table = {}
  /\ lastId = 0
  /\ clock = 0
  /\ listed = {}
  /\ saved = <<>>
  /\ pristine = FALSE

TermsOf(entry) == {entry.spelling} \cup entry.aliases
AllTerms(entries) == UNION {TermsOf(e) : e \in entries}
Contents(rows) == {[spelling |-> r.spelling, aliases |-> r.aliases] : r \in rows}

\* validate_entries: a candidate shares no term with another entry.
Fits(entry, others) == TermsOf(entry) \cap AllTerms(others) = {}

\* Mutant: ids of deleted rows are given out again (no AUTOINCREMENT).
FirstFree(rows) == CHOOSE n \in 1..(lastId + 1) :
                     /\ \A r \in rows : r.id < n
                     /\ n = 1 \/ \E r \in rows : r.id = n - 1
\* The id of the next row: AUTOINCREMENT never gives an id out twice.
NextId(rows) == lastId + 1

Add(entry) ==
  /\ lastId < MaxId
  /\ Fits(entry, table)
  /\ table' = table \cup {Row(NextId(table), clock + 1, entry)}
  /\ lastId' = lastId + 1
  /\ clock' = clock + 1
  /\ pristine' = FALSE
  /\ UNCHANGED <<listed, saved>>

\* Mutant: an update is compared with nothing.
Nobody(row) == {}
\* The rows an update has to fit beside: all but itself.
OtherRows(row) == {r \in table : r.id # row.id}

\* dict_update names the row by the id the page shows; a deleted one is not
\* found.
UpdateRow(id, entry) ==
  \E row \in table :
    /\ row.id = id
    /\ Fits(entry, OtherRows(row))
    /\ table' = (table \ {row}) \cup {Row(id, row.born, entry)}
    /\ pristine' = FALSE
    /\ UNCHANGED <<lastId, clock, listed, saved>>

Delete(id) ==
  /\ \E row \in table : row.id = id
  /\ table' = {r \in table : r.id # id}
  /\ UNCHANGED <<lastId, clock, listed, saved, pristine>>

\* The entries of a file that are not duplicates, by spelling, of a row or of
\* an earlier entry.
Additions(file) ==
  {i \in DOMAIN file :
     /\ \A r \in table : r.spelling # file[i].spelling
     /\ \A j \in 1..(i - 1) : file[j].spelling # file[i].spelling}

\* Mutant: the terms of skipped duplicates are compared as well.
WholeFile(file) == DOMAIN file
\* The entries whose terms are compared with the rows.
Compared(file) == Additions(file)

\* No entry shares a term with a row or with another of the file.
FileFits(file) ==
  \A i \in Compared(file) :
    Fits(file[i], table \cup {file[j] : j \in Compared(file) \ {i}})

\* The rows an import creates, in file order.
NewRows(file) ==
  {LET n == Cardinality({j \in Additions(file) : j <= i})
   IN Row(lastId + n, clock + n, file[i]) : i \in Additions(file)}

\* One entry that conflicts, or a file too long, and nothing is imported.
Import(file) ==
  /\ Len(file) <= MaxImportEntries
  /\ FileFits(file)
  /\ lastId + Cardinality(Additions(file)) <= MaxId
  /\ table' = table \cup NewRows(file)
  /\ lastId' = lastId + Cardinality(Additions(file))
  /\ clock' = clock + Cardinality(Additions(file))
  /\ pristine' = (pristine /\ file = saved)
  /\ UNCHANGED <<listed, saved>>

\* The rows in id order.
Export ==
  /\ \E text \in [1..Cardinality(table) -> table] :
       /\ \A i, j \in DOMAIN text : i < j => text[i].id < text[j].id
       /\ saved' = [i \in DOMAIN text |->
                      [spelling |-> text[i].spelling,
                       aliases |-> text[i].aliases]]
  /\ pristine' = TRUE
  /\ UNCHANGED <<table, lastId, clock, listed>>

List ==
  /\ listed' = table
  /\ UNCHANGED <<table, lastId, clock, saved, pristine>>

DictionaryNext ==
  \/ \E entry \in Entries : Add(entry)
  \/ \E row \in listed : \E entry \in Entries : UpdateRow(row.id, entry)
  \/ \E row \in listed : Delete(row.id)
  \/ \E file \in OtherFiles \cup {saved} : Import(file)
  \/ Export
  \/ List

DictionarySpec == DictionaryInit /\ [][DictionaryNext]_dictionaryVars

(***************************************************************************)
(* Properties.                                                             *)
(***************************************************************************)

\* No term belongs to two rows, whatever was added, changed and imported: a
\* dictated word has at most one replacement, and the stored rows can always
\* be loaded (validate_entries over all of them, apply.py:34-62).
NoAmbiguity ==
  \A r, s \in table : r # s => TermsOf(r) \cap TermsOf(s) = {}

\* The row an edit names is the row the page showed: an id that a deleted row
\* had never names another one (m003_dictionary.py:13).
SameEntry ==
  \A old \in listed, row \in table : old.id = row.id => old.born = row.born

\* Importing the last export after nothing but deletions is accepted, brings
\* every deleted entry back and changes none of the others; the entries that
\* are still there are skipped and never refused (import_export.py:117-150).
RestoresDeleted ==
  pristine /\ Len(saved) <= MaxImportEntries =>
    /\ FileFits(saved)
    /\ Contents(table \cup NewRows(saved)) = {saved[i] : i \in DOMAIN saved}

\* The three together: no term belongs to two rows of the dictionary, the row an
\* edit names is the row the page showed, and importing the last export brings
\* back what was deleted since (DictionaryRepo.import_text, export_text).
EntriesAreSound == NoAmbiguity /\ SameEntry /\ RestoresDeleted

=============================================================================
