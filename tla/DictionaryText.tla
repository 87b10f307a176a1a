--------------------------- MODULE DictionaryText ---------------------------
(***************************************************************************)
(* The dictionary's replacement of whole tokens (dictionary/apply.py): the *)
(* folded text with the source spans it came from, the leftmost-longest    *)
(* scan over it, and the text it gives.                                    *)
(*                                                                         *)
(* A text is a sequence of clusters (a base character with its combining   *)
(* marks). Fold gives what NFKC and casefold make of a cluster: one        *)
(* character, or several for a ligature. NFKC of more than a cluster joins *)
(* some that follow each other (a halfwidth kana and its voiced mark, the  *)
(* letters of a Hangul syllable): Compose says which. normalize sees whole *)
(* terms, the scan one cluster at a time.                                  *)
(* The trie of the code is the set of the terms it holds.                  *)
(***************************************************************************)
EXTENDS Naturals, Sequences, FiniteSets, FiniteSetsExt, SequencesExt

CONSTANTS Fold,          \* the folded characters of each cluster
          Compose,       \* the one that two of adjacent clusters make
          Spaces,        \* white space
          Openers,       \* _OPEN: what may stand before a token
          Closers,       \* _CLOSE: what may stand after one
          Conditional,   \* _CONDITIONAL: closers that need a space after them
          Texts,         \* the transcripts looked at
          Dictionaries   \* the sets of entries looked at

ConstantsOK ==
  /\ Conditional \subseteq Closers
  /\ \A c \in DOMAIN Fold : Fold[c] # <<>>
  /\ \A p \in DOMAIN Compose : Len(p) = 2

VARIABLES
  entries,   \* the dictionary snapshot of a run
  text,      \* the transcript, or what the dictionary made of it
  passes     \* how often the dictionary was applied

textVars == <<entries, text, passes>>

(***************************************************************************)
(* _normalized_with_spans, normalize and validate_entries                  *)
(***************************************************************************)

Solid(source, i) == i \in DOMAIN source /\ source[i] \notin Spaces

\* The end of the run of white space that begins at i.
RunEnd(source, i) ==
  Min({j \in i .. Len(source) + 1 : j > Len(source) \/ Solid(source, j)})

\* What the cluster at i adds: its folded characters, each with the span of the
\* cluster; one space for a run of white space between two tokens.
Folding(source, i) ==
  IF Solid(source, i)
  THEN LET chars == Fold[source[i]]
       IN [k \in DOMAIN chars |->
             [char |-> chars[k], start |-> i, end |-> i + 1,
              first |-> k = 1, last |-> k = Len(chars)]]
  ELSE IF Solid(source, i - 1) /\ RunEnd(source, i) <= Len(source)
       THEN <<[char |-> " ", start |-> i, end |-> RunEnd(source, i),
               first |-> TRUE, last |-> TRUE]>>
       ELSE <<>>

Folded(source) == FlattenSeq([i \in DOMAIN source |-> Folding(source, i)])

Joined(chars, c) ==
  IF chars # <<>> /\ <<Last(chars), c>> \in DOMAIN Compose
  THEN Append(Front(chars), Compose[<<Last(chars), c>>])
  ELSE Append(chars, c)

\* normalize folds a text as a whole: what composes across clusters does.
Normalize(source) ==
  LET folded == Folded(source)
  IN FoldLeft(Joined, <<>>, [k \in DOMAIN folded |-> folded[k].char])

\* The normalized terms of an entry: its spelling and its aliases.
Terms(entry) == {Normalize(t) : t \in {entry.spelling} \cup entry.aliases}

\* validate_entries: no term belongs to two entries.
Unambiguous(dictionary) ==
  \A e, f \in dictionary : e # f => Terms(e) \cap Terms(f) = {}

(***************************************************************************)
(* apply_dictionary                                                        *)
(***************************************************************************)

BeforeOk(source, i) ==
  i = 1 \/ source[i - 1] \in Spaces \cup Openers

AfterOk(source, i) ==
  \/ i > Len(source)
  \/ source[i] \in Spaces
  \/ /\ source[i] \in Closers
     /\ \/ source[i] \notin Conditional
        \/ i = Len(source)
        \/ source[i + 1] \in Spaces

\* Mutant: a term may end inside a ligature.
EndsAnywhere(folded, k) == TRUE
\* A term ends where a cluster ends.
EndsCluster(folded, k) == folded[k].last

\* The terms found from position k of the folded text, with what they cover.
Found(source, folded, dictionary, k) ==
  {[end |-> folded[k + Len(t) - 1].end, spelling |-> e.spelling] :
     <<e, t>> \in {<<e, t>> \in UNION {{e} \X Terms(e) : e \in dictionary} :
        LET last == k + Len(t) - 1
        IN /\ last <= Len(folded)
           /\ \A i \in DOMAIN t : folded[k + i - 1].char = t[i]
           /\ EndsCluster(folded, last)
           /\ AfterOk(source, folded[last].end)}}

\* The longest, by the characters of the source it covers.
Longest(found) == CHOOSE m \in found : \A n \in found : n.end <= m.end

\* The replacements of the scan, left to right; replaced text is not looked at
\* again.
Replacements(source, dictionary) ==
  LET folded == Folded(source)
      After(k, end) ==
        Min({j \in k .. Len(folded) + 1 :
               j > Len(folded) \/ folded[j].end > end})
      scan[k \in 1 .. Len(folded) + 1] ==
        IF k > Len(folded) THEN <<>>
        ELSE LET start == folded[k].start
                 found == Found(source, folded, dictionary, k)
             IN IF folded[k].first /\ BeforeOk(source, start) /\ found # {}
                THEN LET best == Longest(found)
                     IN <<[start |-> start, end |-> best.end,
                           spelling |-> best.spelling]>>
                        \o scan[After(k, best.end)]
                ELSE scan[k + 1]
  IN scan[1]

\* The source with its replacements; everything between them is copied.
ApplyDictionary(source, dictionary) ==
  LET found == Replacements(source, dictionary)
      from(i) == IF i = 1 THEN 1 ELSE found[i - 1].end
      parts == [i \in DOMAIN found |->
                  SubSeq(source, from(i), found[i].start - 1)
                    \o found[i].spelling]
  IN FlattenSeq(parts)
       \o SubSeq(source, from(Len(found) + 1), Len(source))

(***************************************************************************)
(* One application after another.                                          *)
(***************************************************************************)

Init ==
  /\ entries \in {d \in Dictionaries : Unambiguous(d)}
  /\ text \in Texts
  /\ passes = 0

\* The controller applies the snapshot of a run to its transcript once. The
\* second pass is that of the test, which applies it to the result again.
Apply ==
  /\ passes < 2
  /\ text' = ApplyDictionary(text, entries)
  /\ passes' = passes + 1
  /\ UNCHANGED entries

Next == Apply

Spec == Init /\ [][Next]_textVars

(***************************************************************************)
(* Properties.                                                             *)
(***************************************************************************)

\* No two clusters of the source compose.
Apart(source) == Len(Normalize(source)) = Len(Folded(source))

\* What the rules of the work order say, over the source alone: at the leftmost
\* place where some term covers a span of whole tokens, the longest such span
\* becomes the spelling of its entry, and the rest is looked at after it. The
\* code makes one exception: a span whose clusters compose is not the term that
\* they are together.
Covers(source, e, i, j) ==
  LET span == SubSeq(source, i, j - 1)
  IN /\ Solid(source, i) /\ Solid(source, j - 1)
     /\ Normalize(span) \in Terms(e) /\ Apart(span)
     /\ BeforeOk(source, i) /\ AfterOk(source, j)

ByTheRules(source, dictionary) ==
  LET result[i \in 1 .. Len(source) + 1] ==
        LET spans == {j \in i + 1 .. Len(source) + 1 :
                        \E e \in dictionary : Covers(source, e, i, j)}
        IN IF i > Len(source) THEN <<>>
           ELSE IF spans = {} THEN <<source[i]>> \o result[i + 1]
           ELSE LET j == Max(spans)
                    e == CHOOSE e \in dictionary : Covers(source, e, i, j)
                IN e.spelling \o result[j]
  IN result[1]

\* The scan over the folded text does what the rules say of the source, with
\* ligatures, white space of any length, every boundary, and terms written as
\* clusters that compose or as the one they make (apply_dictionary).
FollowsTheRules == ApplyDictionary(text, entries) = ByTheRules(text, entries)

=============================================================================
