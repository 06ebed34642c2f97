------------------------------ MODULE Subwords ------------------------------
(***************************************************************************)
(* Dictionary::computeSubwords and the getSubwords that returns the        *)
(* substrings too (fastText/src/dictionary.cc:104-118, 172-195, 459-471),  *)
(* with FastText::getNgramVectors that reads the two lists side by side    *)
(* (fasttext.cc:523-538).                                                  *)
(*                                                                         *)
(* A word is a sequence of bytes, each the first of a character or one     *)
(* that continues it, between the marks < and >.  An n-gram is the pair of *)
(* its first position and the one behind it; the row of its bucket goes by *)
(* the same pair.  Positions count from zero as in the code.               *)
(***************************************************************************)
EXTENDS Integers, FiniteSets, Sequences, Functions

CONSTANTS
  MaxBytes,  \* bound: the bytes of a word
  MaxN       \* bound: args_->minn and args_->maxn

ASSUME SubwordsAssumption == MaxBytes \in Nat /\ MaxN \in Nat

VARIABLES
  word,        \* the bytes: TRUE for one that continues a character
  minn, maxn,  \* args_->minn, args_->maxn
  known,       \* the word is in the vocabulary
  pruneSize,   \* pruneidx_size_: -1 not pruned, 0 nothing kept, 1 some
  from, upto, count,  \* i, j and n of the loops
  ngrams,      \* the rows, by the n-gram they are of
  substrings,
  stage        \* "start", "from", "more", "done"

wordVars == <<word, minn, maxn, known, pruneSize, from, upto, count, ngrams, substrings, stage>>

Whole == <<0, 0>>  \* the word itself
Size == Len(word)
Continues(p) == word[p + 1]

WordInit ==
  /\ word \in {<<FALSE>> \o w \o <<FALSE>> :
                 w \in UNION {[1 .. m -> BOOLEAN] : m \in 0 .. MaxBytes}}
  /\ minn \in 0 .. MaxN /\ maxn \in 0 .. MaxN
  /\ known \in BOOLEAN /\ pruneSize \in {-1, 0, 1}
  /\ from = 0 /\ upto = 0 /\ count = 0
  /\ ngrams = <<>> /\ substrings = <<>>
  /\ stage = "start"

\* getSubwords: a word of the vocabulary comes first.
Begin ==
  /\ stage = "start"
  /\ ngrams' = IF known THEN <<Whole>> ELSE <<>>
  /\ substrings' = ngrams'
  /\ stage' = "from"
  /\ UNCHANGED <<word, minn, maxn, known, pruneSize, from, upto, count>>

\* The outer loop: n-grams start at the first byte of a character.
From ==
  /\ stage = "from" /\ from < Size
  /\ IF Continues(from)
     THEN from' = from + 1 /\ UNCHANGED <<upto, count, stage>>
     ELSE upto' = from /\ count' = 1 /\ stage' = "more" /\ UNCHANGED from
  /\ UNCHANGED <<word, minn, maxn, known, pruneSize, ngrams, substrings>>

\* The end of the character that starts at p.
CharEnd(p) == CHOOSE q \in p + 1 .. Size :
                /\ q = Size \/ ~Continues(q)
                /\ \A r \in p + 1 .. q - 1 : Continues(r)

WantedMarks(m, e) == m >= minn  \* Slip: a mark alone counts

Wanted(m, e) == m >= minn /\ ~(m = 1 /\ (from = 0 \/ e = Size))

\* pushHash drops the bucket when the model was pruned and it was not kept;
\* which ones were is open.
PushHash(g) ==
  \/ pruneSize # 0 /\ ngrams' = Append(ngrams, g)
  \/ pruneSize >= 0 /\ UNCHANGED ngrams

\* The inner loop: one character more, and the n-gram if it is long enough.
More ==
  /\ stage = "more" /\ upto < Size /\ count <= maxn
  /\ upto' = CharEnd(upto)
  /\ count' = count + 1
  /\ IF Wanted(count, upto')
     THEN PushHash(<<from, upto'>>) /\ substrings' = Append(substrings, <<from, upto'>>)
     ELSE UNCHANGED <<ngrams, substrings>>
  /\ UNCHANGED <<word, minn, maxn, known, pruneSize, from, stage>>

Ends ==
  /\ stage = "more" /\ (upto >= Size \/ count > maxn)
  /\ from' = from + 1 /\ stage' = "from"
  /\ UNCHANGED <<word, minn, maxn, known, pruneSize, upto, count, ngrams, substrings>>

Done ==
  /\ stage = "from" /\ from = Size
  /\ stage' = "done"
  /\ UNCHANGED <<word, minn, maxn, known, pruneSize, from, upto, count, ngrams, substrings>>

WordNext == Begin \/ From \/ More \/ Ends \/ Done

WordSpec == WordInit /\ [][WordNext]_wordVars

-----------------------------------------------------------------------------
\* The n-grams of the word as a text: runs of minn to maxn whole characters,
\* without the marks alone.
Firsts == {p \in 0 .. Size - 1 : ~Continues(p)}

Between(a, b) == {p \in Firsts : a <= p /\ p < b}

NgramsOfText ==
  {g \in Firsts \X (Firsts \cup {Size}) :
     LET m == Cardinality(Between(g[1], g[2]))
     IN /\ g[1] < g[2] /\ minn <= m /\ m <= maxn
        /\ ~(m = 1 /\ (g[1] = 0 \/ g[2] = Size))}

\* The substrings are the n-grams of the text, each once, and none begins or
\* ends within a character (dictionary.cc:176-193), also when bytes that
\* continue nothing follow a mark and when minn is zero or above maxn.
NgramsOfCharacters ==
  stage = "done" =>
    /\ IsInjective(substrings)
    /\ Range(substrings) = NgramsOfText \cup IF known THEN {Whole} ELSE {}

\* The vector that getNgramVectors puts beside a substring is that of its
\* n-gram (fasttext.cc:530-536), in a model that was not pruned ...
AlignedUnlessPruned ==
  stage = "done" /\ pruneSize = -1 => ngrams = substrings

\* ... and in any model.
Aligned ==
  stage = "done" => \A m \in DOMAIN ngrams : ngrams[m] = substrings[m]

\* The n-grams of a word are those of its characters, and in a model that was not
\* pruned their vectors stand beside them.
SubwordsRight == NgramsOfCharacters /\ AlignedUnlessPruned
=============================================================================
