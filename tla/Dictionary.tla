----------------------------- MODULE Dictionary -----------------------------
(***************************************************************************)
(* The vocabulary of fastText (fastText/src/dictionary.cc): words and      *)
(* labels with their counts, found through an open-addressing table, and   *)
(* the rows of the input matrix that belong to them (fasttext.cc).  It is  *)
(* built from a text of tokens in any order, thresholded on the way when   *)
(* the table fills up and once at the end, extended with the words of a    *)
(* file of vectors, pruned to the embeddings with the largest norms,       *)
(* saved and loaded again into a smaller table.                            *)
(*                                                                         *)
(* A token is a model value.  Ngrams gives the buckets of a word's         *)
(* character n-grams and Hash its hash, which TLC sees modulo the size of  *)
(* the table as the code does.  Ids count from zero as in the code, so the *)
(* entry with id i is words[i + 1].                                        *)
(***************************************************************************)
EXTENDS Integers, FiniteSets, Sequences, SequencesExt

CONSTANTS
  Words,          \* tokens that do not start with the label prefix
  Labels,         \* tokens that do
  EOS,            \* the word that stands for the end of a line
  Hash,           \* token -> its hash
  Ngrams,         \* word -> the sequence of the buckets of its n-grams
  Bucket,         \* args_->bucket: the number of buckets
  MaxVocab,       \* MAX_VOCAB_SIZE: the cells of the table built by training
  MinCount,       \* args_->minCount
  MinCountLabel,  \* args_->minCountLabel
  MaxTokens       \* bound: the tokens of the text

DictionaryAssumption ==
  /\ Words \cap Labels = {} /\ EOS \in Words
  /\ Hash \in [Words \cup Labels -> Nat]
  /\ Ngrams \in [Words -> Seq(0 .. Bucket - 1)]
  /\ MaxVocab \in Nat /\ MaxVocab > 4
  /\ MinCount \in Nat /\ MinCountLabel \in Nat /\ MaxTokens \in Nat

Tokens == Words \cup Labels
Free == -1

VARIABLES
  words,         \* words_: entries [word, count] in the order of their ids
  nwords,        \* nwords_: the entries that are words come first
  nlabels,       \* nlabels_
  table,         \* word2int_: cell -> id, or Free
  ntokens,       \* ntokens_
  minThreshold,  \* the local of readFromFile
  pruneidx,      \* pruneidx_: kept bucket -> its new number
  pruned,        \* pruneidx_size_ >= 0
  subwords,      \* word of words -> the rows of its subwords
  rows,          \* ghost: what each row of the input matrix was trained for
  seen,          \* ghost: token -> how often it was read
  labelOrder,    \* ghost: the labels as the rows of the output matrix know them
  phase          \* how far FastText::train, quantize and loadModel have come

vars == <<words, nwords, nlabels, table, ntokens, minThreshold, pruneidx,
          pruned, subwords, rows, seen, labelOrder, phase>>

-----------------------------------------------------------------------------
(***************************************************************************)
(* Dictionary::find: the first cell from the hash on that is free or holds *)
(* the word.  A full table without the word would be searched forever.     *)
(***************************************************************************)
Size(t) == Cardinality(DOMAIN t)
Cell(t, w, k) == (Hash[w] + k) % Size(t)

Stops(t, ws, w, k) ==
  LET id == t[Cell(t, w, k)] IN id = Free \/ ws[id + 1].word = w

Find(t, ws, w) ==
  Cell(t, w, CHOOSE k \in 0 .. Size(t) - 1 :
               /\ Stops(t, ws, w, k)
               /\ \A j \in 0 .. k - 1 : ~Stops(t, ws, w, j))

GetId(w) == table[Find(table, words, w)]

EmptyTable(n) == [c \in 0 .. n - 1 |-> Free]

\* The loop of threshold, prune and load that enters the words by their ids.
Filled(t, ws) ==
  FoldLeftDomain(LAMBDA acc, i : [acc EXCEPT ![Find(acc, ws, ws[i].word)] = i - 1],
                 t, ws)

-----------------------------------------------------------------------------
IsLabel(e) == e.word \in Labels

\* Dictionary::pushHash, for the n-gram in bucket b: no row, or one row.
RowOf(b, n, idx, isPruned) ==
  IF ~isPruned THEN <<n + b>>
  ELSE IF b \in DOMAIN idx THEN <<n + idx[b]>> ELSE <<>>

\* Dictionary::initNgrams and computeSubwords.  The subwords of a label are
\* computed too and never read.
Subwords(ws, n, idx, isPruned) ==
  [w \in {e.word : e \in ToSet(ws)} \ Labels |->
     LET id == CHOOSE i \in DOMAIN ws : ws[i].word = w
     IN <<id - 1>> \o
        IF w = EOS THEN <<>>
        ELSE FlattenSeq([k \in DOMAIN Ngrams[w] |-> RowOf(Ngrams[w][k], n, idx, isPruned)])]

\* The orders std::sort may leave the entries in: words first, each kind by
\* falling counts, equal ones in any order.
Before(a, b) ==
  \/ ~IsLabel(a) /\ IsLabel(b)
  \/ IsLabel(a) = IsLabel(b) /\ a.count > b.count

Sorted(es) == {s \in SetToSeqs(es) :
                 \A i, j \in DOMAIN s : i < j => ~Before(s[j], s[i])}

Keeps(e, t, tl) == e.count >= IF IsLabel(e) THEN tl ELSE t

\* Dictionary::threshold, of the entries ws: which are left, in which order,
\* and the table with them.
Threshold(ws, t, tl) ==
  \E s \in Sorted({e \in ToSet(ws) : Keeps(e, t, tl)}) :
    /\ words' = s
    /\ nwords' = Cardinality({i \in DOMAIN s : ~IsLabel(s[i])})
    /\ nlabels' = Cardinality({i \in DOMAIN s : IsLabel(s[i])})
    /\ table' = Filled(EmptyTable(Size(table)), s)

\* Dictionary::add, of the token w.
AddedWords(w) ==
  IF GetId(w) = Free THEN Append(words, [word |-> w, count |-> 1])
  ELSE [words EXCEPT ![GetId(w) + 1].count = @ + 1]

AddedTable(w) ==
  IF GetId(w) = Free
  THEN [table EXCEPT ![Find(table, words, w)] = Len(words)]
  ELSE table

\* size_ > 0.75 * MAX_VOCAB_SIZE
TooFull(n) == 4 * n > 3 * MaxVocab

-----------------------------------------------------------------------------
Init ==
  /\ words = <<>> /\ nwords = 0 /\ nlabels = 0
  /\ table = EmptyTable(MaxVocab)
  /\ ntokens = 0
  /\ minThreshold = 1
  /\ pruneidx = <<>> /\ pruned = FALSE
  /\ subwords = <<>>
  /\ rows = <<>>
  /\ seen = [w \in Tokens |-> 0]
  /\ labelOrder = <<>>
  /\ phase = "reading"

\* A turn of the loop of readFromFile: a token is added, and when the table
\* is too full for comfort the rare entries are dropped.
Read(w) ==
  /\ phase = "reading"
  /\ ntokens < MaxTokens
  /\ ntokens' = ntokens + 1
  /\ seen' = [seen EXCEPT ![w] = @ + 1]
  /\ IF TooFull(Len(AddedWords(w)))
     THEN /\ minThreshold' = minThreshold + 1
          /\ Threshold(AddedWords(w), minThreshold + 1, minThreshold + 1)
     ELSE /\ words' = AddedWords(w)
          /\ table' = AddedTable(w)
          /\ UNCHANGED <<nwords, nlabels, minThreshold>>
  /\ UNCHANGED <<pruneidx, pruned, subwords, rows, labelOrder, phase>>

\* What train makes once the words are known: a row for each word and for
\* each bucket (createRandomMatrix, 727), an output row for each label.
Rows(s, n) == [i \in 1 .. n |-> s[i].word] \o [b \in 1 .. Bucket |-> b - 1]
LabelsOf(s) == SelectSeq([i \in DOMAIN s |-> s[i].word], LAMBDA w : w \in Labels)

\* The end of readFromFile.  An empty vocabulary throws and train gives up.
Finish ==
  /\ phase = "reading"
  /\ Threshold(words, MinCount, MinCountLabel)
  /\ subwords' = Subwords(words', nwords', pruneidx, pruned)
  /\ phase' = IF words' = <<>> THEN "threw" ELSE "read"
  /\ UNCHANGED <<ntokens, minThreshold, pruneidx, pruned, rows, seen, labelOrder>>

\* Bound: the file of vectors leaves a free cell.  Nothing in the code sees to
\* it, add alone never drops entries, but a file that fills the last quarter of
\* thirty million cells is not one that a test of small size can stand for.
VectorsFit(w) == Len(AddedWords(w)) < MaxVocab

\* getInputMatrixFromFile: the words of a file of vectors, here one, are
\* added, and counted, and everything is thresholded and sorted again.
Pretrained(w) ==
  /\ phase = "read"
  /\ ntokens < MaxTokens
  /\ VectorsFit(w)
  /\ ntokens' = ntokens + 1
  /\ seen' = [seen EXCEPT ![w] = @ + 1]
  /\ Threshold(AddedWords(w), 1, 0)
  /\ subwords' = Subwords(words', nwords', pruneidx, pruned)
  /\ phase' = "vectors"
  /\ UNCHANGED <<minThreshold, pruneidx, pruned, rows, labelOrder>>

\* The matrices of train, made after the vocabulary is complete.
Train ==
  /\ phase \in {"read", "vectors"}
  /\ rows' = Rows(words, nwords)
  /\ labelOrder' = LabelsOf(words)
  /\ phase' = "trained"
  /\ UNCHANGED <<words, nwords, nlabels, table, ntokens, minThreshold, pruneidx,
                 pruned, subwords, seen>>

-----------------------------------------------------------------------------
\* selectEmbeddings: the rows with the largest norms, that of the end of the
\* line first when it is known; norms are arbitrary.
Selections ==
  LET eos == GetId(EOS)
      n == Len(rows)
  IN {s \in UNION {SetToSeqs(r) : r \in SUBSET (0 .. n - 1)} :
        /\ Len(s) > 0 /\ Len(s) < n
        /\ (eos # Free => s[1] = eos)}

\* Dictionary::prune: words keep their order, whatever that of their norms;
\* n-grams follow in the order of their norms.
IdxWords(s) == SetToSortSeq({i \in ToSet(s) : i < nwords}, <)
IdxNgrams(s) == SelectSeq(s, LAMBDA i : i >= nwords)

\* The loop at 565: a label is kept, and a word when it is next in the list.
KeptWords(ws, iw) ==
  FoldLeftDomain(LAMBDA acc, i :
                   IF \/ IsLabel(ws[i])
                      \/ Len(acc) < Len(iw) /\ iw[Len(acc) + 1] = i - 1
                   THEN Append(acc, ws[i]) ELSE acc,
                 <<>>, ws)

NewNumbersAfterWords(ing) ==  \* Slip: the row, from which nwords is not taken
  [b \in {ing[j] - nwords : j \in DOMAIN ing} |->
     (CHOOSE j \in DOMAIN ing : ing[j] - nwords = b)]

NewNumbers(ing) ==
  [b \in {ing[j] - nwords : j \in DOMAIN ing} |->
     (CHOOSE j \in DOMAIN ing : ing[j] - nwords = b) - 1]

\* initNgrams at the end of prune.
PrunedSubwords(ws, n, idx) == Subwords(ws, n, idx, TRUE)

\* quantize with a cutoff: prune, and a matrix with the rows of the index.
\* Only supervised models are quantized; one without a label is left out.
Quantize(s) ==
  LET iw == IdxWords(s)
      ing == IdxNgrams(s)
      idx == iw \o ing
      ws == KeptWords(words, iw)
  IN /\ phase = "trained" /\ ~pruned /\ nlabels > 0
     /\ pruneidx' = NewNumbers(ing)
     /\ pruned' = TRUE
     /\ words' = ws
     /\ nwords' = Len(iw)
     /\ table' = Filled(EmptyTable(Size(table)), ws)
     /\ subwords' = PrunedSubwords(ws, Len(iw), NewNumbers(ing))
     /\ rows' = [i \in DOMAIN idx |-> rows[idx[i] + 1]]
     /\ UNCHANGED <<nlabels, ntokens, minThreshold, seen, labelOrder, phase>>

\* The cells of a loaded table: std::ceil(size_ / 0.7).
LoadedCells(n) == (10 * n + 6) \div 7

\* save and then load: counts, words and pruneidx_ are written and read back,
\* the table and the subwords are computed again.
SaveLoad ==
  /\ phase = "trained"
  /\ table' = Filled(EmptyTable(LoadedCells(Len(words))), words)
  /\ subwords' = Subwords(words, nwords, pruneidx, pruned)
  /\ phase' = "loaded"
  /\ UNCHANGED <<words, nwords, nlabels, ntokens, minThreshold, pruneidx, pruned,
                 rows, seen, labelOrder>>

Next ==
  \/ \E w \in Tokens : Read(w) \/ Pretrained(w)
  \/ Finish
  \/ Train
  \/ phase = "trained" /\ ~pruned /\ \E s \in Selections : Quantize(s)
  \/ SaveLoad

Spec == Init /\ [][Next]_vars

-----------------------------------------------------------------------------
Entries == [word : Tokens, count : 0 .. MaxTokens]

\* The vocabulary has its types; words come before labels, no token twice,
\* and once thresholded the two counters are those of the entries
\* (dictionary.cc:261-292, 540-577).
TypeOK ==
  /\ words \in Seq(Entries)
  /\ \A i, j \in DOMAIN words : i # j => words[i].word # words[j].word
  /\ phase # "reading" =>
       /\ nwords + nlabels = Len(words)
       /\ \A i \in DOMAIN words : IsLabel(words[i]) <=> i > nwords
  /\ \A c \in DOMAIN table : table[c] \in -1 .. Len(words) - 1
  /\ phase \in {"reading", "read", "vectors", "threw", "trained", "loaded"}
  /\ pruned \in BOOLEAN

\* Every search of the table ends (find, dictionary.cc:49-56): it has a free
\* cell after each token, each threshold, each pruning and in the smaller
\* table of a loaded model.
RoomToProbe == \E c \in DOMAIN table : table[c] = Free

\* A token that has an entry is found, and one that has none is not, after
\* any sequence of collisions, thresholds, prunings and loads
\* (dictionary.cc:49-71, 281-284, 562-572, 528-532).
FoundIffThere ==
  RoomToProbe =>
  \A w \in Tokens :
    IF \E i \in DOMAIN words : words[i].word = w
    THEN GetId(w) # Free /\ words[GetId(w) + 1].word = w
    ELSE GetId(w) = Free

\* The sum of the counts an entry may have lost when it was dropped at each
\* of the early thresholds 2 .. m: at most 1 + 2 + ... + (m - 1).
Losses(m) == ((m - 1) * m) \div 2

\* The early thresholds lose no more than they may (readFromFile,
\* dictionary.cc:236-246): until the final threshold an entry counts each
\* occurrence at most once, and misses no more than the earlier thresholds
\* could take.
CountsWithinLosses ==
  phase = "reading" =>
    \A w \in Tokens :
      LET c == IF \E i \in DOMAIN words : words[i].word = w
               THEN words[CHOOSE i \in DOMAIN words : words[i].word = w].count
               ELSE 0
      IN c <= seen[w] /\ seen[w] - c <= Losses(minThreshold)

\* The rows of the input matrix follow the ids (fasttext.cc:337-347 with
\* dictionary.cc:540-577): an entry that is a word has the row it was trained
\* with, and the subwords of each word are its own row and those of its
\* n-grams that were kept, before and after pruning and loading.
RowsFollow ==
  phase \in {"trained", "loaded"} =>
    \A i \in 1 .. nwords :
      LET w == words[i].word
          mine == {w} \cup IF w = EOS THEN {} ELSE ToSet(Ngrams[w])
      IN /\ rows[i] = w
         /\ \A k \in DOMAIN subwords[w] : subwords[w][k] + 1 \in DOMAIN rows
         /\ {rows[subwords[w][k] + 1] : k \in DOMAIN subwords[w]} = mine \cap ToSet(rows)

\* The numbers of the labels never change once the output matrix has its rows
\* (getLabel, dictionary.cc:473-479): a prediction names the label it was
\* trained for, also after the words before it were pruned.
LabelsKeepNumbers ==
  phase \in {"trained", "loaded"} =>
    /\ nlabels = Len(labelOrder) /\ Len(words) = nwords + nlabels
    /\ \A l \in 1 .. nlabels : words[nwords + l].word = labelOrder[l]
=============================================================================
