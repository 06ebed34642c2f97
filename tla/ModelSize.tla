------------------------------ MODULE ModelSize ------------------------------
(***************************************************************************)
(* -autotune-modelsize: how many rows Autotune::getCutoffForFileSize       *)
(* (fastText/src/autotune.cc:321-362) keeps for a size of the file, and    *)
(* what FastText::saveModel then writes (fasttext.cc:192-211), in bytes.   *)
(*                                                                         *)
(* The constants 107, 21, 16, 10 and the sizes of the fields are the       *)
(* code's.  The 256 centroids and the range of int are parameters, so that *)
(* their limits lie within reach.                                          *)
(***************************************************************************)
EXTENDS AutotuneStrategy

CONSTANTS
  KSub,       \* 1 << 8: the centroids of a quantizer, and kCutoffLimit
  IntHalf,    \* 2^31: an int holds -IntHalf .. IntHalf - 1
  Dims, DsubValues,      \* bounds: args.dim and args.dsub
  Sizes,                \* bound: the size that is asked for
  MaxWords, MaxBuckets,  \* bounds: the rows of the input matrix
  MaxLabels,            \* bound: the rows of the output matrix
  Lengths               \* bound: the bytes of a word or a label

ASSUME ModelSizeAssumption ==
  /\ KSub \in Nat \ {0} /\ IntHalf \in Nat \ {0}
  /\ Dims \subseteq Nat \ {0} /\ DsubValues \subseteq Nat \ {0}
  /\ Sizes \subseteq Nat /\ Lengths \subseteq Nat
  /\ MaxWords \in Nat /\ MaxBuckets \in Nat /\ MaxLabels \in Nat

VARIABLES
  dim, dsub, modelsize,
  nwords, bucket,  \* the rows of the input matrix
  nlabels,         \* the rows of the output matrix
  length,          \* the bytes of each word and label
  cutoff,          \* args.cutoff
  pruned,          \* the dictionary was pruned
  kept,            \* the words that are left
  pc               \* "trained", "cut", "quantized", "thrown", "refused"

sizeVars == <<dim, dsub, modelsize, nwords, bucket, nlabels, length, cutoff, pruned, kept, pc>>

Rows == nwords + bucket
Larger(a, b) == IF a > b THEN a ELSE b
Smaller(a, b) == IF a < b THEN a ELSE b

\* Division of C++, towards zero, by a positive number.
Over(a, b) == IF a >= 0 THEN a \div b ELSE -((-a) \div b)
RoundedUp(a, b) == (a + b - 1) \div b

\* What an int keeps of a number.
ToInt(n) == ((n + IntHalf) % (2 * IntHalf)) - IntHalf

SizeInit ==
  /\ dim \in Dims /\ dsub \in DsubValues /\ modelsize \in Sizes
  /\ nwords \in 1 .. MaxWords /\ bucket \in 0 .. MaxBuckets
  /\ nlabels \in 1 .. MaxLabels /\ length \in Lengths
  /\ cutoff = 0 /\ pruned = FALSE /\ kept = nwords
  /\ pc = "trained"

qout == nlabels >= KSub

\* The size of the output matrix, as the code reckons it.
OutModelSize ==
  IF qout THEN 21 + nlabels * RoundedUp(dim, 2) + (16 + 4 * dim * KSub) + nlabels
          ELSE 16 + 4 * nlabels * dim

LeftForRows == modelsize - 107 - 4 * KSub * dim - OutModelSize

Target == ToInt(LeftForRows)

\* What a row takes: its codes, its norm and its entry in the dictionary.
RowSize == RoundedUp(dim, dsub) + 1 + 10

CutoffLess == Larger(ToInt(Over(Target, RowSize)) - 1, KSub)  \* Slip: one row to be safe

getCutoffForFileSize == Larger(ToInt(Over(Target, RowSize)), KSub)

\* Autotune::quantize: a cutoff at the limit is refused.
Cut ==
  /\ pc = "trained"
  /\ cutoff' = getCutoffForFileSize
  /\ pc' = IF cutoff' = KSub THEN "refused" ELSE "cut"
  /\ UNCHANGED <<dim, dsub, modelsize, nwords, bucket, nlabels, length, pruned, kept>>

\* FastText::quantize: the cutoff rows with the largest norms stay, words or
\* n-grams; a quantizer needs as many rows as it has centroids.
QuantizeRows ==
  /\ pc = "cut"
  /\ pruned' = (cutoff < Rows)
  /\ kept' \in IF cutoff < Rows
               THEN Larger(1, cutoff - bucket) .. Smaller(nwords, cutoff)
               ELSE {nwords}
  /\ pc' = IF Smaller(cutoff, Rows) < KSub THEN "thrown" ELSE "quantized"
  /\ UNCHANGED <<dim, dsub, modelsize, nwords, bucket, nlabels, length, cutoff>>

SizeNext == Cut \/ QuantizeRows

SizeSpec == SizeInit /\ [][SizeNext]_sizeVars

-----------------------------------------------------------------------------
(***************************************************************************)
(* The bytes that saveModel writes.                                        *)
(***************************************************************************)
\* ProductQuantizer::save: four ints and the centroids.
Quantizer(n) == 16 + 4 * n * KSub

\* QuantMatrix::save, with the norms apart.
QuantMatrix(m, n, sub) ==
  (1 + 8 + 8 + 4) + m * RoundedUp(n, sub) + Quantizer(n) + m + Quantizer(1)

DenseMatrix(m, n) == 16 + 4 * m * n

\* Dictionary::save: its sizes, an entry of word, zero, count and type for each
\* word and label, and a pair of ints for each n-gram that was kept.
DictionarySize(rows) ==
  28 + (kept + nlabels) * (length + 10) + IF pruned THEN 8 * (rows - kept) ELSE 0

FileSize ==
  LET rows == Smaller(cutoff, Rows)
  IN 8 + 56 + DictionarySize(rows) + 1 + QuantMatrix(rows, dim, dsub)
     + 1 + IF qout THEN QuantMatrix(nlabels, dim, 2) ELSE DenseMatrix(nlabels, dim)

\* What the estimate does not count: the texts of the words, the entries of the
\* labels, the quantizers of the norms and a few fields.
Uncounted ==
  kept * length + nlabels * (length + 10)
  + Quantizer(1) * (IF qout THEN 2 ELSE 1) + 24

\* But for that, the file is no larger than was asked for (autotune.cc:321-342
\* against what is written), with an odd dim, a quantized or a dense output,
\* pruned or not; unless what is left for the rows is less than any int.
SizeKeptButForNames ==
  (pc = "quantized" /\ LeftForRows >= -IntHalf) => FileSize <= modelsize + Uncounted

\* "requested model size is probably too small" (autotune.cc:433): a size is
\* refused only if more rows than the limit do not fit by the estimate, or if
\* what is left for the rows is more than any int.
RefusedOnlyIfTooSmall ==
  (pc = "refused" /\ LeftForRows < IntHalf) =>
    107 + 4 * KSub * dim + OutModelSize + (KSub + 1) * RowSize > modelsize

\* What the user set stays, buckets are there when n-grams are, and the pruned
\* model has the size asked for but for its names, or the size is refused as too
\* small (autotune.cc:173-182, 199-206, 321-342, 375-379, 433).
ChosenAsAsked ==
  /\ BucketsWhenNeeded /\ ManualStays
  /\ SizeKeptButForNames /\ RefusedOnlyIfTooSmall

\* "constraint model file size" (args.cc:307).
FileWithinSize == pc = "quantized" => FileSize <= modelsize
=============================================================================
