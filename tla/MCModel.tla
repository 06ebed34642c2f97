------------------------------ MODULE MCModel ------------------------------
(***************************************************************************)
(* The parts of a fastText model, for TLC: its vocabulary, its n-grams, the *)
(* search for the best labels, the meter, the arguments and the size that  *)
(* autotune chooses, the file.  A behaviour is one of one part, which the  *)
(* initial state picks.  Those that are extended have variables of their own, *)
(* which stay as they are in other parts; the rest share v1..v13.          *)
(***************************************************************************)
EXTENDS ModelFile, ModelSize, KBest, Subwords, FiniteSets

CONSTANTS EOS, w1, w2, w3, l1, l2, all

(* Hashes that collide in the table of training and in those of loaded      *)
(* models, and n-grams that words share.                                    *)
DictWords == {EOS, w1, w2, w3}
HashOf == [t \in DictWords \union {l1, l2} |->
             CASE t = EOS -> 9 [] t = w1 -> 4 [] t = w2 -> 4
               [] t = w3 -> 5 [] t = l1 -> 9 [] OTHER -> 14]
NgramsOf == [t \in DictWords |->
               CASE t = w1 -> <<0>> [] t = w2 -> <<0, 1>> [] t = w3 -> <<1>> [] OTHER -> <<>>]

(* Inner nodes of a tree: even, leaning to the left and to the right.       *)
InnerNodes == {<<-1, -1>>, <<0, -3>>, <<-2, 0>>}

(* From below the smallest model to above the largest, beyond an int both   *)
(* ways.                                                                    *)
SomeSizes == {60 + 5 * s : s \in {0, 4, 8, 12} \union 18..48}

VARIABLES
    part, \* which part runs, and the variables of the parts that share them
    v1, v2, v3, v4, v5, v6, v7, v8, v9, v10, v11, v12, v13

others == <<v1, v2, v3, v4, v5, v6, v7, v8, v9, v10, v11, v12, v13>>
mcvars == <<part, vars, askVars, sizeVars, bestVars, wordVars, others>>

Dict == INSTANCE Dictionary WITH
    Words <- DictWords, Labels <- {l1, l2}, Hash <- HashOf,
    Ngrams <- NgramsOf, Bucket <- 2, MaxVocab <- 5, MinCount <- 1,
    MinCountLabel <- 0, MaxTokens <- 7, words <- v1, nwords <- v2,
    nlabels <- v3, table <- v4, ntokens <- v5, minThreshold <- v6,
    pruneidx <- v7, pruned <- v8, subwords <- v9, rows <- v10, seen <- v11,
    labelOrder <- v12, phase <- v13

Tree == INSTANCE HierarchicalSoftmax WITH
    MaxLabels <- 5, MaxCount <- 3, Splits <- InnerNodes,
    Thresholds <- {-9, -2}, counts <- v1, tree <- v2, leaf <- v3, node <- v4,
    made <- v5, f <- v6, k <- v7, threshold <- v8, stack <- v9, heap <- v10,
    pc <- v11

Meters == INSTANCE Meter WITH
    Labels <- {l1, l2}, AllLabels <- all, MaxScore <- 2, MaxExamples <- 3,
    MaxLabels <- 2, falseNegativeLabels <- v1, nexamples <- v2, metrics <- v3,
    labelMetrics <- v4

ASSUME PartsAssumption ==
    /\ Dict!DictionaryAssumption
    /\ Tree!HierarchicalSoftmaxAssumption /\ Meters!MeterAssumption

-----------------------------------------------------------------------------
Off == 0  \* a variable that the part does not have

MCInit ==
    /\ Init
    /\ \/ part = "dictionary" /\ Dict!Init
       \/ part = "tree" /\ Tree!Init /\ v12 = Off /\ v13 = Off
       \/ part = "meter" /\ Meters!Init /\ v5 = Off /\ v6 = Off /\ v7 = Off
          /\ v8 = Off /\ v9 = Off /\ v10 = Off /\ v11 = Off /\ v12 = Off
          /\ v13 = Off
       \/ part \in {"file", "strategy", "size", "k best", "subwords"}
          /\ v1 = Off /\ v2 = Off /\ v3 = Off /\ v4 = Off /\ v5 = Off /\ v6 = Off
          /\ v7 = Off /\ v8 = Off /\ v9 = Off /\ v10 = Off /\ v11 = Off /\ v12 = Off
          /\ v13 = Off
    /\ part = "file" \/ file = <<>>
    /\ (part = "strategy" \/ manual = {}) /\ AskInit
    /\ \/ part = "size"
       \/ dim = 1 /\ dsub = 2 /\ modelsize = 60 /\ nwords = 1 /\ bucket = 0
          /\ nlabels = 1 /\ length = 0
    /\ SizeInit
    /\ part = "k best" \/ (caller = "findKBest" /\ scores = <<>> /\ k = 1 /\ threshold = 0)
    /\ BestInit
    /\ \/ part = "subwords"
       \/ word = <<FALSE, FALSE>> /\ minn = 0 /\ maxn = 0 /\ known = FALSE /\ pruneSize = 0
    /\ WordInit

Unused ==
    /\ UNCHANGED part
    /\ part = "file" \/ UNCHANGED vars
    /\ part = "strategy" \/ UNCHANGED askVars
    /\ part = "size" \/ UNCHANGED sizeVars
    /\ part = "k best" \/ UNCHANGED bestVars
    /\ part = "subwords" \/ UNCHANGED wordVars
    /\ \/ part \in {"file", "strategy", "size", "k best", "subwords"} /\ UNCHANGED others
       \/ part = "dictionary"
       \/ part = "tree" /\ UNCHANGED <<v12, v13>>
       \/ part = "meter" /\ UNCHANGED <<v5, v6, v7, v8, v9, v10, v11, v12, v13>>

MCNext ==
    /\ Unused
    /\ \/ part = "dictionary" /\ Dict!Next
       \/ part = "subwords" /\ WordNext
       \/ part = "tree" /\ Tree!Next
       \/ part = "meter" /\ Meters!Next
       \/ part = "file" /\ Next
       \/ part = "strategy" /\ AskNext
       \/ part = "size" /\ SizeNext
       \/ part = "k best" /\ BestNext

MCSpec == MCInit /\ [][MCNext]_mcvars

-----------------------------------------------------------------------------
(* Dictionary, HierarchicalSoftmax and Meter: a search of the table ends    *)
(* and finds exactly what is there, counts are short only by what           *)
(* thresholds took, the rows of words and labels follow them through        *)
(* pruning and pretrained vectors; the tree is one of least cost, and its   *)
(* search, though it leaves out branches, finds the k best leaves; totals   *)
(* are the sums over labels, and the precision for a recall and the recall  *)
(* for a precision are the best of all thresholds (dictionary.cc:49-71,     *)
(* 236-246, 261-292, 473-479, 528-577; fasttext.cc:337-347; loss.cc:        *)
(* 203-260, 263-301; meter.cc:25-49, 89-135, 142-154).                      *)
LibraryHolds ==
    /\ part = "dictionary" =>
          /\ Dict!TypeOK /\ Dict!RoomToProbe /\ Dict!FoundIffThere
          /\ Dict!CountsWithinLosses /\ Dict!RowsFollow /\ Dict!LabelsKeepNumbers
    /\ part = "tree" => Tree!TypeOK /\ Tree!Optimal /\ Tree!FindsBest
    /\ part = "meter" =>
          Meters!TotalsAreSums /\ Meters!PrecisionIsBest /\ Meters!RecallIsBest
=============================================================================
