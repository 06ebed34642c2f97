---------------------------- MODULE ModelProofs ----------------------------
(***************************************************************************)
(* A model file gives back what was saved, after any number of trainings;  *)
(* autotune's choices are those asked for; the scan for the best holds the *)
(* best; a word's n-grams are of its characters: proofs about ModelFile,   *)
(* AutotuneStrategy, ModelSize, KBest and Subwords.                        *)
(***************************************************************************)
EXTENDS ModelFile, ModelSize, KBest, Subwords, FiniteSetTheorems, NaturalsInduction, TLAPS

(***************************************************************************)
(* ModelFile.                                                              *)
(***************************************************************************)

Args == [sup : BOOLEAN, qout : BOOLEAN, maxn : BOOLEAN]
Dicts == [of : Int, pruned : BOOLEAN]
Matrices == [kind : {"dense", "quant"}, of : Int, pruned : BOOLEAN]

(* The two flags tell the kinds of the matrices, which are for the rows of  *)
(* the dictionary.                                                          *)
Agree(q, qo, d, i, o) ==
  /\ q <=> i.kind = "quant"
  /\ (q /\ qo) <=> o.kind = "quant"
  /\ i.of = d.of /\ i.pruned = d.pruned /\ o.of = d.of

(* A file that was written to its end, by this program or by an older one,  *)
(* and what it was written from.                                            *)
Holds(f, c) ==
  \E v \in Int, s, m, q, qo \in BOOLEAN, d \in Dicts, i, o \in Matrices :
    /\ f = <<[version |-> v], [sup |-> s, maxn |-> m], d, q, i, qo, o>>
    /\ c = <<s, m /\ ~(v = 11 /\ s), d, i, o>>
    /\ Agree(q, qo, d, i, o)

LEMMA HoldsIf ==
  ASSUME NEW f, NEW c, NEW v \in Int, NEW s \in BOOLEAN, NEW m \in BOOLEAN,
         NEW q \in BOOLEAN, NEW qo \in BOOLEAN, NEW d \in Dicts,
         NEW i \in Matrices, NEW o \in Matrices,
         f = <<[version |-> v], [sup |-> s, maxn |-> m], d, q, i, qo, o>>,
         c = <<s, m /\ ~(v = 11 /\ s), d, i, o>>,
         Agree(q, qo, d, i, o)
  PROVE  Holds(f, c)
BY Zenon DEF Holds

(* An object in use has arguments, a dictionary and matrices that agree.    *)
ObjectInv ==
  /\ state = "new" => quant = FALSE
  /\ state = "ready" /\ whole =>
       /\ args \in Args /\ dict \in Dicts /\ quant \in BOOLEAN
       /\ input \in Matrices /\ output \in Matrices
       /\ Agree(quant, args.qout, dict, input, output)

Inv ==
  /\ trainings \in Nat
  /\ ObjectInv
  /\ saved # <<>> => Holds(file, saved)
  /\ LoadsWhatWasSaved

LEMMA InvImplies == Inv => FileHolds
BY DEF Inv, ObjectInv, Agree, FileHolds, FlagsTellMatrices

(* A model that was released before was whole.                              *)
LEMMA ReleasedHolds ==
  ASSUME NEW f \in Released PROVE Holds(f, ReleasedContent(f))
<1>1. PICK v \in 11 .. 13, s \in BOOLEAN, d \in [of : {1}, pruned : BOOLEAN] :
        f = OldFields(v, s, d)
  BY DEF Released
<1>2. d \in Dicts /\ Dense(d) \in Matrices /\ Dense(OfLabels(d)) \in Matrices
  BY DEF Dicts, Matrices, Dense, OfLabels
<1>3. Agree(FALSE, FALSE, d, Dense(d), Dense(OfLabels(d)))
  BY DEF Agree, Dense, OfLabels
<1>4. ReleasedContent(f)
        = <<s, TRUE /\ ~(v = 11 /\ s), d, Dense(d), Dense(OfLabels(d))>>
  BY <1>1 DEF OldFields, ReleasedContent
<1>5. v \in Int
  OBVIOUS
<1> QED
  BY <1>1, <1>2, <1>3, <1>4, <1>5, HoldsIf DEF OldFields

LEMMA InitInv == Init => Inv
<1> SUFFICES ASSUME Init PROVE Inv
  OBVIOUS
<1>1. saved # <<>> => Holds(file, saved)
  BY ReleasedHolds DEF Init
<1> QED
  BY <1>1 DEF Init, Inv, ObjectInv, LoadsWhatWasSaved

(* Blank, train, quantize: none of them touches the file.                   *)
LEMMA TrainStep == Inv /\ Train => Inv'
<1> SUFFICES ASSUME Inv, Train PROVE Inv'
  OBVIOUS
<1>1. /\ loaded' = FALSE /\ UNCHANGED <<file, saved>> /\ trainings' \in Nat
  BY DEF Train, Inv
<1>2. ObjectInv'
  <2>1. CASE state' = "ready"
    <3>1. /\ dict' = [of |-> trainings', pruned |-> FALSE] /\ quant' = FALSE
          /\ input' = Dense(dict') /\ output' = Dense(dict') /\ args' \in Args
      BY <2>1 DEF Train, Reset, Args
    <3>2. dict' \in Dicts /\ dict'.of = trainings' /\ dict'.pruned = FALSE
      BY <3>1, <1>1 DEF Dicts
    <3>3. Dense(dict') \in Matrices
      BY <3>2 DEF Dense, Matrices, Dicts
    <3>4. /\ Dense(dict').kind = "dense" /\ Dense(dict').of = dict'.of
          /\ Dense(dict').pruned = dict'.pruned
      BY DEF Dense
    <3> QED
      BY <2>1, <3>1, <3>2, <3>3, <3>4 DEF ObjectInv, Agree
  <2>2. CASE state' # "ready"
    BY <2>2 DEF Train, ObjectInv
  <2> QED
    BY <2>1, <2>2
<1> QED
  BY <1>1, <1>2 DEF Inv, LoadsWhatWasSaved

LEMMA QuantizeStep == Inv /\ Quantize => Inv'
<1> SUFFICES ASSUME Inv, Quantize PROVE Inv'
  OBVIOUS
<1>1. loaded' = FALSE /\ UNCHANGED <<file, saved, whole, trainings>>
  BY DEF Quantize
<1>2. ObjectInv'
  <2>1. CASE state' = "ready" /\ whole
    <3>1. /\ args \in Args /\ dict \in Dicts /\ output \in Matrices /\ quant = FALSE
          /\ output.kind # "quant" /\ output.of = dict.of
      BY <2>1, <1>1 DEF Quantize, Inv, ObjectInv, Agree
    <3>2. PICK q \in BOOLEAN : args' = [args EXCEPT !.qout = q]
      BY DEF Quantize
    <3>3. args' \in Args /\ args'.qout = q
      BY <3>1, <3>2 DEF Args
    <3>4. dict' \in Dicts /\ dict'.of = dict.of
      BY <3>1 DEF Quantize, Dicts
    <3>5. /\ input' = Quant(dict') /\ quant' = TRUE
          /\ output' = IF q THEN Quant(OfLabels(dict')) ELSE output
      BY <2>1, <3>3 DEF Quantize
    <3>6. input' \in Matrices /\ input'.kind = "quant" /\ input'.of = dict'.of
          /\ input'.pruned = dict'.pruned
      BY <3>4, <3>5 DEF Quant, Matrices, Dicts
    <3>7. Quant(OfLabels(dict')) \in Matrices /\ Quant(OfLabels(dict')).kind = "quant"
          /\ Quant(OfLabels(dict')).of = dict'.of
      BY <3>4 DEF Quant, OfLabels, Matrices, Dicts
    <3> QED
      BY <2>1, <3>1, <3>3, <3>4, <3>5, <3>6, <3>7 DEF ObjectInv, Agree
  <2>2. CASE ~(state' = "ready" /\ whole)
    BY <2>2, <1>1 DEF Quantize, ObjectInv
  <2> QED
    BY <2>1, <2>2
<1> QED
  BY <1>1, <1>2 DEF Inv, LoadsWhatWasSaved

(* What is saved of a whole object is whole.                                *)
LEMMA SaveStep == Inv /\ Save => Inv'
<1> SUFFICES ASSUME Inv, Save PROVE Inv'
  OBVIOUS
<1>1. /\ state = "ready" /\ file' = Fields /\ saved' = IF whole THEN Content ELSE <<>>
      /\ loaded' = FALSE
      /\ UNCHANGED <<args, dict, input, output, quant, state, whole, trainings>>
  BY DEF Save
<1>2. ASSUME whole PROVE Holds(Fields, Content)
  <2>1. /\ args \in Args /\ dict \in Dicts /\ quant \in BOOLEAN
        /\ input \in Matrices /\ output \in Matrices
        /\ Agree(quant, args.qout, dict, input, output)
    BY <1>1, <1>2 DEF Inv, ObjectInv
  <2>2. args.sup \in BOOLEAN /\ args.maxn \in BOOLEAN /\ args.qout \in BOOLEAN
    BY <2>1 DEF Args
  <2>3. Content = <<args.sup, args.maxn /\ ~(12 = 11 /\ args.sup), dict, input, output>>
    BY <2>2 DEF Content
  <2>4. Fields = <<[version |-> 12], [sup |-> args.sup, maxn |-> args.maxn], dict, quant,
                   input, args.qout, output>>
    BY DEF Fields
  <2> HIDE DEF Fields, Content
  <2> QED
    BY <2>1, <2>2, <2>3, <2>4, HoldsIf
<1> QED
  BY <1>1, <1>2 DEF Inv, ObjectInv, LoadsWhatWasSaved

LEMMA CrashStep == Inv /\ Crash => Inv'
BY DEF Inv, ObjectInv, LoadsWhatWasSaved, Crash, Blank

(* A fresh object that reads a whole file has what the file was saved from. *)
LEMMA LoadStep ==
  ASSUME LoadsAgain = FALSE, Inv, Load
  PROVE  Inv'
<1>1. state = "new" /\ quant = FALSE /\ UNCHANGED <<file, saved, trainings>>
  BY DEF Load, Inv, ObjectInv
<1>2. whole' <=> saved # <<>>
  BY DEF Load
<1>3. ASSUME saved # <<>> PROVE ObjectInv' /\ LoadsWhatWasSaved'
  <2>1. Holds(file, saved)
    BY <1>3 DEF Inv
  <2>2. PICK v \in Int, s, m, q, qo \in BOOLEAN, d \in Dicts, i, o \in Matrices :
          /\ file = <<[version |-> v], [sup |-> s, maxn |-> m], d, q, i, qo, o>>
          /\ saved = <<s, m /\ ~(v = 11 /\ s), d, i, o>>
          /\ Agree(q, qo, d, i, o)
    BY <2>1 DEF Holds
  <2>3. /\ Len(file) = 7
        /\ file[1] = [version |-> v] /\ file[2] = [sup |-> s, maxn |-> m] /\ file[3] = d
        /\ file[4] = q /\ file[5] = i /\ file[6] = qo /\ file[7] = o
    BY <2>2
  <2>4. /\ file[1].version = v /\ file[2].sup = s /\ file[2].maxn = m
    BY <2>3
  <2>5. Flag(4) = {q} /\ Flag(6) = {qo}
    BY <2>3 DEF Flag
  <2>6. ReadAs(Kind(q), 5) = i
    BY <2>2, <2>3 DEF ReadAs, Kind, Agree, Matrices
  <2>7. ReadAs(Kind(OutputQuantized(q, qo)), 7) = o
    BY <2>2, <2>3 DEF ReadAs, Kind, Agree, Matrices, OutputQuantized
  <2>8. Maxn = (m /\ ~(v = 11 /\ s))
    BY <2>4 DEF Maxn
  <2>9. dict' = d /\ input' = i /\ quant' = q /\ state' \in {"ready", "broken"}
        /\ (loaded' => state' = "ready")
    BY <1>1, <2>3, <2>5, <2>6 DEF Load
  <2>10. CASE state' = "ready"
    <3>1. args' = [sup |-> s, maxn |-> Maxn, qout |-> qo] /\ output' = o
      BY <2>10, <1>1, <2>3, <2>4, <2>5, <2>7, <2>9 DEF Load
    <3>2. args'.sup = s /\ args'.maxn = Maxn /\ args'.qout = qo /\ Maxn \in BOOLEAN
          /\ args' \in Args
      BY <3>1, <2>8 DEF Args
    <3>3. Content' = saved
      BY <2>2, <2>8, <2>9, <3>1, <3>2 DEF Content
    <3> QED
      BY <2>2, <2>9, <2>10, <3>1, <3>2, <3>3, <1>1 DEF ObjectInv, LoadsWhatWasSaved
  <2>11. CASE state' = "broken"
    BY <2>9, <2>11 DEF ObjectInv, LoadsWhatWasSaved
  <2> QED
    BY <2>9, <2>10, <2>11
<1>4. ASSUME saved = <<>> PROVE ObjectInv' /\ LoadsWhatWasSaved'
  BY <1>2, <1>4 DEF Load, ObjectInv, LoadsWhatWasSaved
<1> QED
  BY <1>1, <1>3, <1>4 DEF Inv

LEMMA NextInv == LoadsAgain = FALSE /\ Inv /\ [Next]_vars => Inv'
<1> SUFFICES ASSUME LoadsAgain = FALSE, Inv, [Next]_vars PROVE Inv'
  OBVIOUS
<1>1. CASE Refuse \/ UNCHANGED vars
  BY <1>1 DEF Refuse, vars, Inv, ObjectInv, LoadsWhatWasSaved, Content
<1> QED
  BY <1>1, TrainStep, QuantizeStep, SaveStep, CrashStep, LoadStep DEF Next

(* However often a model was trained, quantized and saved before, whatever  *)
(* crashed in the midst of it: an object that is loaded from a whole file   *)
(* holds what was saved in it, and the flags of an object in use tell the   *)
(* kinds of its matrices, if no used object loads another file, which no    *)
(* caller in the repository does (fasttext.cc:65-92, 192-272).              *)
THEOREM FileRoundTrip ==
  ASSUME LoadsAgain = FALSE PROVE Spec => []FileHolds
<1>1. Inv /\ [Next]_vars => Inv'
  BY NextInv
<1> QED
  BY <1>1, InitInv, InvImplies, PTL DEF Spec

-----------------------------------------------------------------------------
(***************************************************************************)
(* AutotuneStrategy.                                                       *)
(***************************************************************************)
(* What may be tried, and be the best: what was set by hand is as it was,   *)
(* and there are buckets for n-grams.                                       *)
Good(a) ==
  /\ \A x \in manual : a[x] = original[x] \/ (x = "bucket" /\ a[x] = 0 /\ NoNgrams(a))
  /\ ~NoNgrams(a) => a.bucket > 0 \/ ("bucket" \in manual /\ original.bucket = 0)

AskInv ==
  /\ manual \subseteq Names
  /\ original.bucket \in Nat /\ originalBucket = original.bucket
  /\ Good(asked) /\ Good(bestArgs)

LEMMA AskInitInv == AskInit => AskInv
<1> SUFFICES ASSUME AskInit PROVE AskInv
  OBVIOUS
<1>1. manual \subseteq Names /\ original \in Given
  BY DEF AskInit
<1>2. original.bucket \in 0 .. MaxBucket
  BY <1>1 DEF Given
<1>3. original.bucket \in Nat
  BY <1>2, StrategyAssumption
<1>4. "bucket" \notin manual => original.bucket > 0
  BY StrategyAssumption DEF AskInit, Names, Default
<1>5. Good(original)
  BY <1>3, <1>4 DEF Good
<1> QED
  BY <1>1, <1>3, <1>5 DEF AskInit, AskInv

(* Each trial, whatever its random steps are.                               *)
LEMMA StepsGood ==
  ASSUME AskInv, NEW a \in Steps
  PROVE  Good(a)
<1>1. PICK e \in Epochs, w \in WordNgrams, d \in Dsubs, m \in Minns, b \in Buckets :
        a = WithBucket([epoch |-> e, wordNgrams |-> w, dsub |-> d, minn |-> m,
                        maxn |-> MaxnFor(m), bucket |-> b])
  BY DEF Steps
<1> DEFINE a0 == [epoch |-> e, wordNgrams |-> w, dsub |-> d, minn |-> m,
                  maxn |-> MaxnFor(m), bucket |-> b]
<1>2. /\ a.epoch = e /\ a.wordNgrams = w /\ a.dsub = d /\ a.minn = m
      /\ a.maxn = MaxnFor(m) /\ a.bucket = IF NoNgrams(a0) THEN 0 ELSE b
  BY <1>1 DEF WithBucket
<1>3. NoNgrams(a) <=> NoNgrams(a0)
  BY <1>2 DEF NoNgrams
<1> HIDE DEF a0
<1>4. a.bucket = IF NoNgrams(a) THEN 0 ELSE b
  BY <1>2, <1>3
<1>5. ASSUME NEW x \in manual, x # "bucket" PROVE a[x] = original[x]
  <2>1. bestArgs[x] = original[x]
    BY <1>5 DEF AskInv, Good
  <2>2. x \in {"epoch", "wordNgrams", "dsub", "minn", "maxn"}
    BY <1>5 DEF AskInv, Names
  <2>3. a[x] = bestArgs[x]
    BY <1>2, <2>2 DEF Epochs, WordNgrams, Dsubs, Minns, MaxnFor, Free
  <2> QED
    BY <2>1, <2>3
<1>6. IF "bucket" \in manual THEN b = original.bucket ELSE b > 0
  BY StrategyAssumption DEF Buckets, Free, AskInv
<1>7. original.bucket \in Nat
  BY DEF AskInv
<1> QED
  BY <1>4, <1>5, <1>6, <1>7 DEF Good

LEMMA AskStep == AskInv /\ [AskNext]_askVars => AskInv'
<1> SUFFICES ASSUME AskInv, [AskNext]_askVars PROVE AskInv'
  OBVIOUS
<1>1. UNCHANGED <<manual, original, originalBucket>>
  BY DEF AskNext, ask, updateBest, askVars
<1>2. Good(asked') /\ Good(bestArgs')
  <2>1. CASE ask
    BY <2>1, StepsGood DEF ask, AskInv
  <2>2. CASE updateBest
    BY <2>2 DEF updateBest, AskInv
  <2>3. CASE UNCHANGED askVars
    BY <2>3 DEF askVars, AskInv
  <2> QED
    BY <2>1, <2>2, <2>3 DEF AskNext
<1>4. Good(asked)' /\ Good(bestArgs)'
  BY <1>1, <1>2 DEF Good, NoNgrams
<1> QED
  BY <1>1, <1>4 DEF AskInv

LEMMA AskChosen == AskInv => BucketsWhenNeeded /\ ManualStays
BY DEF AskInv, Good, BucketsWhenNeeded, ManualStays

-----------------------------------------------------------------------------
(***************************************************************************)
(* ModelSize.                                                              *)
(***************************************************************************)
(* What an int keeps of a number.                                           *)
LEMMA Euclid ==
  ASSUME NEW n \in Int, NEW d \in Nat, d > 0
  PROVE  \E q, r \in Int : n = d * q + r /\ 0 <= r /\ r < d /\ n % d = r /\ n \div d = q
<1>1. n = d * (n \div d) + (n % d) /\ n % d \in 0 .. d - 1 /\ n \div d \in Int
  OBVIOUS
<1> QED
  BY <1>1

LEMMA IntKept ==
  ASSUME NEW n \in Int
  PROVE  /\ ToInt(n) \in -IntHalf .. IntHalf - 1
         /\ n \in -IntHalf .. IntHalf - 1 => ToInt(n) = n
         /\ n >= -IntHalf => ToInt(n) <= n
<1>1. PICK h \in Nat : h = IntHalf /\ h > 0
  BY ModelSizeAssumption
<1>2. PICK q, r \in Int : /\ n + h = (2 * h) * q + r /\ 0 <= r /\ r < 2 * h
                         /\ (n + h) % (2 * h) = r
  BY <1>1, Euclid
<1>3. ToInt(n) = r - h
  BY <1>1, <1>2 DEF ToInt
<1>4. n >= -h => q >= 0
  BY <1>1, <1>2
<1>5. n < h => q <= 0
  BY <1>1, <1>2
<1>6. q >= 0 => h * q >= 0
  BY <1>1
<1> QED
  BY <1>1, <1>2, <1>3, <1>4, <1>5, <1>6

(* Division towards zero keeps a number in the range of int.                *)
LEMMA OverInt ==
  ASSUME NEW n \in -IntHalf .. IntHalf - 1, NEW d \in Nat, d > 0
  PROVE  /\ ToInt(Over(n, d)) = Over(n, d) /\ Over(n, d) \in Int
         /\ n < 0 => Over(n, d) <= 0
         /\ n >= 0 => \E r \in Nat : n = d * Over(n, d) + r /\ r < d
<1>0. PICK h \in Nat : h = IntHalf /\ h > 0
  BY ModelSizeAssumption
<1>1. n \in Int /\ -h <= n /\ n < h
  BY <1>0
<1>2. CASE n >= 0
  <2>1. PICK q, r \in Int : n = d * q + r /\ 0 <= r /\ r < d /\ n \div d = q
    BY <1>1, Euclid
  <2>2. q >= 0 /\ q <= n
    <3>1. q < 0 => d * q <= -d
      BY <2>1
    <3>2. q >= 0 => d * q >= q
      BY <2>1
    <3> QED
      BY <1>2, <2>1, <3>1, <3>2
  <2>3. Over(n, d) = q
    BY <1>2, <2>1 DEF Over
  <2>4. q \in -IntHalf .. IntHalf - 1
    BY <1>0, <1>1, <2>1, <2>2
  <2>5. ToInt(q) = q
    BY <2>4, <2>1, IntKept
  <2>6. n = d * Over(n, d) + r /\ r \in Nat
    BY <2>1, <2>3
  <2>7. ToInt(Over(n, d)) = Over(n, d) /\ Over(n, d) \in Int
    BY <2>1, <2>3, <2>5
  <2> QED
    BY <1>1, <1>2, <2>1, <2>6, <2>7
<1>3. CASE n < 0
  <2>0. PICK m \in Nat : m = -n
    BY <1>1, <1>3
  <2>1. PICK q, r \in Int : m = d * q + r /\ 0 <= r /\ r < d /\ m \div d = q
    BY Euclid
  <2>2. q >= 0 /\ q <= m
    <3>1. q < 0 => d * q <= -d
      BY <2>1
    <3>2. q >= 0 => d * q >= q
      BY <2>1
    <3> QED
      BY <2>0, <2>1, <3>1, <3>2
  <2>3. Over(n, d) = -q
    BY <1>1, <1>3, <2>0, <2>1 DEF Over
  <2>4. -q \in -IntHalf .. IntHalf - 1 /\ -q \in Int
    BY <1>0, <1>1, <2>0, <2>1, <2>2
  <2>5. ToInt(-q) = -q
    BY <2>4, IntKept
  <2> QED
    BY <1>1, <1>3, <2>1, <2>2, <2>3, <2>4, <2>5
<1> QED
  BY <1>1, <1>2, <1>3

-----------------------------------------------------------------------------
SizeTypes ==
  /\ dim \in Nat /\ dsub \in Nat /\ dsub > 0 /\ modelsize \in Nat
  /\ nwords \in Nat /\ bucket \in Nat /\ nlabels \in Nat /\ length \in Nat
  /\ kept \in Nat /\ cutoff \in Int /\ pruned \in BOOLEAN

(* The words that are left are among the rows that are.                     *)
SizeInv ==
  /\ SizeTypes
  /\ pc \in {"trained", "cut", "quantized", "thrown", "refused"}
  /\ pc = "trained" => kept = nwords
  /\ pc = "refused" => getCutoffForFileSize = KSub
  /\ pc \in {"cut", "quantized"} => cutoff = getCutoffForFileSize /\ cutoff # KSub
  /\ pc = "quantized" => kept <= Smaller(cutoff, Rows)
  /\ pc = "cut" => kept = nwords

LEMMA SizeInitInv == SizeInit => SizeInv
<1> SUFFICES ASSUME SizeInit PROVE SizeInv
  OBVIOUS
<1>1. dim \in Nat /\ dsub \in Nat /\ dsub > 0 /\ modelsize \in Nat /\ length \in Nat
  BY ModelSizeAssumption DEF SizeInit
<1>2. nwords \in Nat /\ bucket \in Nat /\ nlabels \in Nat
  BY ModelSizeAssumption DEF SizeInit
<1>3. cutoff = 0 /\ pruned = FALSE /\ kept = nwords /\ pc = "trained"
  BY DEF SizeInit
<1>4. pruned \in BOOLEAN
  BY <1>3, Zenon
<1>5. cutoff \in Int /\ kept \in Nat
  BY <1>2, <1>3
<1>6. SizeTypes
  BY <1>1, <1>2, <1>4, <1>5 DEF SizeTypes
<1> QED
  BY <1>3, <1>6 DEF SizeInv

(* What the code reckons with.                                              *)
LEMMA Reckoned ==
  ASSUME SizeTypes
  PROVE  /\ RoundedUp(dim, dsub) \in Nat /\ RowSize = RoundedUp(dim, dsub) + 11
         /\ RoundedUp(dim, 2) \in Nat /\ KSub * dim \in Nat /\ 4 * KSub * dim = 4 * (KSub * dim)
         /\ OutModelSize \in Nat /\ LeftForRows \in Int
         /\ LeftForRows = modelsize - 107 - 4 * (KSub * dim) - OutModelSize
<1>0. PICK c \in Nat : c = KSub
  BY ModelSizeAssumption
<1>1. dim \in Nat /\ dsub \in Nat /\ dsub > 0 /\ nlabels \in Nat /\ modelsize \in Nat
  BY DEF SizeTypes
<1>2. ASSUME NEW b \in Nat, b > 0 PROVE RoundedUp(dim, b) \in Nat
  <2>1. PICK m \in Nat : m = dim + b - 1
    BY <1>1, <1>2
  <2>2. PICK q, r \in Int : m = b * q + r /\ 0 <= r /\ r < b /\ m \div b = q
    BY <1>2, Euclid
  <2>3. q < 0 => b * q <= -b
    BY <1>2, <2>2
  <2> QED
    BY <1>2, <2>1, <2>2, <2>3 DEF RoundedUp
<1>3. PICK r1, r2 \in Nat : r1 = RoundedUp(dim, dsub) /\ r2 = RoundedUp(dim, 2)
  BY <1>1, <1>2
<1>4. \A m, n \in Nat : m * n \in Nat /\ m + n \in Nat /\ 4 * m * n = 4 * (m * n)
  OBVIOUS
<1>5. PICK p1, p2, p3 \in Nat : p1 = c * dim /\ p2 = nlabels * r2 /\ p3 = 4 * nlabels * dim
  <2>1. 4 * nlabels * dim = 4 * (nlabels * dim) /\ nlabels * dim \in Nat
    BY <1>1, <1>4
  <2> QED
    BY <1>0, <1>1, <1>3, <1>4, <2>1
<1>6. 4 * dim * c = 4 * p1 /\ 4 * c * dim = 4 * p1
  BY <1>0, <1>1, <1>5
<1>7. OutModelSize = IF qout THEN 21 + p2 + (16 + 4 * p1) + nlabels ELSE 16 + p3
  BY <1>0, <1>3, <1>5, <1>6 DEF OutModelSize
<1>8. OutModelSize \in Nat
  BY <1>1, <1>7
<1>9. LeftForRows = modelsize - 107 - 4 * p1 - OutModelSize
  BY <1>0, <1>6 DEF LeftForRows
<1>10. RowSize = r1 + 11
  BY <1>3 DEF RowSize
<1> QED
  BY <1>0, <1>1, <1>3, <1>5, <1>6, <1>8, <1>9, <1>10

(* More rows than the limit: as many as fit by the estimate.                *)
LEMMA CutoffFits ==
  ASSUME SizeTypes
  PROVE  /\ getCutoffForFileSize \in Int /\ getCutoffForFileSize >= KSub
         /\ (getCutoffForFileSize # KSub /\ LeftForRows >= -IntHalf)
              => getCutoffForFileSize * RowSize <= LeftForRows
         /\ (getCutoffForFileSize = KSub /\ LeftForRows < IntHalf)
              => LeftForRows < (KSub + 1) * RowSize
<1>0. PICK c, h \in Nat : c = KSub /\ h = IntHalf /\ c > 0 /\ h > 0
  BY ModelSizeAssumption
<1>1. PICK s \in Nat : s = RowSize /\ s > 0
  BY Reckoned
<1>2. PICK l \in Int : l = LeftForRows
  BY Reckoned
<1>3. PICK t \in Int : /\ t = Target /\ t \in -IntHalf .. IntHalf - 1
                       /\ (l >= -h => t <= l) /\ (l >= -h /\ l < h => t = l)
  BY <1>0, <1>2, IntKept DEF Target
<1>4. PICK q \in Int : /\ q = Over(t, s) /\ ToInt(Over(t, s)) = q
                       /\ t < 0 => q <= 0
                       /\ t >= 0 => \E r \in Nat : t = s * q + r /\ r < s
  BY <1>1, <1>3, OverInt
<1>5. getCutoffForFileSize = IF q > c THEN q ELSE c
  BY <1>0, <1>1, <1>3, <1>4 DEF getCutoffForFileSize, Larger
<1>6. ASSUME q > c, l >= -h PROVE q * s <= l
  <2>1. t >= 0
    BY <1>0, <1>3, <1>4, <1>6
  <2>2. PICK r \in Nat : t = s * q + r /\ r < s
    BY <1>4, <2>1
  <2>3. s * q = q * s
    BY <1>1, <1>4
  <2> QED
    BY <1>1, <1>3, <1>6, <2>2, <2>3
<1>7. ASSUME q <= c, l < h PROVE l < (c + 1) * s
  <2>0. (c + 1) * s >= s
    BY <1>0, <1>1
  <2>1. CASE l < 0
    BY <1>1, <1>2, <2>0, <2>1
  <2>2. CASE l >= 0
    <3>1. t = l
      BY <1>0, <1>2, <1>3, <1>7, <2>2
    <3>2. PICK r \in Nat : t = s * q + r /\ r < s
      BY <1>4, <2>2, <3>1
    <3>3. s * q <= s * c
      BY <1>0, <1>1, <1>4, <1>7
    <3>4. (c + 1) * s = s * c + s
      BY <1>0, <1>1
    <3> QED
      BY <1>1, <1>2, <3>1, <3>2, <3>3, <3>4
  <2> QED
    BY <1>2, <2>1, <2>2
<1> QED
  BY <1>0, <1>1, <1>2, <1>4, <1>5, <1>6, <1>7

LEMMA SizeStep == SizeInv /\ [SizeNext]_sizeVars => SizeInv'
<1> SUFFICES ASSUME SizeInv, [SizeNext]_sizeVars PROVE SizeInv'
  OBVIOUS
<1>0. SizeTypes
  BY DEF SizeInv
<1>1. CASE Cut
  <2>1. getCutoffForFileSize' = getCutoffForFileSize
    BY <1>1 DEF Cut, getCutoffForFileSize, Target, LeftForRows, OutModelSize, qout, RowSize
  <2>2. SizeTypes'
    BY <1>0, <1>1, CutoffFits DEF Cut, SizeTypes
  <2>3. pc' \in {"refused", "cut"} /\ kept' = nwords'
    BY <1>1 DEF Cut, SizeInv
  <2>4. pc' = "refused" => getCutoffForFileSize = KSub
    BY <1>1 DEF Cut
  <2>5. pc' = "cut" => cutoff' = getCutoffForFileSize /\ cutoff' # KSub
    BY <1>1 DEF Cut
  <2> QED
    BY <2>1, <2>2, <2>3, <2>4, <2>5 DEF SizeInv
<1>2. CASE QuantizeRows
  <2>1. getCutoffForFileSize' = getCutoffForFileSize /\ Rows' = Rows
    BY <1>2 DEF QuantizeRows, getCutoffForFileSize, Target, LeftForRows, OutModelSize, qout,
                RowSize, Rows
  <2>2. /\ pc = "cut" /\ cutoff = getCutoffForFileSize /\ cutoff # KSub
        /\ cutoff' = cutoff /\ pc' \in {"thrown", "quantized"}
    BY <1>2 DEF QuantizeRows, SizeInv
  <2>3. nwords \in Nat /\ bucket \in Nat /\ cutoff \in Nat
    BY <1>0, <2>2, CutoffFits, ModelSizeAssumption DEF SizeTypes
  <2>4. kept' \in Nat /\ kept' <= Smaller(cutoff, Rows)
    BY <1>2, <2>3 DEF QuantizeRows, Larger, Smaller, Rows
  <2>5. SizeTypes'
    BY <1>0, <1>2, <2>4 DEF QuantizeRows, SizeTypes
  <2>6. Smaller(cutoff, Rows)' = Smaller(cutoff, Rows)
    BY <2>1, <2>2 DEF Smaller
  <2> QED
    BY <2>1, <2>2, <2>4, <2>5, <2>6 DEF SizeInv
<1>3. CASE UNCHANGED sizeVars
  BY <1>3 DEF sizeVars, SizeInv, SizeTypes, getCutoffForFileSize, Target, LeftForRows,
              OutModelSize, qout, RowSize, Rows, Smaller
<1> QED
  BY <1>1, <1>2, <1>3 DEF SizeNext

(* A word that is left takes ten bytes beside its name, an n-gram eight.    *)
LEMMA EntriesFit ==
  ASSUME NEW m \in Nat, NEW n \in Nat, NEW c \in Nat, NEW r \in Nat, NEW l \in Int,
         m <= n, n <= c, c * (r + 11) <= l
  PROVE  10 * m + 8 * (n - m) + n * r + n <= l /\ 10 * m + n * r + n <= l
<1>1. n * (r + 11) <= c * (r + 11)
  OBVIOUS
<1>2. n * (r + 11) = n * r + 11 * n
  OBVIOUS
<1> QED
  BY <1>1, <1>2

LEMMA FileFits ==
  ASSUME SizeInv, pc = "quantized", LeftForRows >= -IntHalf
  PROVE  FileSize <= modelsize + Uncounted
<1>0. PICK c \in Nat : c = KSub /\ c > 0
  BY ModelSizeAssumption
<1>1. /\ SizeTypes /\ cutoff = getCutoffForFileSize /\ cutoff # KSub
      /\ kept <= Smaller(cutoff, Rows)
  BY DEF SizeInv
<1>2. PICK r1, r2, out \in Nat :
        /\ r1 = RoundedUp(dim, dsub) /\ r2 = RoundedUp(dim, 2) /\ out = OutModelSize
        /\ RowSize = r1 + 11
  BY <1>1, Reckoned
<1>3. PICK d, nl, len, kp, sz \in Nat :
        d = dim /\ nl = nlabels /\ len = length /\ kp = kept /\ sz = modelsize
  BY <1>1 DEF SizeTypes
<1>4. PICK p1, p2, p3, p4, p5 \in Nat :
        p1 = c * d /\ p2 = nl * r2 /\ p3 = 4 * nl * d /\ p4 = kp * len /\ p5 = nl * len
  <2>1. \A m, n \in Nat : m * n \in Nat /\ 4 * m * n \in Nat
    OBVIOUS
  <2> QED
    BY <1>0, <1>2, <1>3, <2>1
<1>5. /\ 4 * d * c = 4 * p1 /\ 4 * 1 * c = 4 * c
      /\ (kp + nl) * (len + 10) = p4 + p5 + 10 * kp + 10 * nl
      /\ nl * (len + 10) = p5 + 10 * nl
  BY <1>0, <1>3, <1>4
<1>6. out = IF qout THEN 21 + p2 + (16 + 4 * p1) + nl ELSE 16 + p3
  BY <1>0, <1>2, <1>3, <1>4, <1>5 DEF OutModelSize
<1>7. PICK l \in Int : l = LeftForRows /\ l = sz - 107 - 4 * p1 - out
  BY <1>0, <1>1, <1>2, <1>3, <1>4, Reckoned
<1>8. PICK ct \in Nat : ct = cutoff /\ ct * (r1 + 11) <= l
  BY <1>0, <1>1, <1>2, <1>7, CutoffFits
<1>9. PICK n \in Nat : n = Smaller(cutoff, Rows) /\ kp <= n /\ n <= ct
  <2>1. Rows \in Nat
    BY <1>1 DEF Rows, SizeTypes
  <2> QED
    BY <1>1, <1>3, <1>8, <2>1 DEF Smaller
<1>10. PICK p6 \in Nat : p6 = n * r1
  BY <1>2, <1>9
<1>11. 10 * kp + 8 * (n - kp) + p6 + n <= l /\ 10 * kp + p6 + n <= l
  BY <1>2, <1>3, <1>7, <1>8, <1>9, <1>10, EntriesFit
<1>12. DictionarySize(n) = 28 + (p4 + p5 + 10 * kp + 10 * nl)
                           + IF pruned THEN 8 * (n - kp) ELSE 0
  BY <1>3, <1>5 DEF DictionarySize
<1>13. QuantMatrix(n, dim, dsub) = 21 + p6 + (16 + 4 * p1) + n + (16 + 4 * c)
  BY <1>0, <1>2, <1>3, <1>5, <1>10 DEF QuantMatrix, Quantizer
<1>14. QuantMatrix(nlabels, dim, 2) = 21 + p2 + (16 + 4 * p1) + nl + (16 + 4 * c)
  BY <1>0, <1>2, <1>3, <1>4, <1>5 DEF QuantMatrix, Quantizer
<1>15. DenseMatrix(nlabels, dim) = 16 + p3
  BY <1>3, <1>4 DEF DenseMatrix
<1>16. Uncounted = p4 + (p5 + 10 * nl) + (16 + 4 * c) * (IF qout THEN 2 ELSE 1) + 24
  BY <1>0, <1>3, <1>4, <1>5 DEF Uncounted, Quantizer
<1>17. FileSize = 8 + 56 + (28 + (p4 + p5 + 10 * kp + 10 * nl)
                            + IF pruned THEN 8 * (n - kp) ELSE 0)
                  + 1 + (21 + p6 + (16 + 4 * p1) + n + (16 + 4 * c))
                  + 1 + IF qout THEN 21 + p2 + (16 + 4 * p1) + nl + (16 + 4 * c)
                                ELSE 16 + p3
  BY <1>9, <1>12, <1>13, <1>14, <1>15 DEF FileSize
<1> HIDE DEF FileSize, Uncounted
<1>18. CASE pruned /\ qout
  BY <1>0, <1>3, <1>4, <1>6, <1>7, <1>9, <1>10, <1>11, <1>16, <1>17, <1>18
<1>19. CASE pruned /\ ~qout
  BY <1>0, <1>3, <1>4, <1>6, <1>7, <1>9, <1>10, <1>11, <1>16, <1>17, <1>19
<1>20. CASE ~pruned /\ qout
  BY <1>0, <1>3, <1>4, <1>6, <1>7, <1>9, <1>10, <1>11, <1>16, <1>17, <1>20
<1>21. CASE ~pruned /\ ~qout
  BY <1>0, <1>3, <1>4, <1>6, <1>7, <1>9, <1>10, <1>11, <1>16, <1>17, <1>21
<1> QED
  BY <1>18, <1>19, <1>20, <1>21

LEMMA RefusedRightly ==
  ASSUME SizeInv, pc = "refused", LeftForRows < IntHalf
  PROVE  107 + 4 * KSub * dim + OutModelSize + (KSub + 1) * RowSize > modelsize
<1>1. SizeTypes /\ getCutoffForFileSize = KSub
  BY DEF SizeInv
<1>2. PICK m, p, out, s \in Nat :
        /\ m = modelsize /\ p = 4 * KSub * dim /\ out = OutModelSize
        /\ s = (KSub + 1) * RowSize
  <2>1. \A a, b \in Nat : a * b \in Nat /\ a + b \in Nat
    OBVIOUS
  <2> QED
    BY <1>1, <2>1, Reckoned, ModelSizeAssumption DEF SizeTypes
<1>3. LeftForRows = m - 107 - p - out /\ LeftForRows < s
  BY <1>1, <1>2, CutoffFits DEF LeftForRows
<1> QED
  BY <1>2, <1>3

LEMMA SizeChosen == SizeInv => SizeKeptButForNames /\ RefusedOnlyIfTooSmall
BY FileFits, RefusedRightly DEF SizeKeptButForNames, RefusedOnlyIfTooSmall

(* Whatever was set by hand and however the random steps fall, autotune     *)
(* leaves it, and gives hashed n-grams buckets; with any centroids, range   *)
(* of int, matrices and size, what its cutoff keeps fits the file but for   *)
(* its names, or the size was too small (autotune.cc:173-182, 199-206,      *)
(* 321-342, 375-379, 433).                                                  *)
THEOREM ChoosesAsAsked == AskSpec /\ SizeSpec => []ChosenAsAsked
<1>1. AskInv /\ SizeInv => ChosenAsAsked
  BY AskChosen, SizeChosen DEF ChosenAsAsked
<1>2. AskSpec => []AskInv
  BY AskInitInv, AskStep, PTL DEF AskSpec
<1>3. SizeSpec => []SizeInv
  BY SizeInitInv, SizeStep, PTL DEF SizeSpec
<1> QED
  BY <1>1, <1>2, <1>3, PTL

-----------------------------------------------------------------------------
(***************************************************************************)
(* KBest.                                                                  *)
(***************************************************************************)
(* A pair that is left out because the heap is full of better ones.         *)
LEMMA LeavingOutKeepsBest ==
  ASSUME NEW h, NEW kk \in Nat, NEW ps, IsFiniteSet(ps), NEW x, x \notin ps,
         \A p \in ps \cup {x} : p[1] \in Int,
         BestOf(h, kk, ps), TooLow(h, kk, x[1])
  PROVE  BestOf(h, kk, ps \cup {x})
<1>1. PICK f \in Fronts(h) : x[1] < f[1] /\ f \in h /\ \A p \in h : f[1] <= p[1]
  BY DEF TooLow, Fronts
<1>2. Cardinality(ps) \in Nat /\ Cardinality(ps \cup {x}) = Cardinality(ps) + 1
  BY FS_CardinalityType, FS_AddElement
<1>3. Cardinality(h) = kk /\ h \subseteq ps
  BY DEF TooLow, BestOf
<1>4. Cardinality(h) = IF Cardinality(ps \cup {x}) < kk THEN Cardinality(ps \cup {x}) ELSE kk
  BY <1>2, <1>3 DEF BestOf
<1>5. ASSUME NEW p \in h, NEW q \in (ps \cup {x}) \ h PROVE p[1] >= q[1]
  <2>1. p[1] \in Int /\ f[1] \in Int /\ x[1] \in Int
    BY <1>1, <1>3
  <2>2. CASE q = x
    BY <1>1, <2>1, <2>2
  <2>3. CASE q \in ps \ h
    BY <2>3 DEF BestOf
  <2> QED
    BY <2>2, <2>3
<1> QED
  BY <1>3, <1>4, <1>5 DEF BestOf

(* A pair that is pushed, and one of the least that is popped.              *)
LEMMA PushingKeepsBest ==
  ASSUME NEW h, NEW kk \in Nat, NEW ps, IsFiniteSet(ps), NEW x, x \notin ps,
         \A p \in ps \cup {x} : p[1] \in Int,
         BestOf(h, kk, ps), NEW new \in Pushed(h, kk, x)
  PROVE  BestOf(new, kk, ps \cup {x})
<1> DEFINE hx == h \cup {x}
           px == ps \cup {x}
<1>1. h \subseteq ps /\ x \notin h /\ IsFiniteSet(h)
  BY FS_Subset DEF BestOf
<1>2. PICK ch, cp \in Nat : ch = Cardinality(h) /\ cp = Cardinality(ps)
  BY <1>1, FS_CardinalityType
<1>3. /\ IsFiniteSet(hx) /\ Cardinality(hx) = ch + 1
      /\ IsFiniteSet(px) /\ Cardinality(px) = cp + 1
  BY <1>1, <1>2, FS_AddElement
<1>4. ch = IF cp < kk THEN cp ELSE kk
  BY <1>2 DEF BestOf
<1>5. new \in IF ch + 1 > kk THEN {hx \ {p} : p \in Fronts(hx)} ELSE {hx}
  BY <1>3 DEF Pushed
<1>6. \A p \in h, q \in ps \ h : p[1] >= q[1]
  BY DEF BestOf
<1> HIDE DEF hx, px
<1>7. CASE ch + 1 <= kk
  <2>1. new = hx /\ ch = cp
    BY <1>2, <1>4, <1>5, <1>7
  <2>2. h = ps
    BY <1>1, <1>2, <2>1, FS_Subset
  <2>3. new = px
    BY <2>1, <2>2 DEF hx, px
  <2>4. Cardinality(new) = IF cp + 1 < kk THEN cp + 1 ELSE kk
    BY <1>2, <1>3, <1>7, <2>1
  <2> QED
    BY <1>3, <2>3, <2>4 DEF BestOf, px
<1>8. CASE ch + 1 > kk
  <2>1. PICK f \in hx : new = hx \ {f} /\ \A p \in hx : f[1] <= p[1]
    BY <1>2, <1>5, <1>8 DEF Fronts
  <2>2. Cardinality(new) = ch /\ ch = kk /\ kk <= cp
    <3>1. Cardinality(hx \ {f}) = Cardinality(hx) - 1
      BY <1>3, <2>1, FS_RemoveElement
    <3> QED
      BY <1>2, <1>3, <1>4, <1>8, <2>1, <3>1
  <2>3. ASSUME NEW p \in new, NEW q \in px \ new PROVE p[1] >= q[1]
    <3>1. p \in hx /\ f[1] <= p[1] /\ p[1] \in Int /\ f[1] \in Int /\ q[1] \in Int
      BY <1>1, <2>1 DEF hx, px
    <3>2. CASE q = f
      BY <3>1, <3>2
    <3>3. CASE q # f
      <4>1. q \in ps \ h
        BY <2>1, <3>3 DEF hx, px
      <4>2. CASE p \in h
        BY <1>6, <4>1, <4>2
      <4>3. CASE p = x
        <5>1. f \in h
          BY <2>1, <4>3 DEF hx
        <5>2. f[1] >= q[1]
          BY <1>6, <4>1, <5>1
        <5> QED
          BY <3>1, <5>2
      <4> QED
        BY <3>1, <4>2, <4>3 DEF hx
    <3> QED
      BY <3>2, <3>3
  <2>4. new \subseteq px
    BY <1>1, <2>1 DEF hx, px
  <2>5. Cardinality(new) = IF cp + 1 < kk THEN cp + 1 ELSE kk
    BY <1>2, <2>2
  <2> QED
    BY <1>3, <2>3, <2>4, <2>5 DEF BestOf, px
<1> QED
  BY <1>2, <1>7, <1>8

-----------------------------------------------------------------------------
BestInv ==
  /\ scores \in Seq(Nat) /\ k \in Nat /\ item \in Nat \ {0}
  /\ IsFiniteSet(Asked(item - 1))
  /\ HoldsBest

LEMMA BestInitInv == BestInit => BestInv
<1> SUFFICES ASSUME BestInit PROVE BestInv
  OBVIOUS
<1>1. PICK n \in 0 .. MaxItems : scores \in [1 .. n -> 0 .. MaxScore]
  BY DEF BestInit
<1>2. scores \in Seq(Nat)
  BY <1>1, KBestAssumption
<1>3. k \in Nat /\ item = 1 /\ heap = {}
  BY KBestAssumption DEF BestInit
<1>4. Asked(item - 1) = {}
  BY <1>3 DEF Asked
<1>5. BestOf({}, k, {})
  BY <1>3, FS_EmptySet DEF BestOf
<1>6. IsFiniteSet(Asked(item - 1)) /\ HoldsBest
  BY <1>3, <1>4, <1>5, FS_EmptySet DEF HoldsBest
<1> QED
  BY <1>2, <1>3, <1>6 DEF BestInv

(* One more item was seen.                                                  *)
LEMMA AskedGrows ==
  ASSUME NEW n \in Nat \ {0}
  PROVE  /\ Excluded(n) => Asked(n) = Asked(n - 1)
         /\ ~Excluded(n) => Asked(n) = Asked(n - 1) \cup {<<scores[n], n>>}
         /\ <<scores[n], n>> \notin Asked(n - 1)
<1>1. 1 .. n = (1 .. n - 1) \cup {n} /\ n \notin 1 .. n - 1
  OBVIOUS
<1>2. \A j : <<scores[j], j>> = <<scores[n], n>> => j = n
  OBVIOUS
<1> HIDE DEF Excluded
<1> QED
  BY <1>1, <1>2 DEF Asked

LEMMA BestStep == BestInv /\ [BestNext]_bestVars => BestInv'
<1> SUFFICES ASSUME BestInv, [BestNext]_bestVars PROVE BestInv'
  OBVIOUS
<1>1. CASE UNCHANGED bestVars
  BY <1>1 DEF bestVars, BestInv, HoldsBest, Asked, Excluded
<1>2. CASE BestNext
  <2>1. /\ UNCHANGED <<caller, scores, k, threshold, banSet>>
        /\ item <= Len(scores) /\ item' = item + 1
    BY <1>2 DEF BestNext, Skip, Push
  <2>2. item \in Nat \ {0} /\ scores \in Seq(Nat) /\ k \in Nat
        /\ IsFiniteSet(Asked(item - 1)) /\ BestOf(heap, k, Asked(item - 1))
    BY DEF BestInv, HoldsBest
  <2> DEFINE x == <<scores[item], item>>
             ps == Asked(item - 1)
  <2>3. (Asked(item - 1))' = Asked(item)
    <3>1. item' - 1 = item
      BY <2>1, <2>2
    <3> QED
      BY <2>1, <3>1 DEF Asked, Excluded
  <2>4. \A p \in ps \cup {x} : p[1] \in Int
    <3>1. \A j \in 1 .. item : scores[j] \in Int
      BY <2>1, <2>2
    <3> QED
      BY <2>2, <3>1 DEF Asked
  <2>5. x \notin ps /\ IsFiniteSet(ps \cup {x})
    BY <2>2, AskedGrows, FS_AddElement
  <2>6. x[1] = scores[item]
    OBVIOUS
  <2>7. BestOf(heap', k, Asked(item)) /\ IsFiniteSet(Asked(item))
    <3>1. CASE Excluded(item)
      <4>1. heap' = heap
        BY <1>2, <3>1 DEF BestNext, Skip, Push
      <4> QED
        BY <2>2, <3>1, <4>1, AskedGrows
    <3>2. CASE ~Excluded(item) /\ TooLow(heap, k, scores[item])
      <4>1. heap' = heap
        BY <1>2, <3>2 DEF BestNext, Skip, Push
      <4>2. Asked(item) = ps \cup {x}
        BY <2>2, <3>2, AskedGrows
      <4>3. BestOf(heap, k, ps \cup {x})
        BY <2>2, <2>4, <2>5, <2>6, <3>2, LeavingOutKeepsBest
      <4> QED
        BY <2>5, <4>1, <4>2, <4>3
    <3>3. CASE ~Excluded(item) /\ ~TooLow(heap, k, scores[item])
      <4>1. heap' \in Pushed(heap, k, x)
        BY <1>2, <3>3 DEF BestNext, Skip, Push
      <4>2. Asked(item) = ps \cup {x}
        BY <2>2, <3>3, AskedGrows
      <4>3. BestOf(heap', k, ps \cup {x})
        BY <2>2, <2>4, <2>5, <4>1, PushingKeepsBest
      <4> QED
        BY <2>5, <4>2, <4>3
    <3> QED
      BY <3>1, <3>2, <3>3
  <2> HIDE DEF x, ps
  <2>8. HoldsBest'
    BY <2>1, <2>3, <2>7 DEF HoldsBest, BestOf
  <2>9. scores' \in Seq(Nat) /\ k' \in Nat /\ item' \in Nat \ {0}
    BY <2>1, <2>2
  <2> QED
    BY <2>3, <2>7, <2>8, <2>9 DEF BestInv
<1> QED
  BY <1>1, <1>2

(* For any number of items, scores, k, threshold and banned words, at each  *)
(* turn of the scan the heap holds the k best of what it was asked for so   *)
(* far, ties and too few items included (loss.cc:79-92; fasttext.cc:585-601). *)
THEOREM KeepsHighest == BestSpec => []HoldsBest
<1>1. BestInv => HoldsBest
  BY DEF BestInv
<1> QED
  BY <1>1, BestInitInv, BestStep, PTL DEF BestSpec

-----------------------------------------------------------------------------
(***************************************************************************)
(* Subwords.                                                               *)
(***************************************************************************)
(* A set of numbers has a least.                                            *)
LEMMA LeastNumber ==
  ASSUME NEW S \in SUBSET Nat, S # {}
  PROVE  \E x \in S : \A y \in S : x <= y
<1>1. PICK x \in S : \A y \in S : ~(<<y, x>> \in OpToRel(<, Nat))
  BY NatLessThanWellFounded, WFMin
<1>2. \A y \in S : ~(y < x)
  BY <1>1 DEF OpToRel
<1> QED
  BY <1>2

(* The end of a character: a first byte or the end of the word, and none    *)
(* between.                                                                 *)
LEMMA CharEndIs ==
  ASSUME NEW p \in Nat, Size \in Nat, p < Size
  PROVE  /\ CharEnd(p) \in p + 1 .. Size
         /\ CharEnd(p) \in Firsts \cup {Size}
         /\ \A q \in Firsts : ~(p < q /\ q < CharEnd(p))
<1>0. PICK z \in Nat : z = Size
  OBVIOUS
<1> DEFINE S == {q \in p + 1 .. z : q = z \/ ~Continues(q)}
<1>1. PICK e \in S : \A q \in S : e <= q
  <2>1. S \in SUBSET Nat /\ z \in S
    BY <1>0
  <2> HIDE DEF S
  <2> QED
    BY <2>1, LeastNumber
<1>2. \A r \in p + 1 .. e - 1 : Continues(r)
  BY <1>0, <1>1
<1>3. /\ CharEnd(p) \in p + 1 .. Size
      /\ CharEnd(p) = Size \/ ~Continues(CharEnd(p))
      /\ \A r \in p + 1 .. CharEnd(p) - 1 : Continues(r)
  <2> HIDE DEF Continues
  <2> QED
    BY <1>0, <1>1, <1>2 DEF CharEnd
<1> HIDE DEF Continues, CharEnd
<1> QED
  BY <1>0, <1>3 DEF Firsts

(* What is done, when no n-gram is begun: those that start before a place;  *)
(* and what else is done of those that start at it.                         *)
Passed(a, b) == {g \in NgramsOfText : g[1] < a \/ (g[1] = a /\ g[2] <= b)}

WordTypes ==
  /\ Size \in Nat /\ minn \in Nat /\ maxn \in Nat
  /\ substrings \in Seq(Nat \X Nat) /\ from \in 0 .. Size

WordAlone == IF known THEN {Whole} ELSE {}

WordInv ==
  /\ WordTypes
  /\ stage \in {"start", "from", "more", "done"}
  /\ stage = "start" => from = 0
  /\ stage # "start" =>
       /\ IsInjective(substrings)
       /\ pruneSize = -1 => ngrams = substrings
  /\ stage = "from" => Range(substrings) = WordAlone \cup Passed(from, 0)
  /\ stage = "more" =>
       /\ from \in Firsts /\ upto \in Firsts \cup {Size} /\ from <= upto
       /\ count = Cardinality(Between(from, upto)) + 1
       /\ Range(substrings) = WordAlone \cup Passed(from, upto)
  /\ stage = "done" => from = Size /\ Range(substrings) = WordAlone \cup Passed(from, 0)

(* Where n-grams are: at first bytes, not empty.                            *)
LEMMA NgramsAt ==
  ASSUME Size \in Nat, NEW g \in NgramsOfText
  PROVE  /\ g = <<g[1], g[2]>> /\ g[1] \in Nat /\ g[2] \in Nat /\ g[1] < g[2]
         /\ g[1] \in Firsts /\ g[2] \in Firsts \cup {Size} /\ g[1] < Size
BY DEF NgramsOfText, Firsts

LEMMA BetweenFinite ==
  ASSUME Size \in Nat, NEW a, NEW b
  PROVE  IsFiniteSet(Between(a, b)) /\ Cardinality(Between(a, b)) \in Nat
<1>1. IsFiniteSet(0 .. Size - 1)
  BY FS_Interval
<1>2. Between(a, b) \subseteq 0 .. Size - 1
  BY DEF Between, Firsts
<1> QED
  BY <1>1, <1>2, FS_Subset, FS_CardinalityType

(* One character more.                                                      *)
LEMMA BetweenGrows ==
  ASSUME Size \in Nat, NEW a \in Firsts, NEW b \in Firsts, NEW e \in Firsts \cup {Size},
         a <= b, b < e, \A q \in Firsts : ~(b < q /\ q < e)
  PROVE  Cardinality(Between(a, e)) = Cardinality(Between(a, b)) + 1
<1>1. a \in Nat /\ b \in Nat /\ e \in Nat /\ \A q \in Firsts : q \in Nat
  BY DEF Firsts
<1>2. \A x, y, q : q \in Between(x, y) <=> q \in Firsts /\ x <= q /\ q < y
  BY DEF Between
<1>3. \A q \in Firsts : a <= q /\ q < e <=> (a <= q /\ q < b) \/ q = b
  BY <1>1
<1>4. Between(a, e) = Between(a, b) \cup {b} /\ b \notin Between(a, b)
  <2>1. b \notin Between(a, b)
    BY <1>1, <1>2
  <2>2. \A q : q \in Between(a, e) <=> q \in Between(a, b) \/ q = b
    BY <1>2, <1>3
  <2> QED
    BY <2>1, <2>2
<1> QED
  BY <1>4, BetweenFinite, FS_AddElement

-----------------------------------------------------------------------------
LEMMA WordInitInv == WordInit => WordInv
<1> SUFFICES ASSUME WordInit PROVE WordInv
  OBVIOUS
<1>1. PICK m \in 0 .. MaxBytes :
        \E w \in [1 .. m -> BOOLEAN] : word = <<FALSE>> \o w \o <<FALSE>>
  BY DEF WordInit
<1> PICK w \in [1 .. m -> BOOLEAN] : word = <<FALSE>> \o w \o <<FALSE>>
  BY <1>1
<1>2. w \in Seq(BOOLEAN) /\ Len(word) \in Nat
  <2>1. m \in Nat
    BY SubwordsAssumption
  <2>2. w \in Seq(BOOLEAN) /\ <<FALSE>> \in Seq(BOOLEAN)
    BY <2>1
  <2>3. word \in Seq(BOOLEAN)
    BY <2>2
  <2> QED
    BY <2>2, <2>3
<1>3. minn \in Nat /\ maxn \in Nat
  BY SubwordsAssumption DEF WordInit
<1> QED
  BY <1>2, <1>3 DEF WordInit, WordInv, WordTypes, Size

(* What the steps leave alone.                                              *)
LEMMA WordKept ==
  ASSUME UNCHANGED <<word, minn, maxn, known>>
  PROVE  /\ Size' = Size /\ Firsts' = Firsts /\ WordAlone' = WordAlone
         /\ \A a, b : Between(a, b)' = Between(a, b) /\ Passed(a, b)' = Passed(a, b)
<1>1. Size' = Size /\ Firsts' = Firsts /\ WordAlone' = WordAlone
  BY DEF Size, Firsts, Continues, WordAlone
<1>2. \A a, b : Between(a, b)' = Between(a, b)
  BY <1>1 DEF Between
<1>3. NgramsOfText' = NgramsOfText
  BY <1>1, <1>2 DEF NgramsOfText
<1> QED
  BY <1>1, <1>2, <1>3 DEF Passed

(* A place at which no n-gram starts, and one whose n-grams are done.       *)
LEMMA PassedOn ==
  ASSUME Size \in Nat, NEW a \in Nat, NEW b,
         \A g \in NgramsOfText : g[1] = a => g[2] <= b
  PROVE  Passed(a + 1, 0) = Passed(a, b)
<1>1. \A g \in NgramsOfText : g[1] \in Nat /\ g[2] \in Nat /\ g[1] < g[2]
  BY NgramsAt
<1> HIDE DEF NgramsOfText
<1> QED
  BY <1>1 DEF Passed

(* Nothing that starts at a place ends before it.                           *)
LEMMA PassedNone ==
  ASSUME Size \in Nat, NEW a \in Nat
  PROVE  Passed(a, a) = Passed(a, 0)
<1>1. \A g \in NgramsOfText : g[1] \in Nat /\ g[2] \in Nat /\ g[1] < g[2]
  BY NgramsAt
<1> HIDE DEF NgramsOfText
<1> QED
  BY <1>1 DEF Passed

LEMMA FromStep == WordInv /\ From => WordInv'
<1> SUFFICES ASSUME WordInv, From PROVE WordInv'
  OBVIOUS
<1>1. WordTypes /\ stage = "from" /\ from < Size
  BY DEF WordInv, From
<1>2. /\ UNCHANGED <<word, minn, maxn, known, pruneSize, ngrams, substrings>>
  BY DEF From
<1>3. /\ Size' = Size /\ Firsts' = Firsts /\ WordAlone' = WordAlone
      /\ \A a, b : Between(a, b)' = Between(a, b) /\ Passed(a, b)' = Passed(a, b)
  BY <1>2, WordKept
<1>4. /\ Range(substrings) = WordAlone \cup Passed(from, 0)
      /\ IsInjective(substrings) /\ (pruneSize = -1 => ngrams = substrings)
  BY <1>1 DEF WordInv
<1>5. Range(substrings') = WordAlone' \cup Passed(from, 0) /\ IsInjective(substrings')
      /\ (pruneSize' = -1 => ngrams' = substrings')
  BY <1>2, <1>3, <1>4
<1>6. CASE Continues(from)
  <2>1. from' = from + 1 /\ stage' = "from"
    BY <1>1, <1>6 DEF From
  <2>2. Passed(from + 1, 0) = Passed(from, 0)
    <3>1. from \notin Firsts
      BY <1>6 DEF Firsts
    <3>2. \A g \in NgramsOfText : g[1] # from
      BY <1>1, <3>1, NgramsAt DEF WordTypes
    <3> QED
      BY <1>1, <3>2, PassedOn DEF WordTypes
  <2>3. WordTypes'
    BY <1>1, <1>2, <1>3, <2>1 DEF WordTypes
  <2>4. (Range(substrings) = WordAlone \cup Passed(from, 0))'
    BY <1>3, <1>5, <2>1, <2>2
  <2> QED
    BY <1>5, <2>1, <2>3, <2>4 DEF WordInv
<1>7. CASE ~Continues(from)
  <2>1. from' = from /\ upto' = from /\ count' = 1 /\ stage' = "more"
    BY <1>1, <1>7 DEF From
  <2>2. from \in Firsts /\ from \in Nat
    BY <1>1, <1>7 DEF Firsts, WordTypes
  <2>3. Between(from, from) = {}
    <3>1. \A q \in Firsts : ~(from <= q /\ q < from)
      BY <2>2 DEF Firsts
    <3> QED
      BY <3>1 DEF Between
  <2>4. Cardinality(Between(from, from)) + 1 = 1
    BY <2>3, FS_EmptySet
  <2>5. Passed(from, from) = Passed(from, 0)
    BY <1>1, <2>2, PassedNone DEF WordTypes
  <2>6. WordTypes'
    BY <1>1, <1>2, <1>3, <2>1 DEF WordTypes
  <2>7. /\ (Range(substrings) = WordAlone \cup Passed(from, upto))'
        /\ (count = Cardinality(Between(from, upto)) + 1)'
        /\ from' \in Firsts' /\ upto' \in Firsts' \cup {Size'} /\ from' <= upto'
    BY <1>3, <1>5, <2>1, <2>2, <2>4, <2>5
  <2> QED
    BY <1>5, <2>1, <2>6, <2>7 DEF WordInv
<1> QED
  BY <1>6, <1>7

(* A pair that is new, at the end.                                          *)
LEMMA AppendNew ==
  ASSUME NEW s \in Seq(Nat \X Nat), NEW g \in Nat \X Nat, g \notin Range(s), IsInjective(s)
  PROVE  /\ Append(s, g) \in Seq(Nat \X Nat) /\ IsInjective(Append(s, g))
         /\ Range(Append(s, g)) = Range(s) \cup {g}
<1>1. PICK z \in Nat : z = Len(s) /\ DOMAIN s = 1 .. z
  OBVIOUS
<1>2. /\ Append(s, g) \in Seq(Nat \X Nat) /\ DOMAIN Append(s, g) = 1 .. z + 1
      /\ \A x \in 1 .. z : Append(s, g)[x] = s[x] /\ s[x] # g
      /\ Append(s, g)[z + 1] = g
  BY <1>1 DEF Range
<1>3. ASSUME NEW x \in 1 .. z + 1, NEW y \in 1 .. z + 1, Append(s, g)[x] = Append(s, g)[y]
      PROVE  x = y
  <2>1. /\ x \in 1 .. z \/ x = z + 1
        /\ y \in 1 .. z \/ y = z + 1
    OBVIOUS
  <2>2. CASE x \in 1 .. z /\ y \in 1 .. z
    <3>1. s[x] = s[y]
      BY <1>2, <1>3, <2>2
    <3> QED
      BY <1>1, <2>2, <3>1 DEF IsInjective
  <2>3. CASE x \in 1 .. z /\ y = z + 1
    <3>1. Append(s, g)[x] # g /\ Append(s, g)[y] = g
      BY <1>2, <2>3
    <3> QED
      BY <1>3, <3>1
  <2>4. CASE x = z + 1 /\ y \in 1 .. z
    <3>1. Append(s, g)[y] # g /\ Append(s, g)[x] = g
      BY <1>2, <2>4
    <3> QED
      BY <1>3, <3>1
  <2> QED
    BY <2>1, <2>2, <2>3, <2>4
<1>4. Range(Append(s, g)) = Range(s) \cup {g}
  <2>1. \A q : q \in Range(s) <=> \E x \in 1 .. z : s[x] = q
    BY <1>1 DEF Range
  <2>2. \A q : q \in Range(Append(s, g)) <=> \E x \in 1 .. z + 1 : Append(s, g)[x] = q
    BY <1>2 DEF Range
  <2>3. \A x : x \in 1 .. z + 1 <=> x \in 1 .. z \/ x = z + 1
    OBVIOUS
  <2>4. \A q : q \in Range(Append(s, g)) <=> q \in Range(s) \/ q = g
    <3>1. ASSUME NEW q \in Range(Append(s, g)) PROVE q \in Range(s) \/ q = g
      <4>1. PICK x \in 1 .. z + 1 : Append(s, g)[x] = q
        BY <2>2
      <4>2. CASE x \in 1 .. z
        BY <1>2, <2>1, <4>1, <4>2
      <4>3. CASE x = z + 1
        BY <1>2, <4>1, <4>3
      <4> QED
        BY <2>3, <4>2, <4>3
    <3>2. ASSUME NEW q \in Range(s) PROVE q \in Range(Append(s, g))
      <4>1. PICK x \in 1 .. z : s[x] = q
        BY <2>1
      <4>2. x \in 1 .. z + 1 /\ Append(s, g)[x] = q
        BY <1>2, <4>1
      <4> QED
        BY <2>2, <4>2
    <3>3. g \in Range(Append(s, g))
      <4>1. z + 1 \in 1 .. z + 1
        OBVIOUS
      <4> QED
        BY <1>2, <2>2, <4>1
    <3> QED
      BY <3>1, <3>2, <3>3
  <2> QED
    BY <2>4
<1> QED
  BY <1>2, <1>3, <1>4 DEF IsInjective

LEMMA MoreStep == WordInv /\ More => WordInv'
<1> SUFFICES ASSUME WordInv, More PROVE WordInv'
  OBVIOUS
<1>1. /\ WordTypes /\ stage = "more" /\ upto < Size /\ count <= maxn
      /\ from \in Firsts /\ upto \in Firsts \cup {Size} /\ from <= upto
      /\ count = Cardinality(Between(from, upto)) + 1
      /\ Range(substrings) = WordAlone \cup Passed(from, upto)
      /\ IsInjective(substrings) /\ (pruneSize = -1 => ngrams = substrings)
  BY DEF WordInv, More
<1>2. /\ UNCHANGED <<word, minn, maxn, known, pruneSize, from, stage>>
      /\ upto' = CharEnd(upto) /\ count' = count + 1
  BY DEF More
<1>3. /\ Size' = Size /\ Firsts' = Firsts /\ WordAlone' = WordAlone
      /\ \A a, b : Between(a, b)' = Between(a, b) /\ Passed(a, b)' = Passed(a, b)
  BY <1>2, WordKept
<1>4. PICK z, f, u \in Nat : z = Size /\ f = from /\ u = upto /\ f <= u /\ u < z
  BY <1>1 DEF WordTypes, Firsts
<1>5. PICK e \in Nat : /\ e = CharEnd(upto) /\ u < e /\ e <= z /\ e \in Firsts \cup {Size}
                       /\ \A q \in Firsts : ~(u < q /\ q < e)
  BY <1>1, <1>4, CharEndIs
<1>6. f \in Firsts /\ u \in Firsts
  BY <1>1, <1>4
<1>7. PICK c \in Nat : c = Cardinality(Between(f, u)) /\ c + 1 = count
  BY <1>1, <1>4, BetweenFinite
<1>8. Cardinality(Between(f, e)) = count
  BY <1>4, <1>5, <1>6, <1>7, BetweenGrows
<1>9. <<f, e>> \in NgramsOfText <=> Wanted(count, e)
  <2>1. <<f, e>>[1] = f /\ <<f, e>>[2] = e /\ <<f, e>> \in Firsts \X (Firsts \cup {Size})
    BY <1>5, <1>6
  <2>2. f < e /\ count <= maxn
    BY <1>1, <1>4, <1>5
  <2>3. minn <= count <=> count >= minn
    BY <1>1, <1>7 DEF WordTypes
  <2> QED
    BY <1>4, <1>8, <2>1, <2>2, <2>3 DEF NgramsOfText, Wanted
<1>10. \A g \in NgramsOfText : g[1] = f => (g[2] <= e <=> g[2] <= u \/ g = <<f, e>>)
  <2> SUFFICES ASSUME NEW g \in NgramsOfText, g[1] = f
               PROVE  g[2] <= e <=> g[2] <= u \/ g = <<f, e>>
    OBVIOUS
  <2>1. g = <<g[1], g[2]>> /\ g[2] \in Nat /\ (g[2] \in Firsts \/ g[2] = z)
    BY <1>4, NgramsAt
  <2>2. PICK y \in Nat : y = g[2]
    BY <2>1
  <2>3. g = <<f, y>> /\ (y \in Firsts \/ y = z)
    BY <2>1, <2>2
  <2>4. <<f, y>> = <<f, e>> <=> y = e
    OBVIOUS
  <2>5. y <= e <=> y <= u \/ y = e
    BY <1>4, <1>5, <2>3
  <2> QED
    BY <2>2, <2>3, <2>4, <2>5
<1>11. Passed(f, e) = Passed(f, u) \cup ({<<f, e>>} \cap NgramsOfText)
  <2>1. <<f, e>>[1] = f /\ <<f, e>>[2] = e /\ e <= e
    OBVIOUS
  <2> HIDE DEF NgramsOfText
  <2> QED
    BY <1>10, <2>1 DEF Passed
<1>12. <<f, e>> \notin Range(substrings)
  <2>1. <<f, e>> # Whole
    BY <1>5 DEF Whole
  <2>2. <<f, e>> \notin Passed(f, u)
    <3>1. <<f, e>>[1] = f /\ <<f, e>>[2] = e
      OBVIOUS
    <3> QED
      BY <1>5, <3>1 DEF Passed
  <2> QED
    BY <1>1, <1>4, <2>1, <2>2 DEF WordAlone
<1>13. /\ substrings' \in Seq(Nat \X Nat) /\ IsInjective(substrings')
       /\ Range(substrings') = Range(substrings) \cup ({<<f, e>>} \cap NgramsOfText)
       /\ pruneSize = -1 => ngrams' = substrings'
  <2>1. CASE Wanted(count, e)
    <3>1. /\ substrings' = Append(substrings, <<f, e>>)
          /\ PushHash(<<f, e>>)
      BY <1>2, <1>4, <1>5, <2>1 DEF More
    <3>2. substrings \in Seq(Nat \X Nat) /\ <<f, e>> \in Nat \X Nat
      BY <1>1 DEF WordTypes
    <3>3. pruneSize = -1 => ngrams' = Append(ngrams, <<f, e>>)
      BY <3>1 DEF PushHash
    <3>4. {<<f, e>>} \cap NgramsOfText = {<<f, e>>}
      BY <1>9, <2>1
    <3>5. /\ Append(substrings, <<f, e>>) \in Seq(Nat \X Nat)
          /\ IsInjective(Append(substrings, <<f, e>>))
          /\ Range(Append(substrings, <<f, e>>)) = Range(substrings) \cup {<<f, e>>}
      BY <1>1, <1>12, <3>2, AppendNew
    <3>6. pruneSize = -1 => ngrams' = substrings'
      BY <1>1, <3>1, <3>3
    <3> QED
      BY <3>1, <3>4, <3>5, <3>6
  <2>2. CASE ~Wanted(count, e)
    <3>1. UNCHANGED <<ngrams, substrings>>
      BY <1>2, <1>5, <2>2 DEF More
    <3>2. {<<f, e>>} \cap NgramsOfText = {}
      BY <1>9, <2>2
    <3> QED
      BY <1>1, <3>1, <3>2 DEF WordTypes
  <2> QED
    BY <2>1, <2>2
<1>14. Range(substrings') = WordAlone' \cup Passed(f, e)
  BY <1>1, <1>3, <1>4, <1>11, <1>13
<1>15. WordTypes'
  BY <1>1, <1>2, <1>3, <1>13 DEF WordTypes
<1>16. /\ (Range(substrings) = WordAlone \cup Passed(from, upto))'
       /\ (count = Cardinality(Between(from, upto)) + 1)'
       /\ from' \in Firsts' /\ upto' \in Firsts' \cup {Size'} /\ from' <= upto'
  <2>1. from' = f /\ upto' = e /\ count' = count + 1 /\ f <= e
    BY <1>2, <1>4, <1>5
  <2> QED
    BY <1>3, <1>5, <1>6, <1>8, <1>14, <2>1
<1>17. stage' = "more" /\ pruneSize' = pruneSize
  BY <1>1, <1>2
<1> QED
  BY <1>13, <1>15, <1>16, <1>17 DEF WordInv

LEMMA EndsStep == WordInv /\ Ends => WordInv'
<1> SUFFICES ASSUME WordInv, Ends PROVE WordInv'
  OBVIOUS
<1>1. /\ WordTypes /\ stage = "more" /\ (upto >= Size \/ count > maxn)
      /\ from \in Firsts /\ upto \in Firsts \cup {Size} /\ from <= upto
      /\ count = Cardinality(Between(from, upto)) + 1
      /\ Range(substrings) = WordAlone \cup Passed(from, upto)
      /\ IsInjective(substrings) /\ (pruneSize = -1 => ngrams = substrings)
  BY DEF WordInv, Ends
<1>2. /\ UNCHANGED <<word, minn, maxn, known, pruneSize, ngrams, substrings>>
      /\ from' = from + 1 /\ stage' = "from"
  BY DEF Ends
<1>3. /\ Size' = Size /\ Firsts' = Firsts /\ WordAlone' = WordAlone
      /\ \A a, b : Between(a, b)' = Between(a, b) /\ Passed(a, b)' = Passed(a, b)
  BY <1>2, WordKept
<1>4. PICK z, f, u, x \in Nat : z = Size /\ f = from /\ u = upto /\ f < z /\ x = maxn
  BY <1>1 DEF WordTypes, Firsts
<1>5. ASSUME NEW g \in NgramsOfText, g[1] = f, ~(g[2] <= u) PROVE FALSE
  <2>1. g[2] \in Nat /\ g[2] <= z /\ u < g[2]
    <3>1. g[2] \in Nat /\ g[2] \in Firsts \cup {Size}
      BY <1>4, NgramsAt
    <3> QED
      BY <1>4, <1>5, <3>1 DEF Firsts
  <2>2. u \in Firsts /\ count > maxn
    BY <1>1, <1>4, <2>1
  <2>3. Between(f, u) \cup {u} \subseteq Between(f, g[2])
    <3>1. f <= u /\ \A p \in Firsts : p \in Nat
      BY <1>1, <1>4 DEF Firsts
    <3>2. PICK y \in Nat : y = g[2] /\ u < y
      BY <2>1
    <3>3. \A a, b, q : q \in Between(a, b) <=> q \in Firsts /\ a <= q /\ q < b
      BY DEF Between
    <3>4. \A q \in Firsts : q < u => q < y
      BY <3>1, <3>2, <1>4
    <3>5. Between(f, u) \cup {u} \subseteq Between(f, y)
      BY <2>2, <3>1, <3>2, <3>3, <3>4
    <3> QED
      BY <3>2, <3>5
  <2>4. PICK c, m \in Nat : c = Cardinality(Between(f, u)) /\ m = Cardinality(Between(f, g[2]))
    BY <1>4, BetweenFinite
  <2>5. Cardinality(Between(f, u) \cup {u}) = c + 1
    <3>1. u \notin Between(f, u)
      BY <1>4 DEF Between
    <3> QED
      BY <1>4, <2>4, <3>1, BetweenFinite, FS_AddElement
  <2>6. c + 1 <= m
    BY <1>4, <2>3, <2>4, <2>5, BetweenFinite, FS_Subset
  <2>7. m <= x
    BY <1>4, <1>5, <2>4 DEF NgramsOfText
  <2>8. c + 1 > x
    BY <1>1, <1>4, <2>2, <2>4
  <2> QED
    BY <1>4, <2>4, <2>6, <2>7, <2>8
<1>6. Passed(f + 1, 0) = Passed(f, u)
  BY <1>4, <1>5, PassedOn
<1>7. WordTypes'
  BY <1>1, <1>2, <1>3, <1>4 DEF WordTypes
<1>8. (Range(substrings) = WordAlone \cup Passed(from, 0))'
  BY <1>1, <1>2, <1>3, <1>4, <1>6
<1> QED
  BY <1>1, <1>2, <1>7, <1>8 DEF WordInv

LEMMA BeginStep == WordInv /\ Begin => WordInv'
<1> SUFFICES ASSUME WordInv, Begin PROVE WordInv'
  OBVIOUS
<1>1. /\ WordTypes /\ stage = "start" /\ from = 0 /\ stage' = "from"
      /\ UNCHANGED <<word, minn, maxn, known, pruneSize, from, upto, count>>
      /\ substrings' = (IF known THEN <<Whole>> ELSE <<>>) /\ ngrams' = substrings'
  BY DEF WordInv, Begin
<1>2. /\ Size' = Size /\ WordAlone' = WordAlone /\ \A a, b : Passed(a, b)' = Passed(a, b)
  BY <1>1, WordKept
<1>3. /\ substrings' \in Seq(Nat \X Nat) /\ IsInjective(substrings')
      /\ Range(substrings') = WordAlone
  BY <1>1 DEF Whole, WordAlone, Range, IsInjective
<1>4. Passed(0, 0) = {}
  <2>1. Size \in Nat
    BY <1>1 DEF WordTypes
  <2>2. \A g \in NgramsOfText : g[1] \in Nat /\ g[2] \in Nat /\ g[1] < g[2]
    BY <2>1, NgramsAt
  <2> HIDE DEF NgramsOfText
  <2> QED
    BY <2>2 DEF Passed
<1>5. WordTypes'
  BY <1>1, <1>2, <1>3 DEF WordTypes
<1>6. (Range(substrings) = WordAlone \cup Passed(from, 0))'
  BY <1>1, <1>2, <1>3, <1>4
<1> QED
  BY <1>1, <1>3, <1>5, <1>6 DEF WordInv

LEMMA WordStep == WordInv /\ [WordNext]_wordVars => WordInv'
<1> SUFFICES ASSUME WordInv, [WordNext]_wordVars PROVE WordInv'
  OBVIOUS
<1>1. CASE Done \/ UNCHANGED wordVars
  <2>1. /\ UNCHANGED <<word, minn, maxn, known, pruneSize, from, upto, count, ngrams,
                       substrings>>
        /\ \/ stage = "from" /\ from = Size /\ stage' = "done"
           \/ stage' = stage
    BY <1>1 DEF Done, wordVars
  <2>2. /\ Size' = Size /\ Firsts' = Firsts /\ WordAlone' = WordAlone
        /\ \A a, b : Between(a, b)' = Between(a, b) /\ Passed(a, b)' = Passed(a, b)
    BY <2>1, WordKept
  <2>3. WordTypes'
    BY <2>1, <2>2 DEF WordInv, WordTypes
  <2> QED
    BY <2>1, <2>2, <2>3 DEF WordInv
<1> QED
  BY <1>1, BeginStep, FromStep, MoreStep, EndsStep DEF WordNext

LEMMA WordRight == WordInv => SubwordsRight
<1> SUFFICES ASSUME WordInv, stage = "done"
             PROVE  /\ IsInjective(substrings)
                    /\ Range(substrings) = NgramsOfText \cup WordAlone
                    /\ pruneSize = -1 => ngrams = substrings
  BY DEF SubwordsRight, NgramsOfCharacters, AlignedUnlessPruned, WordAlone
<1>1. /\ Size \in Nat /\ IsInjective(substrings)
      /\ Range(substrings) = WordAlone \cup Passed(Size, 0)
      /\ pruneSize = -1 => ngrams = substrings
  BY DEF WordInv, WordTypes
<1>2. \A g \in NgramsOfText : g[1] < Size
  BY <1>1, NgramsAt
<1>3. Passed(Size, 0) = NgramsOfText
  BY <1>2 DEF Passed
<1> QED
  BY <1>1, <1>3

(* Whatever the bytes of a word, those that continue nothing included, and  *)
(* however many: its substrings are the runs of minn to maxn of its         *)
(* characters, each once, and in a model that is not pruned each stands     *)
(* beside the vector of its own n-gram (dictionary.cc:172-195; fasttext.cc: *)
(* 530-536).                                                                *)
THEOREM NgramsAreCharacters == WordSpec => []SubwordsRight
BY WordInitInv, WordStep, WordRight, PTL DEF WordSpec
=============================================================================
