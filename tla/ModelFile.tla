------------------------------ MODULE ModelFile ------------------------------
(***************************************************************************)
(* A FastText object from one call to the next: train, quantize, saveModel *)
(* and loadModel (fastText/src/fasttext.cc), with a file that outlives the *)
(* process.                                                                *)
(*                                                                         *)
(* A matrix is its kind and the dictionary its rows are for; a dictionary  *)
(* goes by the training it comes from and whether it was pruned.  A file   *)
(* is the sequence of what saveModel writes.  loadModel looks at nothing   *)
(* but the values: what it reads beyond the end keeps the value it had, or *)
(* is any if it had none, and a matrix read as the wrong kind is garbage.  *)
(***************************************************************************)
EXTENDS Integers, Sequences

CONSTANTS
  MaxTrainings,  \* bound: the trainings, released model files included
  LoadsAgain     \* whether an object that was used may load another file; no
                 \* caller in the repository does

ASSUME ModelFileAssumption == MaxTrainings \in Nat /\ LoadsAgain \in BOOLEAN

VARIABLES
  args,      \* args_: [sup, qout, maxn], maxn as whether there are n-grams
  dict,      \* dict_: [of, pruned]
  input, output,  \* input_ and output_: [kind, of, pruned]
  quant,     \* quant_
  state,     \* "new", "ready" or, left by an exception, "broken"
  file,      \* the model file
  saved,     \* ghost: what a whole file was saved from, or nothing
  loaded,    \* ghost: the object has just been read from the file
  whole,     \* ghost: what it holds does not come from a file that was cut
  trainings  \* ghost: how many there were

vars == <<args, dict, input, output, quant, state, file, saved, loaded, whole, trainings>>

None == 0
NoDict == [of |-> None, pruned |-> FALSE]
Dense(d) == [kind |-> "dense", of |-> d.of, pruned |-> d.pruned]
Quant(d) == [kind |-> "quant", of |-> d.of, pruned |-> d.pruned]
Garbage(kind) == [kind |-> kind, of |-> -1, pruned |-> FALSE]

\* The rows of the output are the labels, which no pruning touches.
OfLabels(d) == [d EXCEPT !.pruned = FALSE]

Blank ==
  /\ args' = [sup |-> FALSE, qout |-> FALSE, maxn |-> TRUE]
  /\ dict' = NoDict
  /\ input' = Dense(NoDict) /\ output' = Dense(NoDict)
  /\ quant' = FALSE
  /\ state' = "new"
  /\ whole' = TRUE

\* saveModel: magic number and version, arguments, dictionary, and before each
\* matrix the flag that tells how to read it.
Fields ==
  <<[version |-> 12], [sup |-> args.sup, maxn |-> args.maxn], dict,
    quant, input, args.qout, output>>

Content == <<args.sup, args.maxn, dict, input, output>>

\* A model that was released before: a supervised one of version 11 says it
\* has n-grams and has none, one may be pruned and not quantized, or too new.
OldFields(v, s, d) ==
  <<[version |-> v], [sup |-> s, maxn |-> TRUE], d, FALSE, Dense(d), FALSE,
    Dense(OfLabels(d))>>

Released ==
  {OldFields(v, s, d) : v \in 11 .. 13, s \in BOOLEAN, d \in [of : {1}, pruned : BOOLEAN]}

ReleasedContent(f) ==
  <<f[2].sup, ~(f[1].version = 11 /\ f[2].sup), f[3], f[5], f[7]>>

Init ==
  /\ args = [sup |-> FALSE, qout |-> FALSE, maxn |-> TRUE]
  /\ dict = NoDict /\ input = Dense(NoDict) /\ output = Dense(NoDict)
  /\ quant = FALSE
  /\ state = "new"
  /\ \/ file = <<>> /\ saved = <<>>
     \/ file \in Released /\ saved = ReleasedContent(file)
  /\ loaded = FALSE
  /\ whole = TRUE
  /\ trainings = 1

Reset == quant' = FALSE

\* train replaces everything, and leaves the rest alone if it fails before the
\* matrices are made; an exception of the threads comes when all is in place.
Train ==
  /\ trainings < MaxTrainings
  /\ trainings' = trainings + 1
  /\ args' \in [sup : BOOLEAN, qout : BOOLEAN, maxn : BOOLEAN]
  /\ \/ /\ dict' = [of |-> trainings', pruned |-> FALSE]
        /\ input' = Dense(dict') /\ output' = Dense(dict')
        /\ Reset
        /\ state' \in {"ready", "broken"}
        /\ whole' = TRUE
     \/ /\ dict' = NoDict
        /\ state' = "broken"
        /\ UNCHANGED <<input, output, quant, whole>>
  /\ loaded' = FALSE
  /\ UNCHANGED <<file, saved>>

\* quantize prunes, retrains, and replaces one matrix or two; the threads and
\* the quantizers may throw.  A quantized matrix is no DenseMatrix: nobody
\* quantizes twice.
Quantize ==
  /\ state = "ready" /\ args.sup /\ ~quant
  /\ args' \in {[args EXCEPT !.qout = q] : q \in BOOLEAN}
  /\ dict' \in {dict, [dict EXCEPT !.pruned = TRUE]}
  /\ \/ /\ input' = Quant(dict')
        /\ output' = IF args'.qout THEN Quant(OfLabels(dict')) ELSE output
        /\ quant' = TRUE
        /\ UNCHANGED state
     \/ /\ input' \in {input} \cup IF args'.qout THEN {Quant(dict')} ELSE {}
        /\ state' = "broken"
        /\ UNCHANGED <<output, quant>>
  /\ loaded' = FALSE
  /\ UNCHANGED <<file, saved, whole, trainings>>

\* No caller saves what an exception left.
Save ==
  /\ state = "ready"
  /\ file' = Fields
  /\ saved' = IF whole THEN Content ELSE <<>>
  /\ loaded' = FALSE
  /\ UNCHANGED <<args, dict, input, output, quant, state, whole, trainings>>

\* The process ends in the midst of saving, or without, and another begins.
\* The file is cut between two fields; one cut within the dictionary would keep
\* load reading for ever.
Crash ==
  /\ Blank
  /\ loaded' = FALSE
  /\ \/ UNCHANGED <<file, saved>>
     \/ /\ state = "ready"
        /\ \E n \in 0 .. Len(Fields) - 1 : file' = SubSeq(Fields, 1, n)
        /\ saved' = <<>>
  /\ UNCHANGED trainings

\* A local that a read beyond the end leaves uninitialised is any.
Flag(n) == IF n <= Len(file) THEN {file[n]} ELSE BOOLEAN

ReadAs(kind, n) ==
  IF n > Len(file) THEN [kind |-> kind, of |-> None, pruned |-> FALSE]
  ELSE IF file[n].kind = kind THEN file[n]
  ELSE Garbage(kind)

Kind(isQuant) == IF isQuant THEN "quant" ELSE "dense"

TooNew == Len(file) >= 1 /\ Head(file).version > 12

\* Old supervised models do not use character n-grams.
Maxn == file[2].maxn /\ ~(file[1].version = 11 /\ file[2].sup)

OutputQuantizedAsAsked(isQuant, isQout) == isQout  \* Slip: quant_ is not asked

OutputQuantized(isQuant, isQout) == isQuant /\ isQout

\* loadModel: an exception of checkModel, before anything is read changes nothing but
\* version; a pruned dictionary with a dense matrix is an invalid file.
Refuse ==
  /\ state = "new" \/ LoadsAgain
  /\ file = <<>> \/ TooNew
  /\ loaded' = FALSE
  /\ UNCHANGED <<args, dict, input, output, quant, state, file, saved, whole, trainings>>

Load ==
  /\ state = "new" \/ LoadsAgain
  /\ ~TooNew
  /\ \E q \in Flag(4), qo \in Flag(6) :
       /\ dict' = IF Len(file) >= 3 THEN file[3] ELSE NoDict
       /\ input' = ReadAs(Kind(q), 5)
       /\ quant' = (q \/ quant)
       /\ IF ~q /\ dict'.pruned
          THEN /\ args' \in {[args EXCEPT !.sup = file[2].sup, !.maxn = Maxn, !.qout = FALSE]}
               /\ output' = Dense(NoDict)
               /\ state' = "broken" /\ loaded' = FALSE
          ELSE /\ args' = IF Len(file) >= 2 THEN [sup |-> file[2].sup, maxn |-> Maxn, qout |-> qo]
                          ELSE [sup |-> FALSE, maxn |-> TRUE, qout |-> qo]
               /\ output' = ReadAs(Kind(OutputQuantized(quant', qo)), 7)
               /\ state' = "ready" /\ loaded' = TRUE
  /\ whole' = (saved # <<>>)
  /\ UNCHANGED <<file, saved, trainings>>

Next == Train \/ Quantize \/ Save \/ Crash \/ Refuse \/ Load

Spec == Init /\ [][Next]_vars

-----------------------------------------------------------------------------
\* What is loaded from a whole file is what was saved (fasttext.cc:192-272):
\* dictionary, n-grams, and each matrix of its kind, after any training and
\* quantizing, of qout set for a model that is not quantized, and of a model
\* of version 11 saved again.
LoadsWhatWasSaved == loaded /\ whole => Content = saved

\* An object in use has matrices for the rows of its dictionary, and its flags
\* tell their kinds, which getInputMatrix and getOutputMatrix rely on
\* (fasttext.cc:65-92): it "Can't export" a matrix only if it is quantized.
FlagsTellMatrices ==
  state = "ready" /\ whole =>
    /\ quant <=> input.kind = "quant"
    /\ quant /\ args.qout <=> output.kind = "quant"
    /\ input.of = dict.of /\ input.pruned = dict.pruned /\ output.of = dict.of

\* What loads is what was saved, whatever was done to the model before, and its
\* flags tell which matrices it has (fasttext.cc:65-92, 192-272).
FileHolds == LoadsWhatWasSaved /\ FlagsTellMatrices
=============================================================================
