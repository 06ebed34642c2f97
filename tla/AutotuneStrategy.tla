-------------------------- MODULE AutotuneStrategy --------------------------
(***************************************************************************)
(* How autotune picks the arguments of a trial (fastText/src/autotune.cc:  *)
(* 91-206): each one the user did not set moves away from the best known,  *)
(* and those that depend on others follow them.                            *)
(*                                                                         *)
(* A random step, clamped, is any value of its range.  epoch stands for    *)
(* epoch, lr and dim, which nothing else depends on.                       *)
(***************************************************************************)
EXTENDS Integers

CONSTANTS
  MaxEpoch,       \* the largest epoch, 100 in the code
  MaxWordNgrams,  \* the largest wordNgrams, 5 in the code
  MaxExponent,    \* the largest exponent of dsub, 4 in the code
  MaxBucket,      \* bound: buckets of a trial are 1 .. MaxBucket
  MaxTrials       \* bound: the trials

ASSUME StrategyAssumption ==
  /\ MaxEpoch \in Nat \ {0} /\ MaxWordNgrams \in Nat \ {0}
  /\ MaxExponent \in Nat \ {0} /\ MaxBucket \in Nat \ {0} /\ MaxTrials \in Nat

Names == {"epoch", "wordNgrams", "dsub", "minn", "maxn", "bucket"}

VARIABLES
  manual,          \* manualArgs_: what the user set
  original,        \* ghost: the arguments autotune was called with
  originalBucket,  \* originalBucket_
  bestArgs,        \* bestArgs_
  asked,           \* the arguments of the running trial
  trials           \* trials_

askVars == <<manual, original, originalBucket, bestArgs, asked, trials>>

minnChoices == {0, 2, 3}
Default == [epoch |-> 1, wordNgrams |-> 1, dsub |-> 2, minn |-> 0, maxn |-> 0,
            bucket |-> MaxBucket]

\* What parseArgs leaves: a name that was not set has its default, and with
\* autotune the buckets stay even if nothing needs them.
Given ==
  [epoch : {1, MaxEpoch}, wordNgrams : 1 .. MaxWordNgrams, dsub : {2},
   minn : minnChoices, maxn : {0, 2, 6}, bucket : 0 .. MaxBucket]

\* updateBest, in the constructor: the best so far is what was given.
AskInit ==
  /\ manual \in SUBSET Names
  /\ original \in {g \in Given : \A x \in Names \ manual : g[x] = Default[x]}
  /\ originalBucket = original.bucket
  /\ bestArgs = original
  /\ asked = original
  /\ trials = 0

Free(x) == x \notin manual

\* The values ask may give a name, when the rest of the arguments are a.
Epochs == IF Free("epoch") THEN 1 .. MaxEpoch ELSE {bestArgs.epoch}
WordNgrams == IF Free("wordNgrams") THEN 1 .. MaxWordNgrams ELSE {bestArgs.wordNgrams}
Dsubs == IF Free("dsub") THEN {2 ^ e : e \in 1 .. MaxExponent} ELSE {bestArgs.dsub}
Minns == IF Free("minn") THEN minnChoices ELSE {bestArgs.minn}

MaxnFor(minn) ==
  IF ~Free("maxn") THEN bestArgs.maxn
  ELSE IF minn = 0 THEN 0 ELSE minn + 3

NoNgrams(a) == a.wordNgrams <= 1 /\ a.maxn = 0

Buckets == IF Free("bucket") THEN 1 .. MaxBucket ELSE {originalBucket}

WithBucket(a) == [a EXCEPT !.bucket = IF NoNgrams(a) THEN 0 ELSE @]

\* Every other trial: the dependent arguments follow in this order.
Steps ==
  {WithBucket([epoch |-> e, wordNgrams |-> w, dsub |-> d, minn |-> m,
               maxn |-> MaxnFor(m), bucket |-> b]) :
     e \in Epochs, w \in WordNgrams, d \in Dsubs, m \in Minns, b \in Buckets}

\* The first trial takes what was given.
ask ==
  /\ trials < MaxTrials
  /\ trials' = trials + 1
  /\ asked' \in IF trials = 0 THEN {bestArgs} ELSE Steps
  /\ UNCHANGED <<manual, original, originalBucket, bestArgs>>

\* The trial was the best.
updateBest ==
  /\ trials > 0
  /\ bestArgs' = asked
  /\ UNCHANGED <<manual, original, originalBucket, asked, trials>>

AskNext == ask \/ updateBest

AskSpec == AskInit /\ [][AskNext]_askVars

-----------------------------------------------------------------------------
\* Whenever n-grams are hashed there are buckets for them (dictionary.cc:187
\* and 319 divide by their number), unless the user asked for none: also after
\* a trial without n-grams, whose bucket was set to zero, was the best
\* (autotune.cc:173-182, 199-206).
BucketsWhenNeeded ==
  ~NoNgrams(asked) => asked.bucket > 0 \/ ("bucket" \in manual /\ original.bucket = 0)

\* What was set by hand "will not be automatically optimized"
\* (autotune.cc:375-379), in any trial and whatever was best; only buckets
\* that no n-gram needs are dropped.
ManualStays ==
  \A x \in manual :
    asked[x] = original[x] \/ (x = "bucket" /\ asked[x] = 0 /\ NoNgrams(asked))
=============================================================================
