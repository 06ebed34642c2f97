----------------------------- MODULE LineReading -----------------------------
(***************************************************************************)
(* How fastText reads a text line by line (fastText/src/dictionary.cc):    *)
(* readWord on the stream's buffer, reset at its end, getLine for a        *)
(* supervised and for an unsupervised model, and the loops around it in    *)
(* fasttext.cc: a training thread that starts somewhere in the file and    *)
(* goes round and round, and test, which reads it once.                    *)
(*                                                                         *)
(* A text is a sequence of kinds of characters.  A token is the pair of    *)
(* its first and last position, and the end of a line is that of its       *)
(* newline with itself, so what was read can be held against the text.     *)
(***************************************************************************)
EXTENDS Integers, FiniteSets, Sequences, Functions

CONSTANTS
  MaxLen,    \* bound: the characters of a text
  MaxCalls,  \* bound: the calls of getLine by a training thread
  MAX_LINE_SIZE,
  WordNgrams \* args_->wordNgrams

ASSUME LineReadingAssumption ==
  /\ MaxLen \in Nat /\ MaxCalls \in Nat
  /\ MAX_LINE_SIZE \in Nat /\ WordNgrams \in Nat \ {0}

\* "w" a letter, "r" a letter of words the vocabulary lacks, "l" the label
\* prefix, " " any blank, "n" the newline
Letters == {"w", "r", "l"}
Chars == Letters \cup {" ", "n"}

VARIABLES
  text,      \* the file
  caller,    \* "sup", "sg": a training thread of that model; "test"
  eosKnown,  \* the end of line is in the vocabulary
  pos,       \* the position of the stream's buffer
  eof,       \* eofbit
  start,     \* where the running call of getLine began
  words,     \* its words: the n-grams, each the pair of its first and last position
  hashed,    \* its word_hashes: the tokens they are of, in their order
  labels,    \* its labels
  ntokens,   \* its count
  calls,     \* bound: calls so far
  passed,    \* ghost: the tokens read since the stream was at its beginning
  counted,   \* ghost: the sum of ntokens since then
  fromTop,   \* ghost: this pass began at the beginning
  reading    \* "ready", "in", "done"

lineVars == <<text, caller, eosKnown, pos, eof, start, words, hashed, labels, ntokens,
              calls, passed, counted, fromTop, reading>>

Lines == UNION {[1 .. n -> Chars] : n \in 0 .. MaxLen}
End == Len(text) + 1

\* The first position from p on with one of these characters.
First(p, cs) ==
  IF \E q \in p .. Len(text) : text[q] \in cs
  THEN CHOOSE q \in p .. Len(text) : text[q] \in cs /\ \A i \in p .. q - 1 : text[i] \notin cs
  ELSE End

\* readWord, from position p: blanks are skipped; a newline before any letter
\* is a token itself; a newline after letters is put back (sungetc), another
\* separator is consumed; the end of the buffer is made known to the stream.
ReadWord(p) ==
  LET q == First(p, Chars \ {" "})
      r == First(q, Chars \ Letters)
  IN IF q = End THEN [ok |-> FALSE, token |-> <<q, q>>, pos |-> End, eof |-> TRUE]
     ELSE IF text[q] = "n"
     THEN [ok |-> TRUE, token |-> <<q, q>>, pos |-> q + 1, eof |-> FALSE]
     ELSE [ok |-> TRUE, token |-> <<q, r - 1>>,
           pos |-> IF r = End \/ text[r] = "n" THEN r ELSE r + 1,
           eof |-> r = End]

IsEOS(t) == text[t[1]] = "n"
IsLabel(t) == text[t[1]] = "l"
Known(t) == IF IsEOS(t) THEN eosKnown ELSE \A i \in t[1] .. t[2] : text[i] # "r"

\* addWordNgrams: every run of two to WordNgrams neighbours.
WordNgramsOf(hs) ==
  {<<hs[m[1]][1], hs[m[2]][2]>> :
     m \in {m \in (DOMAIN hs) \X (DOMAIN hs) : m[1] < m[2] /\ m[2] < m[1] + WordNgrams}}

-----------------------------------------------------------------------------
LinesInit ==
  /\ text \in Lines
  /\ caller \in {"sup", "sg", "test"}
  /\ eosKnown \in BOOLEAN
  /\ pos \in IF caller = "test" THEN {1} ELSE 1 .. Len(text) + 1  \* utils::seek
  /\ eof = FALSE
  /\ start = pos
  /\ words = {} /\ hashed = <<>> /\ labels = {} /\ ntokens = 0
  /\ calls = 0
  /\ passed = <<>> /\ counted = 0 /\ fromTop = (pos = 1)
  /\ reading = "ready"

\* The condition of the caller's loop: test peeks, which at the end of the
\* buffer sets eofbit; a training thread goes on.
Wanted == IF caller = "test" THEN pos # End ELSE calls < MaxCalls

\* reset, and the start of getLine.
Call ==
  /\ reading = "ready" /\ Wanted
  /\ pos' = IF eof THEN 1 ELSE pos
  /\ eof' = FALSE
  /\ start' = pos'
  /\ passed' = IF eof THEN <<>> ELSE passed
  /\ counted' = IF eof THEN 0 ELSE counted
  /\ fromTop' = (eof \/ fromTop)
  /\ words' = {} /\ hashed' = <<>> /\ labels' = {} /\ ntokens' = 0
  /\ calls' = IF caller = "test" THEN calls ELSE calls + 1
  /\ reading' = "in"
  /\ UNCHANGED <<text, caller, eosKnown>>

EndOfLine(ng) ==
  /\ words' = words \cup ng
  /\ counted' = counted + ntokens'
  /\ reading' = "ready"

\* The loop of getLine with labels (394-411): every token counts.
TokenSup ==
  LET w == ReadWord(pos) IN
  /\ reading = "in" /\ caller # "sg"
  /\ pos' = w.pos /\ eof' = w.eof
  /\ IF ~w.ok
     THEN /\ UNCHANGED <<hashed, labels, ntokens, passed>>
          /\ EndOfLine(WordNgramsOf(hashed))
     ELSE /\ ntokens' = ntokens + 1
          /\ passed' = Append(passed, w.token)
          /\ labels' = IF IsLabel(w.token) /\ Known(w.token)
                       THEN labels \cup {w.token} ELSE labels
          /\ hashed' = IF IsLabel(w.token) THEN hashed ELSE Append(hashed, w.token)
          /\ LET own == IF IsLabel(w.token) \/ (IsEOS(w.token) /\ ~eosKnown)
                        THEN {} ELSE {w.token}
             IN IF IsEOS(w.token) THEN EndOfLine(own \cup WordNgramsOf(hashed'))
                ELSE words' = words \cup own /\ UNCHANGED <<counted, reading>>
  /\ UNCHANGED <<text, caller, eosKnown, start, calls, fromTop>>

LineFullOnly(n, t) == n > MAX_LINE_SIZE  \* Slip: the end of the line is no reason to stop

LineFull(n, t) == n > MAX_LINE_SIZE \/ IsEOS(t)

\* The loop of getLine with a random generator (365-379): a word that is not
\* known does not count and, if it is the end of the line, does not end it.
\* discard may drop a word.
TokenSg ==
  LET w == ReadWord(pos) IN
  /\ reading = "in" /\ caller = "sg"
  /\ pos' = w.pos /\ eof' = w.eof
  /\ passed' = IF w.ok THEN Append(passed, w.token) ELSE passed
  /\ IF ~w.ok
     THEN UNCHANGED ntokens /\ EndOfLine({})
     ELSE IF ~Known(w.token)
     THEN UNCHANGED <<words, ntokens, counted, reading>>
     ELSE /\ ntokens' = ntokens + 1
          /\ \/ UNCHANGED words
             \/ ~IsLabel(w.token) /\ words' = words \cup {w.token}
          /\ IF LineFull(ntokens', w.token)
             THEN /\ counted' = counted + ntokens'
                  /\ reading' = "ready"
             ELSE UNCHANGED <<counted, reading>>
  /\ UNCHANGED <<text, caller, eosKnown, start, hashed, labels, calls, fromTop>>

\* test ends when peek finds nothing more.
Finish ==
  /\ reading = "ready" /\ caller = "test" /\ ~Wanted
  /\ eof' = TRUE
  /\ reading' = "done"
  /\ UNCHANGED <<text, caller, eosKnown, pos, start, words, hashed, labels, ntokens,
                 calls, passed, counted, fromTop>>

LinesNext == Call \/ TokenSup \/ TokenSg \/ Finish

LinesSpec == LinesInit /\ [][LinesNext]_lineVars

-----------------------------------------------------------------------------
\* The text read by its own rules: the maximal runs of letters from position
\* a on, and the newlines.
TokensFrom(a) ==
  {t \in (a .. Len(text)) \X (a .. Len(text)) :
     \/ t[1] = t[2] /\ text[t[1]] = "n"
     \/ /\ t[1] <= t[2] /\ \A i \in t[1] .. t[2] : text[i] \in Letters
        /\ (t[1] = a \/ text[t[1] - 1] \notin Letters)
        /\ (t[2] = Len(text) \/ text[t[2] + 1] \notin Letters)}

\* Positions stay in the text and counts in their bounds, reading and caller in
\* their sets (dictionary.cc:355-412).
LinesTypeOK ==
  /\ text \in Lines
  /\ pos \in 1 .. End /\ start \in 1 .. End /\ eof \in BOOLEAN
  /\ ntokens \in 0 .. MaxLen /\ calls \in 0 .. MaxCalls
  /\ caller \in {"sup", "sg", "test"}
  /\ reading \in {"ready", "in", "done"}

\* Where a call ends: just behind the newline it ran into, else at the end.
LineEnd(a) == LET n == First(a, {"n"}) IN IF n = End THEN End ELSE n + 1

Returned == reading = "ready" /\ calls + Len(passed) > 0

\* A supervised call reads one line, no more and no less (dictionary.cc:383-412
\* with the put-back newline of 222): it counts every token up to the newline
\* and the newline, and leaves the stream behind it, wherever it started.
OneLine ==
  (Returned /\ caller # "sg" /\ (calls > 0 \/ ntokens > 0)) =>
    /\ pos = LineEnd(start)
    /\ ntokens = Cardinality({t \in TokensFrom(start) : t[1] < LineEnd(start)})

\* One example is made of one line (dictionary.cc:312-323, 394-410; and
\* 365-379 when the end of line is in the vocabulary): no n-gram, no context
\* and no label reaches over a newline into the next line.
NoneFromNextLine ==
  (caller = "sg" => eosKnown) =>
    \A t \in words \cup labels :
      \A i \in start .. t[2] - 1 : text[i] # "n"

\* The calls together read the file (dictionary.cc:348-379; fasttext.cc:643-661):
\* since the stream was last rewound, the tokens read are those of the text
\* from there, in order and each once, and at its end all of them, however the
\* lines were cut.
EachTokenOnce ==
  fromTop =>
    /\ \A i, j \in DOMAIN passed : i < j => passed[i][2] < passed[j][1]
    /\ Range(passed) = {t \in TokensFrom(1) : t[2] < pos}

\* A supervised pass counts what the vocabulary counted (ntokens_,
\* dictionary.cc:58-60, 237): so tokenCount_ in keepTraining
\* (fasttext.cc:628-630) reaches one epoch exactly at the end of one pass.
EpochIsOnePass ==
  (fromTop /\ caller # "sg" /\ reading # "in" /\ pos = End) =>
    counted = Cardinality(TokensFrom(1))

\* Reading is by lines, by tokens and by passes (dictionary.cc:222, 312-323,
\* 348-412; fasttext.cc:628-630, 643-661).
LinesRead == LinesTypeOK /\ OneLine /\ NoneFromNextLine /\ EachTokenOnce /\ EpochIsOnePass
=============================================================================
