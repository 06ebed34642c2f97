------------------------------ MODULE Languages ------------------------------
(***************************************************************************)
(* From what a client asks and what fastText guesses to the languages that *)
(* Tesseract reads with: FasttextWorker::run_work and                      *)
(* TesseractWorker::parse_lang.  A prediction is a label, its code behind  *)
(* a prefix of nine characters, with a probability in percent.             *)
(***************************************************************************)
EXTENDS Integers, Sequences, FiniteSets

CONSTANTS
    Labels,      \* records [code, length] of the labels of the model
    LangToLang,  \* lang_to_lang: from codes of labels to language names
    SupportLang, \* support_lang: from language names to sets of trained data
    English, Unknown, \* "eng", "XXX"
    Words,       \* the strings that clients send and that name languages
    Sizes        \* how many values size_t has

ASSUME LanguagesAssumption ==
    /\ English \in DOMAIN SupportLang /\ SupportLang[English] = {English}
    /\ Unknown \in Words \ {""} /\ Unknown \notin DOMAIN SupportLang
    /\ \A c \in DOMAIN LangToLang : LangToLang[c] \in Words \ {""}

ASSUME LabelsAssumption ==
    Sizes \in Nat /\ Sizes > 9 /\ \A l \in Labels : l.length \in 9..(Sizes - 1)

Percent == 0..100
Predictions == {<<>>} \cup {<<[label |-> l, p |-> p]>> : l \in Labels, p \in {0, 49, 51, 100}}

(* predictLine has taken the exponential of the logarithm already, so this  *)
(* one is of a probability; 1 + x is a lower bound of it.                   *)
Exp(p) == 100 + p

(* substr(9, lang.size() - 9) with a lang of three characters.              *)
Count == (3 - 9) % Sizes
Cut(l) == IF Count >= l.length - 9 THEN l.code ELSE Unknown

RunWork(predictions) ==
    IF predictions # <<>> /\ Exp(predictions[1].p) > 50 /\ Cut(predictions[1].label) \in DOMAIN LangToLang
    THEN LangToLang[Cut(predictions[1].label)]
    ELSE Unknown

(* Slip: what follows the last plus sign is not looked at.                  *)
SupportedButLast(tokens) == {tokens[k] : k \in 1..(Len(tokens) - 1)} \intersect DOMAIN SupportLang

(* The tokens between the plus signs; one that is not supported is left out.*)
Supported(tokens) == {tokens[k] : k \in DOMAIN tokens} \intersect DOMAIN SupportLang

ParseLang(tokens) == {English} \cup UNION {SupportLang[t] : t \in Supported(tokens)}
=============================================================================
