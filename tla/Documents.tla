----------------------------- MODULE Documents -----------------------------
(***************************************************************************)
(* What TextTrek is asked and what it may answer: requests, and the text   *)
(* and language that processing one yields.  A page image is a pair of its *)
(* document and its number among the rendered pages, and stands for the    *)
(* text Tesseract reads in it; number 0 is the document read as a picture. *)
(* A text is the sequence of the page texts appended to it.                *)
(***************************************************************************)
EXTENDS Integers, Sequences

CONSTANTS
    Docs,      \* the documents (byte strings) clients send
    Keys,      \* the hashes used as Redis keys
    Hash,      \* Hash[d]: the key of document d; two documents may share one
    Pages,     \* Pages[d]: how many page images rendering_start makes of d
    Blank,     \* the page images in which Tesseract finds no text
    LangOf,    \* LangOf[d]: what run_work says of the text in the PDF d
    Langs, NoLang,  \* the languages, the empty string included
    Requests   \* the requests clients may send

ASSUME HashAssumption == Hash \in [Docs -> Keys]
ASSUME PagesAssumption == Pages \in [Docs -> Nat]
ASSUME LangsAssumption == NoLang \in Langs /\ LangOf \in [Docs -> Langs \ {NoLang}]

Formats == {"AUTO", "IMAGE", "PDF"}

ASSUME RequestsAssumption == Requests \subseteq [doc : Docs, format : Formats]

Images == Docs \X Nat
Texts == Seq(Images)

(* The string that appending page texts gives: empty if every page is.      *)
Joined(images) == IF \A i \in DOMAIN images : images[i] \in Blank THEN <<>> ELSE images

(* The pages of a PDF in their order, and the whole of a picture.           *)
PdfImages(d) == [i \in 1..Pages[d] |-> <<d, i>>]
Picture(d) == << <<d, 0>> >>

(* The text and language that a pool thread finds for a request.  Only the  *)
(* PDF branch sets the language, and no branch handles AUTO.                *)
Result(r) ==
    [data |-> Joined(CASE r.format = "PDF"   -> PdfImages(r.doc)
                       [] r.format = "IMAGE" -> Picture(r.doc)
                       [] r.format = "AUTO"  -> <<>>),
     lang |-> IF r.format = "PDF" THEN LangOf[r.doc] ELSE NoLang]

(* The states of a future that yields a text and a language.                *)
Pending == [state |-> "pending", data |-> <<>>, lang |-> NoLang]
Ready(p) == [state |-> "ready", data |-> p.data, lang |-> p.lang]
Thrown == [state |-> "thrown", data |-> <<>>, lang |-> NoLang]
Lost == [state |-> "lost", data |-> <<>>, lang |-> NoLang]

SameKey(r, s) == Hash[r.doc] = Hash[s.doc]
=============================================================================
