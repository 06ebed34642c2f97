----------------------------- MODULE HttpRequest -----------------------------
(***************************************************************************)
(* One upload to POST /worker (http/controller/MyController.hpp), from its *)
(* parts to the message that is pushed, and what the pool thread that      *)
(* finds nothing in the cache makes of its format and languages            *)
(* (main_worker.cpp:76-101).                                               *)
(***************************************************************************)
EXTENDS Languages

CONSTANTS
    Asked,    \* token sequences clients send as language
    Absent

ASSUME AskedAssumption == Asked \subseteq Seq(Words)

Formats == {"AUTO", "IMAGE", "PDF"}

VARIABLES
    upload,   \* the parts file, format, language
    f,        \* the local variable f, not initialised
    model,    \* has the thread's fastText model been loaded?
    line,     \* the first line of the PDF's text: "none" if it has no text
    guess,    \* what fastText predicts for it
    message,  \* the request
    answer,   \* language, and the trained data each picture was read with
    stage

uploadVars == <<upload, f, model, line, guess, message, answer, stage>>
inputs == <<upload, model, line, guess>>

NoMessage == [format |-> Absent, language |-> <<>>]
NoAnswer == [language |-> "", read |-> {}]

UploadInit ==
    /\ upload \in [file : {"doc", Absent}, format : Formats \cup {"other", Absent}, language : Asked \cup {Absent}]
    /\ f \in Formats \cup {"other"}
    /\ model \in BOOLEAN
    /\ line \in {"none", "text"} /\ guess \in Predictions
    /\ message = NoMessage /\ answer = NoAnswer
    /\ stage = "uploaded"

Go(l) == stage' = l /\ UNCHANGED <<inputs, f, message, answer>>

-----------------------------------------------------------------------------
Missing == upload.file = Absent \/ upload.format = Absent

Refuse ==
    /\ stage = "uploaded" /\ Missing
    /\ Go("refused")

(* getPayload of a part that is not there: nothing asks whether it is.      *)
Dereference ==
    /\ stage = "uploaded" /\ ~Missing /\ upload.language = Absent
    /\ Go("crashed")

(* Formats_Parse sets f only to a name it knows.                            *)
Parsed == IF upload.format \in Formats THEN upload.format ELSE f

Push ==
    /\ stage = "uploaded" /\ ~Missing /\ upload.language # Absent
    /\ f' = Parsed
    /\ message' = [format |-> Parsed, language |-> upload.language]
    /\ stage' = "pushed"
    /\ UNCHANGED <<inputs, answer>>

-----------------------------------------------------------------------------
(* The text of a picture is read in the languages asked for.                *)
ReadPicture ==
    /\ stage = "pushed" /\ message.format = "IMAGE"
    /\ answer' = [language |-> "", read |-> ParseLang(message.language)]
    /\ stage' = "answered"
    /\ UNCHANGED <<inputs, f, message>>

(* predictLine reads the first line; without a model only the end of the    *)
(* text keeps it from the dictionary that is not there.                     *)
NoDictionary ==
    /\ stage = "pushed" /\ message.format = "PDF" /\ ~model /\ line # "none"
    /\ Go("crashed")

Identified == IF line = "none" THEN RunWork(<<>>) ELSE RunWork(guess)

ReadPdf ==
    /\ stage = "pushed" /\ message.format = "PDF" /\ (model \/ line = "none")
    /\ answer' = [language |-> Identified, read |-> ParseLang(Append(message.language, Identified))]
    /\ stage' = "answered"
    /\ UNCHANGED <<inputs, f, message>>

ReadNothing ==
    /\ stage = "pushed" /\ message.format \notin {"IMAGE", "PDF"}
    /\ Go("answered")

UploadNext ==
    \/ Refuse \/ Dereference \/ Push \/ ReadPicture \/ NoDictionary \/ ReadPdf \/ ReadNothing

UploadSpec == UploadInit /\ [][UploadNext]_uploadVars

-----------------------------------------------------------------------------
(* Exactly the uploads with all three parts are pushed, and one that is     *)
(* refused lacks the file or the format (MyController.hpp:81-90).           *)
WholeOrRefused ==
    /\ stage \in {"pushed", "answered"} => Absent \notin {upload.file, upload.format, upload.language}
    /\ stage = "refused" => upload.file = Absent \/ upload.format = Absent
    /\ stage # "uploaded" /\ Absent \in {upload.file, upload.format} => stage = "refused"

(* A known format is pushed as it was sent, and answered by its branch; an  *)
(* unknown one may be answered by any (MyController.hpp:85-87,              *)
(* main_worker.cpp:76-82).                                                  *)
FormatKept ==
    stage = "answered" /\ upload.format \in Formats =>
        /\ upload.format = "AUTO" <=> answer.read = {}
        /\ upload.format = "PDF" <=> answer.language # ""

(* The pictures of a PDF are read in English, in each language asked for    *)
(* that is supported and in the one its first line is in, whatever the      *)
(* client's string has in between (main_worker.cpp:89-90,                   *)
(* tesseract_worker.cpp:40-67).                                             *)
ReadAsDetected ==
    stage = "answered" /\ message.format = "PDF" =>
        /\ English \in answer.read
        /\ \A t \in DOMAIN SupportLang :
              (\E k \in DOMAIN message.language : message.language[k] = t) \/ answer.language = t
              => SupportLang[t] \subseteq answer.read
        /\ \A d \in answer.read : \E t \in DOMAIN SupportLang : d \in SupportLang[t]

(* A label whose code is in the table gives its language, with any          *)
(* probability and a code of any length: the threshold and the length of    *)
(* the substring never matter (fasttext_worker.cpp:36-44).                  *)
LabelDecides ==
    stage = "answered" /\ message.format = "PDF" /\ line = "text" =>
        answer.language = IF guess # <<>> /\ guess[1].label.code \in DOMAIN LangToLang
                          THEN LangToLang[guess[1].label.code] ELSE Unknown

(* Exactly the uploads with all three parts are pushed, a known format as   *)
(* it was sent; a PDF is read in English, in the supported ones of the      *)
(* languages asked for and in the one detected, where a label in the table  *)
(* decides with any probability and a code of any length                    *)
(* (MyController.hpp:81-90, main_worker.cpp:76-90,                          *)
(* fasttext_worker.cpp:36-44, tesseract_worker.cpp:40-67).                  *)
UploadsRead == WholeOrRefused /\ FormatKept /\ ReadAsDetected /\ LabelDecides
=============================================================================
