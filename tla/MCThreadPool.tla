---------------------------- MODULE MCThreadPool ----------------------------
(* Small instances of ThreadPool for TLC: a report of two pages, and a      *)
(* letter whose only page is blank unless it is read as a picture; they     *)
(* share a key or have one each.                                            *)
EXTENDS ThreadPool, TLC

CONSTANTS report, letter

MCDocs == {report, letter}
OneKey == report :> "k1" @@ letter :> "k1"
TwoKeys == report :> "k1" @@ letter :> "k2"
MCPages == report :> 2 @@ letter :> 1
MCBlank == {<<letter, 1>>}
MCLangOf == report :> "eng" @@ letter :> "XXX"

AnyRequest == [doc : MCDocs, format : Formats]
ReportPdf == [doc |-> report, format |-> "PDF"]
ReportImage == [doc |-> report, format |-> "IMAGE"]
LetterPdf == [doc |-> letter, format |-> "PDF"]
LetterImage == [doc |-> letter, format |-> "IMAGE"]
Mixed == {ReportPdf, ReportImage, LetterPdf}
Colliding == {ReportPdf, LetterImage}

Symmetric == Permutations(Workers) \cup Permutations(Callers)
=============================================================================
