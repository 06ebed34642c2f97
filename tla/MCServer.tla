------------------------------ MODULE MCServer ------------------------------
(***************************************************************************)
(* The server outside the pool, for TLC: the life of the process, one call *)
(* of the renderer, one upload.  They share no state while they run, so a  *)
(* behaviour is one of one of them, the part that the initial state picks; *)
(* the others stay at one of their initial states.                         *)
(***************************************************************************)
EXTENDS ServerLifecycle, Rendering, HttpRequest, TLC

(* Three labels, one with no entry in lang_to_lang; a language that is made *)
(* of several trained data; one that fastText knows and Tesseract does not. *)
ThreeLabels == {[code |-> "ar", length |-> 11], [code |-> "nb", length |-> 11], [code |-> "ceb", length |-> 12]}
Names == "ar" :> "ara" @@ "nb" :> "nob"
TrainedData == "eng" :> {"eng"} @@ "ara" :> {"ara", "fas"} @@ "fas" :> {"fas"}
SomeWords == {"", "xx", "ara", "eng", "fas", "nob", "XXX"}
Strings == {<<"">>, <<"ara">>, <<"fas", "", "xx">>, <<"eng", "fas">>}

VARIABLE part \* which part runs

mcvars == <<part, vars, renderingVars, uploadVars>>

-----------------------------------------------------------------------------
Nothing ==
    /\ upload = [file |-> Absent, format |-> Absent, language |-> Absent]
    /\ f = "other" /\ model = FALSE /\ line = "none" /\ guess = <<>>

MCInit ==
    /\ part \in {"lifecycle", "rendering", "upload"}
    /\ Init /\ RenderingInit /\ UploadInit
    /\ part = "rendering" \/ (doc = "none" /\ pages = <<>> /\ only_text = FALSE)
    /\ part = "upload" \/ Nothing

Unused ==
    /\ UNCHANGED part
    /\ part = "lifecycle" \/ UNCHANGED vars
    /\ part = "rendering" \/ UNCHANGED renderingVars
    /\ part = "upload" \/ UNCHANGED uploadVars

MCNext ==
    /\ Unused
    /\ \/ part = "lifecycle" /\ Next
       \/ part = "rendering" /\ RenderingNext
       \/ part = "upload" /\ UploadNext

(* The fairness of each part.                                               *)
MCSpec ==
    /\ MCInit /\ [][MCNext]_mcvars
    /\ WF_mcvars(part = "lifecycle" /\ Starting /\ Unused)
    /\ WF_mcvars(part = "lifecycle" /\ Ending /\ Unused)
    /\ WF_mcvars(part = "lifecycle" /\ ShutdownThread /\ Unused)
    /\ WF_mcvars(part = "lifecycle" /\ EndStream /\ Unused)
    /\ WF_mcvars(part = "lifecycle" /\ RunHttp /\ Unused)
    /\ WF_mcvars(part = "lifecycle" /\ Handing /\ Unused)
    /\ WF_mcvars(part = "lifecycle" /\ LeaveHttp /\ Unused)
    /\ WF_mcvars(part = "lifecycle" /\ AnswerHttp /\ Unused)
    /\ WF_mcvars(part = "lifecycle" /\ Serving /\ Unused)
    /\ WF_mcvars(part = "rendering" /\ RenderingNext /\ Unused)

-----------------------------------------------------------------------------
(* What must end: an HTTP request accepted, although one handler at a time  *)
(* blocks in push, the shutdown of the server once the accepting thread has *)
(* begun to run, and a call of the renderer, whatever the errors            *)
(* (MyController.hpp:90, App.cpp:36-40, 65-78, poppler_worker.cpp:11-87).   *)
ServerEnds ==
    /\ HttpServed /\ StopReturns
    /\ (part = "rendering") ~> (part = "rendering" /\ Returned)
=============================================================================
