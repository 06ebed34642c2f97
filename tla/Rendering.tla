------------------------------ MODULE Rendering ------------------------------
(***************************************************************************)
(* PopplerWorker (workers/poppler_worker.cpp): rendering_start goes over   *)
(* the pages of a PDF, collects their texts and renders the first of them, *)
(* write_png_memory encodes an image row by row.  An error in libpng is a  *)
(* longjmp to the place the last setjmp that was passed has recorded: the  *)
(* first one frees the structures, the one in the loop does not.           *)
(*                                                                         *)
(* Which pages can be made, how many rows an image has and when libpng     *)
(* fails are anything.                                                     *)
(***************************************************************************)
EXTENDS Integers, Sequences, FiniteSets

CONSTANTS
    MaxRender,   \* Config::max_render
    MaxPages, MaxRows  \* bounds: of a document, of an image

ASSUME RenderingAssumption == MaxRender \in Nat /\ MaxPages \in Nat /\ MaxRows \in Nat

VARIABLES
    doc,         \* "none": cannot be read, "locked", "open"
    pages,       \* pages[i]: can page i - 1 be made?
    only_text,   \* the parameter
    i, utf8, images, \* of rendering_start
    at,          \* where the worker is
    rows, y,     \* of the image that is written
    jump,        \* where an error of libpng goes: "header", "rows", "nowhere"
    structs,     \* png_ptr and info_ptr exist
    leaks        \* structures that were never destroyed

document == <<doc, pages, only_text>>
result == <<i, utf8, images>>
png == <<rows, y, jump, structs, leaks>>
renderingVars == <<document, result, at, png>>

RenderingInit ==
    /\ doc \in {"none", "locked", "open"} /\ only_text \in BOOLEAN
    /\ \E n \in 0..MaxPages : pages \in [1..n -> BOOLEAN]
    /\ i = 0 /\ utf8 = <<>> /\ images = <<>>
    /\ at = "open" /\ rows = 0 /\ y = 0 /\ jump = "nowhere" /\ structs = FALSE /\ leaks = 0

-----------------------------------------------------------------------------
Open ==
    /\ at = "open"
    /\ at' = IF doc = "open" THEN "page" ELSE "end"
    /\ UNCHANGED <<document, result, png>>

NextPage == i' = i + 1 /\ at' = "page" /\ UNCHANGED <<document, utf8, images, png>>

SkipPage ==
    /\ at = "page" /\ i < Len(pages) /\ ~pages[i + 1]
    /\ NextPage

(* The text of page i, and its picture unless it is too far on.             *)
TooFar == only_text \/ i > MaxRender

ReadPage ==
    /\ at = "page" /\ i < Len(pages) /\ pages[i + 1]
    /\ utf8' = Append(utf8, i)
    /\ IF TooFar THEN i' = i + 1 /\ at' = "page"
       ELSE i' = i /\ at' = "create"
    /\ UNCHANGED <<document, images, png>>

EndPages ==
    /\ at = "page" /\ i = Len(pages)
    /\ at' = "end"
    /\ UNCHANGED <<document, result, png>>

-----------------------------------------------------------------------------
(* The string of an image: its page, the rows written and the rows it has.  *)
NoImage == <<>>

(* write_png_memory returns s for page i.                                   *)
ReturnImage(s) ==
    /\ images' = Append(images, s)
    /\ i' = i + 1 /\ at' = "page" /\ jump' = "nowhere"
    /\ UNCHANGED <<document, utf8, rows>>

Create ==
    /\ at = "create"
    /\ rows' \in 0..MaxRows /\ y' = 0
    /\ structs' = TRUE /\ jump' = "header" /\ at' = "header"
    /\ UNCHANGED <<document, result, leaks>>

(* One of the two structures cannot be made; the first is freed.            *)
CannotCreate ==
    /\ at = "create"
    /\ ReturnImage(NoImage)
    /\ UNCHANGED <<y, structs, leaks>>

Header ==
    /\ at = "header"
    /\ at' = "rows"
    /\ UNCHANGED <<document, result, png>>

(* A row, and after it the setjmp of the loop.                              *)
WriteRow ==
    /\ at = "rows" /\ y < rows
    /\ y' = y + 1 /\ jump' = "rows"
    /\ UNCHANGED <<document, result, at, rows, structs, leaks>>

(* png_write_end refuses an image without a row.                            *)
WriteEnd ==
    /\ at = "rows" /\ y = rows /\ rows > 0
    /\ structs' = FALSE
    /\ ReturnImage(<<i, y, rows>>)
    /\ UNCHANGED <<y, leaks>>

(* libpng fails in the header, in a row or at the end.                      *)
Fails == at = "header" \/ at = "rows"

(* Slip: what is in the stream so far is returned.                          *)
KeepRows ==
    /\ Fails /\ jump = "rows"
    /\ structs' = FALSE /\ leaks' = leaks + 1
    /\ ReturnImage(<<i, y, rows>>)
    /\ UNCHANGED y

FailHeader ==
    /\ Fails /\ jump = "header"
    /\ structs' = FALSE
    /\ ReturnImage(NoImage)
    /\ UNCHANGED <<y, leaks>>

FailRows ==
    /\ Fails /\ jump = "rows"
    /\ structs' = FALSE /\ leaks' = leaks + 1
    /\ ReturnImage(NoImage)
    /\ UNCHANGED y

RenderingNext ==
    \/ Open \/ SkipPage \/ ReadPage \/ EndPages
    \/ Create \/ CannotCreate \/ Header \/ WriteRow \/ WriteEnd \/ FailHeader \/ FailRows

RenderingSpec == RenderingInit /\ [][RenderingNext]_renderingVars /\ WF_renderingVars(RenderingNext)

-----------------------------------------------------------------------------
Made == {n \in 0..(Len(pages) - 1) : pages[n + 1]}

RenderingTypeOK ==
    /\ i \in 0..Len(pages) /\ y \in 0..MaxRows
    /\ at \in {"header", "rows"} <=> structs
    /\ (jump = "nowhere") <=> at \notin {"header", "rows"}

(* The text is that of all pages that can be made, in their order; pictures *)
(* are made of those among the first MaxRender + 1 pages, whether the       *)
(* others could be made or not, and none if only text is asked for          *)
(* (poppler_worker.cpp:64-83).                                              *)
PagesAsAsked ==
    at = "end" /\ doc = "open" =>
        /\ {utf8[k] : k \in DOMAIN utf8} = Made
        /\ \A k, n \in DOMAIN utf8 : k < n => utf8[k] < utf8[n]
        /\ Len(images) = IF only_text THEN 0 ELSE Cardinality({n \in Made : n <= MaxRender})

(* The k-th picture, if there is one, is that of the k-th page that can be  *)
(* made (poppler_worker.cpp:75-82).                                         *)
PicturesInOrder ==
    \A k \in DOMAIN images : images[k] # NoImage =>
        images[k][1] \in Made /\ Cardinality({n \in Made : n < images[k][1]}) = k - 1

(* An image is whole or empty: whatever fails in the middle, no part of it  *)
(* is handed to the recognition (poppler_worker.cpp:106-111, 139-152).      *)
WholeOrEmpty ==
    \A k \in DOMAIN images :
        images[k] = NoImage \/ images[k][2] = images[k][3]

(* Structures are lost for the images that failed after their first row     *)
(* only: each is then an empty one (poppler_worker.cpp:106-111, 140-143).   *)
LeaksWithEmpties ==
    leaks <= Cardinality({k \in DOMAIN images : images[k] = NoImage})

(* The text is that of all pages that can be made, the pictures those of    *)
(* the first MaxRender + 1 pages, both in their order; whatever fails in    *)
(* the middle, an image is whole or empty, and what libpng has allocated is *)
(* lost only with an empty one (poppler_worker.cpp:64-83, 106-111,          *)
(* 139-152).                                                                *)
RenderedWhole == RenderingTypeOK /\ PagesAsAsked /\ PicturesInOrder /\ WholeOrEmpty /\ LeaksWithEmpties

(* Whatever the document and the errors, the call returns, with a picture   *)
(* for each page it began to render (poppler_worker.cpp:11-87).             *)
Returned == at = "end"
Returns == <>Returned
=============================================================================
