--------------------------------- MODULE Pdf ---------------------------------
(***************************************************************************)
(* Extraction of a PDF: `extract_with` of extract/pdf.rs.                  *)
(*                                                                         *)
(* Helpers run one after the other in a private directory and share one    *)
(* deadline.  pdfinfo counts the pages and pdftotext writes their texts,   *)
(* each ended by a form feed; a page without text is rendered to an image, *)
(* always under the same name, and recognised.  A unit of text is a pair   *)
(* of the page and the helper it comes from.                               *)
(***************************************************************************)
EXTENDS Integers, Sequences, SequencesExt

CONSTANTS
  Documents,   \* sequences of pages, "text" or "blank" or "none" each
  MaxPages, MaxOutput,
  OcrEnabled,
  MaxRead      \* bound on what is recognised on a page

ASSUME PdfAssumption ==
  /\ Documents \subseteq Seq({"text", "blank", "none"}) /\ OcrEnabled \in BOOLEAN
  /\ MaxPages \in Nat /\ MaxOutput \in Nat /\ MaxRead \in Nat

VARIABLES
  document, phase,
  texts,       \* what pdftotext wrote, page by page
  number,      \* the page that is treated
  image,       \* the page of the rendered image; 0 if there is none, -1 if it is no file
  page_text,   \* the text of the page
  text, locations

pdf_vars == <<document, phase, texts, number, image, page_text, text, locations>>

FormFeed == <<0, "form feed">>
Blank(page) == \A i \in DOMAIN page : page[i][2] = "space"

PdfInit ==
  /\ document \in Documents /\ phase = "info" /\ texts = << >> /\ number = 1 /\ image = 0
  /\ page_text = << >> /\ text = << >> /\ locations = << >>

\* A helper fails, the deadline has passed, or the directory is full.
ExtractionFails ==
  /\ phase \notin {"done", "failed"} /\ phase' = "failed"
  /\ UNCHANGED <<document, texts, number, image, page_text, text, locations>>

\* `page_count` and the limit of pages.
CountPages ==
  /\ phase = "info" /\ Len(document) \in 1..MaxPages /\ phase' = "text"
  /\ UNCHANGED <<document, texts, number, image, page_text, text, locations>>

\* What a page looks like to pdftotext: a text of a unit or two, blanks or nothing.
Looks(n) ==
  CASE document[n] = "text"  -> {<< <<n, "text">> >>, << <<n, "text">>, <<n, "text">> >>}
    [] document[n] = "blank" -> {<< <<n, "space">> >>}
    [] document[n] = "none"  -> {<< >>}

\* The helper may also stop early, or write a form feed inside a page, though
\* not both for one document.
Splits ==
  LET whole == {f \in [DOMAIN document -> UNION {Looks(n) : n \in DOMAIN document}] :
                  \A n \in DOMAIN document : f[n] \in Looks(n)}
  IN whole \cup {<< >>}
       \cup {SubSeq(f, 1, Len(document) - 1) : f \in whole}
       \cup {<< <<f[1][1]>>, <<f[1][2]>> >> \o Tail(f) : f \in {f \in whole : Len(f[1]) = 2}}

\* "Reject inconsistent output instead of attaching OCR to the wrong page."
Agrees(pages) == Len(pages) = Len(document)

ReadTexts ==
  /\ phase = "text"
  /\ \E pages \in Splits :
       \* no output at all is taken for blank pages
       LET all == IF pages = << >>
                  THEN [n \in DOMAIN document |-> << >>] ELSE pages
       IN Agrees(all) /\ Len(FlattenSeq(all)) + Len(all) <= MaxOutput /\ texts' = all
  /\ phase' = "page" /\ UNCHANGED <<document, number, image, page_text, text, locations>>

Recognised == Blank(texts[number]) /\ OcrEnabled

KeepText ==
  /\ phase = "page" /\ number <= Len(texts) /\ ~Recognised
  /\ page_text' = texts[number] /\ phase' = "append"
  /\ UNCHANGED <<document, texts, number, image, text, locations>>

\* pdftoppm succeeds.  It has written the image, something that is no file,
\* or nothing.
Render ==
  /\ phase = "page" /\ number <= Len(texts) /\ Recognised
  /\ image' \in {number, -1, image} /\ phase' = "inspect"
  /\ UNCHANGED <<document, texts, number, page_text, text, locations>>

\* A link, a device or an image that is too large is not read.
Inspect ==
  /\ phase = "inspect" /\ image > 0 /\ phase' = "recognise"
  /\ UNCHANGED <<document, texts, number, image, page_text, text, locations>>

\* What tesseract may write is what is left of the limit.
Recognise ==
  /\ phase = "recognise" /\ phase' = "remove"
  /\ \E n \in 0..MaxRead :
       n <= MaxOutput - Len(text) /\ page_text' = [i \in 1..n |-> <<image, "ocr">>]
  /\ UNCHANGED <<document, texts, number, image, text, locations>>

\* A wrong form: the image stays for the next page.
Left == image
Gone == 0
RemoveImage ==
  /\ phase = "remove" /\ image' = Gone /\ phase' = "append"
  /\ UNCHANGED <<document, texts, number, page_text, text, locations>>

AppendPage ==
  /\ phase = "append" /\ Len(text) + Len(page_text) + 1 <= MaxOutput
  /\ text' = text \o page_text \o <<FormFeed>>
  /\ locations' = Append(locations,
       [page |-> number, start |-> Len(text), end |-> Len(text) + Len(page_text),
        ocr |-> Recognised])
  /\ number' = number + 1 /\ page_text' = << >> /\ phase' = "page"
  /\ UNCHANGED <<document, texts, image>>

\* "PDF has no meaningful text" otherwise.
FinishPdf ==
  /\ phase = "page" /\ number > Len(texts) /\ phase' = "done"
  /\ \E i \in DOMAIN text : text[i][2] \in {"text", "ocr"}
  /\ UNCHANGED <<document, texts, number, image, page_text, text, locations>>

PdfNext ==
  \/ CountPages \/ ReadTexts \/ KeepText \/ Render \/ Inspect \/ Recognise \/ RemoveImage
  \/ AppendPage \/ FinishPdf \/ ExtractionFails
PdfSpec == PdfInit /\ [][PdfNext]_pdf_vars

-----------------------------------------------------------------------------
(* Properties.                                                             *)

\* The type invariant.
PdfTypeOK ==
  /\ phase \in {"info", "text", "page", "inspect", "recognise", "remove", "append", "done", "failed"}
  /\ Len(texts) <= MaxPages /\ number \in 1..MaxPages + 1 /\ image \in {-1} \cup 0..MaxPages
  /\ Len(text) <= MaxOutput /\ Len(locations) < number + 1

\* The range that is recorded for a page holds what that page has and nothing
\* of another: its own text, or what was recognised on the image of that very
\* page.  Every page has a range, in order, and they do not meet.
PagesAreTheirOwn ==
  /\ \A n \in DOMAIN locations :
       LET at == locations[n]
       IN /\ at.page = n /\ at.start <= at.end /\ at.end < Len(text)
          /\ \A i \in at.start + 1..at.end :
               /\ text[i][1] = n
               /\ (text[i][2] = "ocr") = at.ocr
          /\ n > 1 => at.start = locations[n - 1].end + 1
  /\ phase = "done" => Len(locations) = Len(document)
=============================================================================
