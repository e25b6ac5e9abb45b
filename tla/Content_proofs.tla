--------------------------- MODULE Content_proofs ----------------------------
(***************************************************************************)
(* Proofs about what becomes of a document: the pages of a PDF, the        *)
(* windows of a text, and the ranks of what a search finds.                *)
(***************************************************************************)
EXTENDS Windows, Pdf, Ranking, SequenceTheorems, FiniteSetTheorems, TLAPS

-----------------------------------------------------------------------------
(***************************************************************************)
(* For texts of any length, any number of tokens and any window: what      *)
(* `from_offsets` of chunk/mod.rs returns covers the text.                 *)
(*                                                                         *)
(* The invariant says of the last window what the next pass of the loop    *)
(* relies on: it was full, it stopped before the last token, and its bytes *)
(* reach to the token after it.                                            *)
(***************************************************************************)
Chunk == [token_start : Nat, token_end : Nat, byte_start : Nat, byte_end : Nat]

Input ==
  /\ length \in Nat /\ offsets \in Seq(Nat \X Nat) /\ size \in Nat /\ overlap \in Nat
  /\ \A i \in 1..tokens : offsets[i][2] <= length
  /\ \A i, j \in 1..tokens :
       i <= j => offsets[i][1] <= offsets[j][1] /\ offsets[i][2] <= offsets[j][2]
  /\ state \in {"check", "loop", "done", "failed"} /\ start \in Nat /\ chunks \in Seq(Chunk)
  /\ state = "check" => chunks = << >> /\ start = 0
  /\ chunks # << >> \/ state = "loop" => size >= 3 /\ overlap < size - 2

\* A chunk alone, and a chunk after the one before it.
Holds(at) ==
  /\ at.token_end - at.token_start \in 1..capacity
  /\ \A i \in at.token_start + 1..at.token_end :
       at.byte_start <= offsets[i][1] /\ offsets[i][2] <= at.byte_end
Continues(at, before) ==
  /\ at.token_start = before.token_end - overlap
  /\ at.token_end > before.token_end
  /\ at.byte_start <= before.byte_end
Covered(cs) ==
  \A n \in 1..Len(cs) :
    /\ Holds(cs[n])
    /\ n = 1 => cs[n].token_start = 0 /\ cs[n].byte_start = 0
    /\ n > 1 => Continues(cs[n], cs[n - 1])

\* The loop goes on: what the next window begins with.
GoesOn ==
  state = "loop" =>
    /\ chunks = << >> => start = 0
    /\ chunks # << >> =>
         LET last == chunks[Len(chunks)]
         IN /\ last.token_end \in capacity..tokens - 1
            /\ start = last.token_end - overlap
            /\ offsets[last.token_end + 1][1] <= last.byte_end
HasEnded ==
  state = "done" /\ tokens > 0 =>
    /\ chunks # << >>
    /\ chunks[Len(chunks)].token_end = tokens /\ chunks[Len(chunks)].byte_end = length

WindowsInv == Input /\ Covered(chunks) /\ GoesOn /\ HasEnded

LEMMA WindowsInitHolds ==
  ASSUME WindowsInit PROVE WindowsInv
<1>1. PICK t \in Texts : length = t[1] /\ offsets = t[2]
  BY DEF WindowsInit
<1>2. PICK s \in Sizes : size = s[1] /\ overlap = s[2]
  BY DEF WindowsInit
<1>3. size \in Nat /\ overlap \in Nat
  BY <1>2, WindowsAssumption
<1>4. DOMAIN offsets = 1..tokens
  BY <1>1, WindowsAssumption DEF tokens
<1>5. /\ length \in Nat /\ offsets \in Seq(Nat \X Nat)
      /\ \A i \in DOMAIN offsets : offsets[i][2] <= length
      /\ \A i, j \in DOMAIN offsets :
           i <= j => offsets[i][1] <= offsets[j][1] /\ offsets[i][2] <= offsets[j][2]
  BY <1>1, WindowsAssumption, Zenon
<1>6. /\ \A i \in 1..tokens : offsets[i][2] <= length
      /\ \A i, j \in 1..tokens :
           i <= j => offsets[i][1] <= offsets[j][1] /\ offsets[i][2] <= offsets[j][2]
  BY <1>4, <1>5, Zenon
<1>7. Input
  BY <1>3, <1>5, <1>6 DEF WindowsInit, Input
<1> QED
  BY <1>7 DEF WindowsInit, WindowsInv, Covered, GoesOn, HasEnded

\* The window of a pass: its tokens and its bytes.
LEMMA WindowHolds ==
  ASSUME WindowsInv, state = "loop", start < tokens
  PROVE  /\ End \in start + 1..tokens /\ End - start \in 1..capacity
         /\ End # tokens => End = start + capacity
         /\ ByteStart \in Nat /\ ByteEnd \in Nat
         /\ \A i \in start + 1..End : ByteStart <= offsets[i][1] /\ offsets[i][2] <= ByteEnd
         /\ End # tokens => offsets[End + 1][1] <= ByteEnd
<1>1. size \in Nat /\ overlap \in Nat /\ size >= 3 /\ start \in Nat /\ tokens \in Nat /\ length \in Nat
  BY DEF WindowsInv, Input, tokens
<1>2. End \in start + 1..tokens /\ End - start \in 1..capacity /\ (End # tokens => End = start + capacity)
  BY <1>1 DEF End, Lower, capacity
<1>3. \A i \in 1..tokens : offsets[i][1] \in Nat /\ offsets[i][2] \in Nat
  BY DEF WindowsInv, Input, tokens
<1>4. ByteStart \in Nat /\ ByteEnd \in Nat
  BY <1>1, <1>2, <1>3 DEF ByteStart, ByteEnd, Higher
<1>5. ASSUME NEW i \in start + 1..End PROVE ByteStart <= offsets[i][1]
  <2>1. i \in 1..tokens /\ start + 1 \in 1..tokens /\ start + 1 <= i
    BY <1>1, <1>2
  <2>2. offsets[start + 1][1] <= offsets[i][1] /\ offsets[i][1] \in Nat
    BY <1>3, <2>1 DEF WindowsInv, Input
  <2> QED
    BY <2>2 DEF ByteStart
<1>6. ASSUME NEW i \in start + 1..End PROVE offsets[i][2] <= ByteEnd
  <2>1. i \in 1..tokens /\ End \in 1..tokens /\ i <= End
    BY <1>1, <1>2
  <2>2. offsets[i][2] <= offsets[End][2] /\ offsets[i][2] <= length
    BY <2>1 DEF WindowsInv, Input
  <2>3. CASE End = tokens
    BY <2>2, <2>3 DEF ByteEnd
  <2>4. CASE End # tokens
    <3>1. End + 1 \in 1..tokens
      BY <1>1, <1>2, <2>4
    <3> QED
      BY <1>3, <2>1, <2>2, <2>4, <3>1 DEF ByteEnd, Higher
  <2> QED
    BY <2>3, <2>4
<1>7. End # tokens => offsets[End + 1][1] <= ByteEnd
  <2> SUFFICES ASSUME End # tokens PROVE offsets[End + 1][1] <= ByteEnd
    OBVIOUS
  <2>1. End \in 1..tokens /\ End + 1 \in 1..tokens
    BY <1>1, <1>2
  <2> QED
    BY <1>3, <2>1 DEF ByteEnd, Higher
<1> QED
  BY <1>2, <1>4, <1>5, <1>6, <1>7

LEMMA WindowKeeps ==
  ASSUME WindowsInv, Window PROVE WindowsInv'
<1> DEFINE new == [token_start |-> start, token_end |-> End,
                   byte_start |-> ByteStart, byte_end |-> ByteEnd]
           k == Len(chunks)
<1>1. /\ state = "loop" /\ start < tokens /\ chunks' = Append(chunks, new)
      /\ length' = length /\ offsets' = offsets /\ size' = size /\ overlap' = overlap
  BY DEF Window
<1>2. /\ size \in Nat /\ overlap \in Nat /\ start \in Nat /\ tokens \in Nat /\ length \in Nat
      /\ chunks \in Seq(Chunk) /\ k \in Nat /\ size >= 3 /\ overlap < size - 2
  BY <1>1 DEF WindowsInv, Input, tokens
<1>3. /\ End \in start + 1..tokens /\ End - start \in 1..capacity
      /\ End # tokens => End = start + capacity
      /\ ByteStart \in Nat /\ ByteEnd \in Nat
      /\ \A i \in start + 1..End : ByteStart <= offsets[i][1] /\ offsets[i][2] <= ByteEnd
      /\ End # tokens => offsets[End + 1][1] <= ByteEnd
  BY <1>1, WindowHolds
<1>4. new \in Chunk
  BY <1>2, <1>3 DEF Chunk
<1>5. /\ chunks' \in Seq(Chunk) /\ Len(chunks') = k + 1 /\ chunks' # << >>
      /\ chunks'[k + 1] = new /\ \A n \in 1..k : chunks'[n] = chunks[n]
  BY <1>1, <1>2, <1>4
<1>6. \/ End = tokens /\ state' = "done" /\ start' = start
      \/ End # tokens /\ state' = "loop" /\ start' = End - overlap
  BY <1>1 DEF Window
<1>7. start' \in Nat /\ state' \in {"loop", "done"}
  BY <1>2, <1>3, <1>6 DEF capacity
<1>8. Input'
  BY <1>1, <1>2, <1>5, <1>7 DEF WindowsInv, Input, tokens
<1>9. new.token_start = start /\ new.token_end = End /\ new.byte_start = ByteStart /\ new.byte_end = ByteEnd
  OBVIOUS
<1> HIDE DEF new
<1>10. Covered(chunks)'
  <2> SUFFICES ASSUME NEW n \in 1..k + 1
               PROVE  /\ Holds(chunks'[n])
                      /\ n = 1 => chunks'[n].token_start = 0 /\ chunks'[n].byte_start = 0
                      /\ n > 1 => Continues(chunks'[n], chunks'[n - 1])
    BY <1>1, <1>5 DEF Covered, Holds, Continues, capacity
  <2>1. CASE n \in 1..k
    <3>1. chunks'[n] = chunks[n] /\ (n > 1 => chunks'[n - 1] = chunks[n - 1])
      BY <1>2, <1>5, <2>1
    <3> QED
      BY <2>1, <3>1 DEF WindowsInv, Covered
  <2>2. CASE n = k + 1
    <3>1. Holds(new)
      BY <1>3, <1>9 DEF Holds
    <3>2. CASE k = 0
      <4>1. chunks = << >>
        BY <1>2, <3>2
      <4>2. start = 0
        BY <1>1, <4>1 DEF WindowsInv, GoesOn
      <4> QED
        BY <1>5, <1>9, <2>2, <3>1, <3>2, <4>2 DEF ByteStart
    <3>3. CASE k > 0
      <4> DEFINE last == chunks[k]
      <4>1. chunks # << >> /\ k \in 1..k /\ last \in Chunk
        BY <1>2, <3>3
      <4>2. /\ last.token_end \in capacity..tokens - 1 /\ start = last.token_end - overlap
            /\ offsets[last.token_end + 1][1] <= last.byte_end
        BY <1>1, <4>1 DEF WindowsInv, GoesOn
      <4>3. last.token_end \in Nat /\ last.byte_end \in Nat /\ capacity \in Nat
        BY <1>2, <4>1 DEF Chunk, capacity
      <4> HIDE DEF last
      <4>4. End > last.token_end /\ ByteStart <= last.byte_end
        <5> DEFINE te == last.token_end
                   i == start + 1
                   j == te + 1
        <5>1. /\ te \in Nat /\ te <= tokens - 1 /\ start = te - overlap
              /\ overlap \in Nat /\ tokens \in Nat /\ capacity \in Nat /\ overlap < capacity
          BY <1>2, <4>2, <4>3 DEF capacity
        <5>2. /\ start \in Nat /\ start < tokens /\ End \in start + 1..tokens
              /\ End # tokens => End = start + capacity
          BY <1>1, <1>2, <1>3
        <5> HIDE DEF te
        <5>3. End > te
          BY <5>1, <5>2
        <5>4. i \in 1..tokens /\ j \in 1..tokens /\ i <= j
          BY <5>1, <5>2
        <5>5. offsets[i][1] <= offsets[j][1] /\ offsets[i][1] \in Nat /\ offsets[j][1] \in Nat
          <6>1. /\ offsets \in Seq(Nat \X Nat) /\ tokens = Len(offsets)
                /\ \A x, y \in 1..tokens : x <= y => offsets[x][1] <= offsets[y][1]
            BY DEF WindowsInv, Input, tokens
          <6> HIDE DEF i, j
          <6>2. offsets[i][1] <= offsets[j][1]
            BY <5>4, <6>1
          <6>3. offsets[i] \in Nat \X Nat /\ offsets[j] \in Nat \X Nat
            BY <5>4, <6>1
          <6> QED
            BY <6>2, <6>3
        <5>6. offsets[i][1] <= last.byte_end
          BY <4>2, <4>3, <5>5 DEF te
        <5> QED
          BY <4>3, <5>3, <5>6 DEF ByteStart, te
      <4>5. Continues(new, last)
        BY <1>9, <4>2, <4>4 DEF Continues
      <4>6. chunks'[n] = new /\ chunks'[n - 1] = last /\ n # 1
        BY <1>2, <1>5, <2>2, <3>3 DEF last
      <4> QED
        BY <3>1, <4>5, <4>6
    <3> QED
      BY <1>2, <3>2, <3>3
  <2> QED
    BY <1>2, <2>1, <2>2
<1>11. GoesOn'
  <2> SUFFICES ASSUME state' = "loop"
               PROVE  /\ new.token_end \in capacity..tokens - 1
                      /\ start' = new.token_end - overlap
                      /\ offsets[new.token_end + 1][1] <= new.byte_end
    BY <1>1, <1>5 DEF GoesOn, capacity, tokens
  <2> QED
    BY <1>2, <1>3, <1>6, <1>9 DEF capacity
<1>12. HasEnded'
  <2>1. state' = "done" => new.token_end = tokens /\ new.byte_end = length
    BY <1>6, <1>9 DEF ByteEnd
  <2> QED
    BY <1>1, <1>5, <2>1 DEF HasEnded, tokens
<1> QED
  BY <1>8, <1>10, <1>11, <1>12 DEF WindowsInv

LEMMA OthersKeep ==
  ASSUME WindowsInv, Check \/ Invalid \/ NoTokens \/ UNCHANGED windows_vars PROVE WindowsInv'
<1>1. /\ length' = length /\ offsets' = offsets /\ size' = size /\ overlap' = overlap
      /\ start' = start /\ chunks' = chunks
  BY DEF Check, Invalid, NoTokens, windows_vars
<1>2. Covered(chunks)'
  BY <1>1 DEF WindowsInv, Covered, Holds, Continues, capacity
<1>3. CASE Check
  <2>1. chunks = << >> /\ start = 0 /\ Len(chunks) = 0
    BY <1>3 DEF Check, WindowsInv, Input
  <2>2. Input' /\ GoesOn' /\ HasEnded'
    BY <1>1, <1>3, <2>1 DEF Check, WindowsInv, Input, GoesOn, HasEnded, tokens, capacity
  <2> QED
    BY <1>2, <2>2 DEF WindowsInv
<1>4. CASE Invalid
  <2>1. Input' /\ GoesOn' /\ HasEnded'
    BY <1>1, <1>4 DEF Invalid, WindowsInv, Input, GoesOn, HasEnded, tokens, capacity
  <2> QED
    BY <1>2, <2>1 DEF WindowsInv
<1>5. CASE NoTokens
  <2>1. tokens = 0
    <3> SUFFICES ASSUME tokens # 0 PROVE FALSE
      OBVIOUS
    <3>1. tokens \in Nat /\ overlap \in Nat /\ start >= tokens /\ state = "loop"
      BY <1>5 DEF NoTokens, WindowsInv, Input, tokens
    <3>2. chunks # << >>
      BY <3>1 DEF WindowsInv, GoesOn
    <3> DEFINE last == chunks[Len(chunks)]
    <3>3. last \in Chunk
      BY <3>2 DEF WindowsInv, Input
    <3>4. last.token_end <= tokens - 1 /\ start = last.token_end - overlap
      BY <3>1, <3>2 DEF WindowsInv, GoesOn
    <3> QED
      BY <3>1, <3>3, <3>4 DEF Chunk
  <2>2. Input' /\ GoesOn' /\ HasEnded'
    BY <1>1, <1>5, <2>1 DEF NoTokens, WindowsInv, Input, GoesOn, HasEnded, tokens, capacity
  <2> QED
    BY <1>2, <2>2 DEF WindowsInv
<1>6. CASE UNCHANGED windows_vars
  <2>1. Input' /\ GoesOn' /\ HasEnded'
    BY <1>1, <1>6 DEF windows_vars, WindowsInv, Input, GoesOn, HasEnded, tokens, capacity
  <2> QED
    BY <1>2, <2>1 DEF WindowsInv
<1> QED
  BY <1>3, <1>4, <1>5, <1>6

LEMMA WindowsInvariant == WindowsSpec => []WindowsInv
<1>1. WindowsInit => WindowsInv
  BY WindowsInitHolds
<1>2. WindowsInv /\ [WindowsNext]_windows_vars => WindowsInv'
  BY WindowKeeps, OthersKeep DEF WindowsNext
<1> QED
  BY <1>1, <1>2, PTL DEF WindowsSpec

\* Whatever the text and the window, if the ranges of the tokens are in order,
\* the windows lose no token and no byte, overlap by as much as was asked for,
\* and are no longer than the model takes.
THEOREM Coverage == WindowsSpec => []WindowsCover
<1>1. WindowsInv => WindowsCover
  <2> SUFFICES ASSUME WindowsInv PROVE WindowsCover
    OBVIOUS
  <2>1. DOMAIN chunks = 1..Len(chunks)
    BY DEF WindowsInv, Input
  <2> QED
    BY <2>1 DEF WindowsInv, Covered, Holds, Continues, HasEnded, WindowsCover
<1> QED
  BY <1>1, WindowsInvariant, PTL

\* Every window takes at least one token more than the one before.
WindowsBounds ==
  /\ start <= tokens
  /\ \A n \in 1..Len(chunks) : chunks[n].token_end \in n..tokens

LEMMA WindowsBoundsKept ==
  ASSUME WindowsInv, WindowsInv', WindowsBounds, [WindowsNext]_windows_vars
  PROVE  WindowsBounds'
<1>1. CASE Window
  <2> DEFINE k == Len(chunks)
  <2>1. /\ k \in Nat /\ tokens \in Nat /\ start \in Nat /\ overlap \in Nat
        /\ chunks \in Seq(Chunk)
    BY DEF WindowsInv, Input, tokens
  <2>2. End \in start + 1..tokens /\ tokens' = tokens
    BY <1>1, WindowHolds DEF Window, tokens
  <2>3. start' \in {start, End - overlap}
    BY <1>1 DEF Window
  <2>4. start' <= tokens'
    BY <2>1, <2>2, <2>3
  <2>5. /\ chunks' \in Seq(Chunk) /\ Len(chunks') = k + 1 /\ \A n \in 1..k : chunks'[n] = chunks[n]
        /\ chunks'[k + 1].token_end = End
    <3> DEFINE new == [token_start |-> start, token_end |-> End,
                       byte_start |-> ByteStart, byte_end |-> ByteEnd]
    <3>1. chunks' = Append(chunks, new) /\ new.token_end = End
      BY <1>1 DEF Window
    <3>2. new \in Chunk
      BY <1>1, <2>1, <2>2, WindowHolds DEF Window, Chunk
    <3> HIDE DEF new
    <3> QED
      BY <2>1, <3>1, <3>2
  <2>6. End >= k + 1
    <3>1. CASE k = 0
      BY <2>1, <2>2, <3>1
    <3>2. CASE k > 0
      <4>1. k + 1 \in 1..Len(chunks') /\ k + 1 > 1 /\ (k + 1) - 1 = k /\ k \in 1..k
        BY <2>1, <2>5, <3>2
      <4>2. chunks'[k + 1].token_end > chunks'[k].token_end
        BY <4>1 DEF WindowsInv, Covered, Continues
      <4>3. chunks'[k].token_end \in k..tokens
        BY <2>5, <4>1 DEF WindowsBounds
      <4> QED
        BY <2>1, <2>2, <2>5, <4>2, <4>3
    <3> QED
      BY <2>1, <3>1, <3>2
  <2>7. \A n \in 1..k + 1 : chunks'[n].token_end \in n..tokens
    <3> SUFFICES ASSUME NEW n \in 1..k + 1 PROVE chunks'[n].token_end \in n..tokens
      OBVIOUS
    <3>1. CASE n \in 1..k
      BY <2>5, <3>1 DEF WindowsBounds
    <3>2. CASE n = k + 1
      BY <2>1, <2>2, <2>5, <2>6, <3>2
    <3> QED
      BY <2>1, <3>1, <3>2
  <2> QED
    BY <2>2, <2>4, <2>5, <2>7 DEF WindowsBounds
<1>2. CASE Check \/ Invalid \/ NoTokens \/ UNCHANGED windows_vars
  <2>1. offsets' = offsets /\ start' = start /\ chunks' = chunks
    BY <1>2 DEF Check, Invalid, NoTokens, windows_vars
  <2> QED
    BY <2>1 DEF WindowsBounds, tokens
<1> QED
  BY <1>1, <1>2 DEF WindowsNext

\* The loop ends: it starts no window behind the last token, and makes no more
\* windows than there are tokens.
THEOREM WindowsTypes == WindowsSpec => []WindowsTypeOK
<1>1. WindowsInit => WindowsBounds
  <2> SUFFICES ASSUME WindowsInit PROVE WindowsBounds
    OBVIOUS
  <2>1. start = 0 /\ chunks = << >>
    BY DEF WindowsInit
  <2>2. tokens \in Nat
    BY WindowsInitHolds DEF WindowsInv, Input, tokens
  <2> QED
    BY <2>1, <2>2 DEF WindowsBounds
<1>2. WindowsInv /\ WindowsInv' /\ WindowsBounds /\ [WindowsNext]_windows_vars => WindowsBounds'
  BY WindowsBoundsKept
<1>3. WindowsInv /\ WindowsBounds => WindowsTypeOK
  <2> SUFFICES ASSUME WindowsInv, WindowsBounds PROVE WindowsTypeOK
    OBVIOUS
  <2>1. PICK k \in Nat : k = Len(chunks)
    BY DEF WindowsInv, Input
  <2>2. tokens \in Nat /\ start \in Nat
    BY DEF WindowsInv, Input, tokens
  <2>3. k > 0 => chunks[k].token_end \in k..tokens
    BY <2>1 DEF WindowsBounds
  <2>4. k <= tokens
    BY <2>2, <2>3
  <2> QED
    BY <2>1, <2>2, <2>4 DEF WindowsInv, Input, WindowsBounds, WindowsTypeOK
<1> QED
  BY <1>1, <1>2, <1>3, WindowsInvariant, PTL DEF WindowsSpec

-----------------------------------------------------------------------------
(***************************************************************************)
(* A PDF of any number of pages, whatever its helpers print, of whatever   *)
(* lengths.                                                                *)
(*                                                                         *)
(* The invariant says of the page that is treated where its text comes     *)
(* from, which depends on the image being gone when the page before is     *)
(* done, and on pdftotext and pdfinfo agreeing on the number of pages.     *)
(***************************************************************************)

Units == Nat \X {"text", "space", "ocr", "form feed"}
Ranges == [page : Nat, start : Nat, end : Nat, ocr : BOOLEAN]
Phases == {"info", "text", "page", "inspect", "recognise", "remove", "append", "done", "failed"}

\* The texts of the pages as pdftotext may write them.
PageTexts(all) ==
  /\ all \in Seq(Seq(Units)) /\ Len(all) = Len(document)
  /\ \A n \in 1..Len(all) : \A i \in 1..Len(all[n]) : all[n][i][1] = n /\ all[n][i][2] # "ocr"

PdfTyped ==
  /\ document \in Seq({"text", "blank", "none"}) /\ phase \in Phases /\ image \in Int
  /\ number \in Nat \ {0} /\ page_text \in Seq(Units) /\ text \in Seq(Units)
  /\ locations \in Seq(Ranges)

\* Helpers run page by page.
AtPage ==
  /\ phase \in {"info", "text"} => number = 1
  /\ phase = "text" => Len(document) >= 1
  /\ phase \in {"page", "inspect", "recognise", "remove", "append", "done"} =>
       PageTexts(texts) /\ number <= Len(texts) + 1
  /\ phase \in {"inspect", "recognise", "remove", "append"} => number <= Len(texts)
  /\ phase \in {"inspect", "recognise", "remove"} => Recognised
  /\ phase = "done" => number = Len(texts) + 1

\* No image is left of another page.
OwnImage ==
  /\ phase \in {"info", "text", "page", "append"} => image = 0
  /\ phase = "inspect" => image \in {number, -1, 0}
  /\ phase \in {"recognise", "remove"} => image = number
OwnText ==
  /\ phase = "remove" => \A i \in 1..Len(page_text) : page_text[i] = <<number, "ocr">>
  /\ phase = "append" =>
       \A i \in 1..Len(page_text) :
         page_text[i][1] = number /\ (page_text[i][2] = "ocr") = Recognised

\* The ranges so far hold their pages and take up the text, but for the form feeds.
Recorded ==
  /\ number = Len(locations) + 1
  /\ Len(text) = IF number = 1 THEN 0 ELSE locations[number - 1].end + 1
  /\ \A n \in 1..Len(locations) :
       /\ locations[n].page = n /\ locations[n].start <= locations[n].end
       /\ locations[n].end < Len(text)
       /\ \A i \in locations[n].start + 1..locations[n].end :
            text[i][1] = n /\ (text[i][2] = "ocr") = locations[n].ocr
       /\ n > 1 => locations[n].start = locations[n - 1].end + 1

PdfInv == PdfTyped /\ AtPage /\ OwnImage /\ OwnText /\ Recorded

\* What pdftotext writes for a page is of that page.
LEMMA PageLooks ==
  ASSUME document \in Seq({"text", "blank", "none"}), NEW n \in 1..Len(document), NEW page \in Looks(n)
  PROVE  /\ page \in Seq(Units)
         /\ \A i \in 1..Len(page) : page[i][1] = n /\ page[i][2] # "ocr"
<1>1. n \in Nat /\ document[n] \in {"text", "blank", "none"}
  OBVIOUS
<1>2. <<n, "text">> \in Units /\ <<n, "space">> \in Units
  BY <1>1 DEF Units
<1>3. \/ page = << <<n, "text">> >> \/ page = << <<n, "text">>, <<n, "text">> >>
      \/ page = << <<n, "space">> >> \/ page = << >>
  BY <1>1 DEF Looks
<1>4. ASSUME NEW unit \in {<<n, "text">>, <<n, "space">>}
      PROVE  /\ unit \in Units /\ unit[1] = n /\ unit[2] # "ocr"
             /\ << unit >> \in Seq(Units) /\ << unit, unit >> \in Seq(Units)
             /\ Len(<< unit >>) = 1 /\ << unit >>[1] = unit
             /\ Len(<< unit, unit >>) = 2 /\ << unit, unit >>[1] = unit /\ << unit, unit >>[2] = unit
  <2>1. unit \in Units /\ unit[1] = n /\ unit[2] # "ocr"
    BY <1>2
  <2> QED
    BY <2>1
<1>5. CASE page = << >>
  BY <1>5
<1>6. CASE \E unit \in {<<n, "text">>, <<n, "space">>} : page = << unit >>
  BY <1>4, <1>6
<1>7. CASE \E unit \in {<<n, "text">>, <<n, "space">>} : page = << unit, unit >>
  <2>1. PICK unit \in {<<n, "text">>, <<n, "space">>} : page = << unit, unit >>
    BY <1>7
  <2>2. \A i \in 1..Len(page) : page[i] = unit
    BY <1>4, <2>1
  <2> QED
    BY <1>4, <2>1, <2>2
<1> QED
  BY <1>3, <1>5, <1>6, <1>7, Zenon

\* Output that agrees with the count has the texts of the pages in their places.
LEMMA SplitsAgree ==
  ASSUME document \in Seq({"text", "blank", "none"}), Len(document) >= 1,
         NEW pages \in Splits, pages # << >>, Agrees(pages)
  PROVE  PageTexts(pages)
<1> DEFINE whole == {f \in [DOMAIN document -> UNION {Looks(n) : n \in DOMAIN document}] :
                       \A n \in DOMAIN document : f[n] \in Looks(n)}
<1>1. Len(document) \in Nat \ {0} /\ DOMAIN document = 1..Len(document) /\ Len(pages) = Len(document)
  BY DEF Agrees
<1>2. ASSUME NEW f \in whole
      PROVE  /\ f \in Seq(Seq(Units)) /\ Len(f) = Len(document) /\ PageTexts(f)
  <2>1. \A n \in 1..Len(document) : f[n] \in Looks(n)
    BY <1>1
  <2>2. DOMAIN f = 1..Len(document) /\ \A n \in 1..Len(document) : f[n] \in Seq(Units)
    BY <1>1, <2>1, PageLooks
  <2>3. f \in [1..Len(document) -> Seq(Units)]
    BY <1>1, <2>2
  <2>4. f \in Seq(Seq(Units)) /\ Len(f) = Len(document)
    <3>1. PICK m \in Nat : m = Len(document)
      BY <1>1
    <3>2. f \in [1..m -> Seq(Units)]
      BY <2>3, <3>1
    <3>3. f \in Seq(Seq(Units)) /\ Len(f) = m
      BY <3>2
    <3> QED
      BY <3>1, <3>3
  <2>5. ASSUME NEW n \in 1..Len(f), NEW i \in 1..Len(f[n])
        PROVE  f[n][i][1] = n /\ f[n][i][2] # "ocr"
    <3>1. n \in 1..Len(document) /\ f[n] \in Looks(n)
      BY <2>1, <2>4
    <3> QED
      BY <3>1, PageLooks
  <2> QED
    BY <2>4, <2>5 DEF PageTexts
<1> HIDE DEF whole
<1>3. ASSUME NEW f \in whole
      PROVE  pages # SubSeq(f, 1, Len(document) - 1)
  BY <1>1, <1>2
<1>4. ASSUME NEW f \in whole
      PROVE  pages # << <<f[1][1]>>, <<f[1][2]>> >> \o Tail(f)
  <2>1. Tail(f) \in Seq(Seq(Units)) /\ Len(Tail(f)) = Len(document) - 1
    BY <1>1, <1>2
  <2>2. Len(<< <<f[1][1]>>, <<f[1][2]>> >> \o Tail(f)) = 2 + Len(Tail(f))
    BY <2>1
  <2> QED
    BY <1>1, <2>1, <2>2
<1>5. pages \in whole
  BY <1>3, <1>4 DEF Splits, whole
<1> QED
  BY <1>2, <1>5

LEMMA PdfInitHolds == PdfInit => PdfInv
<1> SUFFICES ASSUME PdfInit
             PROVE  PdfInv
  OBVIOUS
<1> USE DEF PdfInit
<1>1. PdfTyped
  <2>1. document \in Seq({"text", "blank", "none"})
    BY PdfAssumption
  <2> QED
    BY <2>1 DEF PdfTyped, Phases
<1>2. Recorded
  BY DEF Recorded
<1> QED
  BY <1>1, <1>2 DEF PdfInv, AtPage, OwnImage, OwnText

\* The helpers of the whole document.
LEMMA DocumentKeeps ==
  ASSUME PdfInv, CountPages \/ ReadTexts
  PROVE  PdfInv'
<1>1. CASE CountPages
  <2> USE <1>1 DEF CountPages
  <2>1. PdfTyped' /\ Recorded'
    BY DEF PdfInv, PdfTyped, Recorded, Phases
  <2>2. Len(document') >= 1
    <3>1. Len(document) \in 1..MaxPages
      OBVIOUS
    <3> QED
      BY <3>1, PdfAssumption
  <2> QED
    BY <2>1, <2>2 DEF PdfInv, AtPage, OwnImage, OwnText
<1>2. CASE ReadTexts
  <2> USE <1>2 DEF ReadTexts
  <2>1. PdfTyped' /\ Recorded'
    BY DEF PdfInv, PdfTyped, Recorded, Phases
  <2>2. document \in Seq({"text", "blank", "none"}) /\ Len(document) >= 1
    BY DEF PdfInv, PdfTyped, AtPage
  <2>3. PICK pages \in Splits :
          LET all == IF pages = << >> THEN [n \in DOMAIN document |-> << >>] ELSE pages
          IN Agrees(all) /\ texts' = all
    OBVIOUS
  <2>4. PageTexts(texts')
    <3>1. CASE pages = << >>
      <4>1. PICK m \in Nat : m = Len(document)
        BY <2>2
      <4>2. texts' = [n \in 1..m |-> << >>]
        <5>1. texts' = [n \in DOMAIN document |-> << >>]
          BY <2>3, <3>1
        <5>2. DOMAIN document = 1..m
          BY <2>2, <4>1
        <5> QED
          BY <5>1, <5>2
      <4>3. texts' \in Seq(Seq(Units)) /\ Len(texts') = m
        <5>1. << >> \in Seq(Units)
          OBVIOUS
        <5>2. [n \in 1..m |-> << >>] \in [1..m -> Seq(Units)]
          BY <5>1
        <5>3. [n \in 1..m |-> << >>] \in Seq(Seq(Units)) /\ Len([n \in 1..m |-> << >>]) = m
          BY <5>2
        <5> QED
          BY <4>2, <5>3
      <4>4. \A n \in 1..m : texts'[n] = << >>
        BY <4>2
      <4> QED
        BY <4>1, <4>3, <4>4 DEF PageTexts
    <3>2. CASE pages # << >>
      BY <2>2, <2>3, <3>2, SplitsAgree
    <3> QED
      BY <3>1, <3>2
  <2>5. PageTexts(texts)'
    BY <2>4 DEF PageTexts
  <2>6. number = 1 /\ image = 0
    BY DEF PdfInv, AtPage, OwnImage
  <2> QED
    BY <2>1, <2>2, <2>5, <2>6 DEF PdfInv, AtPage, OwnImage, OwnText
<1> QED
  BY <1>1, <1>2

\* The helpers of a page.
LEMMA PageKeeps ==
  ASSUME PdfInv, KeepText \/ Render \/ Inspect \/ Recognise \/ RemoveImage
  PROVE  PdfInv'
<1>1. CASE KeepText
  <2> USE <1>1 DEF KeepText
  <2>1. PageTexts(texts) /\ number \in 1..Len(texts)
    BY DEF PdfInv, PdfTyped, AtPage
  <2>2. page_text' \in Seq(Units)
    BY <2>1 DEF PageTexts
  <2>3. \A i \in 1..Len(page_text') : page_text'[i][1] = number /\ page_text'[i][2] # "ocr"
    BY <2>1 DEF PageTexts
  <2>4. Recognised' = Recognised /\ Recognised = FALSE
    <3>1. Recognised \in BOOLEAN
      BY DEF Recognised
    <3> QED
      BY <3>1 DEF Recognised, Blank
  <2>5. PdfTyped' /\ Recorded'
    BY <2>2 DEF PdfInv, PdfTyped, Recorded, Phases
  <2>6. OwnText'
    BY <2>3, <2>4 DEF OwnText
  <2> QED
    BY <2>1, <2>5, <2>6 DEF PdfInv, AtPage, OwnImage, PageTexts
<1>2. CASE Render
  <2> USE <1>2 DEF Render
  <2>1. PdfTyped' /\ Recorded'
    BY DEF PdfInv, PdfTyped, Recorded, Phases
  <2>2. Recognised'
    BY DEF Recognised, Blank
  <2>3. OwnImage'
    BY DEF PdfInv, OwnImage
  <2> QED
    BY <2>1, <2>2, <2>3 DEF PdfInv, AtPage, OwnText, PageTexts
<1>3. CASE Inspect
  <2> USE <1>3 DEF Inspect
  <2>1. PdfTyped' /\ Recorded'
    BY DEF PdfInv, PdfTyped, Recorded, Phases
  <2>2. Recognised' = Recognised
    BY DEF Recognised, Blank
  <2>3. OwnImage'
    BY DEF PdfInv, OwnImage
  <2> QED
    BY <2>1, <2>2, <2>3 DEF PdfInv, AtPage, OwnText, PageTexts
<1>4. CASE Recognise
  <2> USE <1>4 DEF Recognise
  <2>1. PICK m \in Nat : page_text' = [i \in 1..m |-> <<image, "ocr">>]
    BY PdfAssumption
  <2>2. image = number /\ number \in Nat
    BY DEF PdfInv, PdfTyped, OwnImage
  <2>3. <<image, "ocr">> \in Units
    BY <2>2 DEF Units
  <2>4. page_text' \in Seq(Units) /\ \A i \in 1..Len(page_text') : page_text'[i] = <<number, "ocr">>
    BY <2>1, <2>2, <2>3
  <2>5. PdfTyped' /\ Recorded'
    BY <2>4 DEF PdfInv, PdfTyped, Recorded, Phases
  <2>6. Recognised' = Recognised
    BY DEF Recognised, Blank
  <2>7. OwnText' /\ OwnImage'
    BY <2>2, <2>4 DEF OwnText, OwnImage
  <2> QED
    BY <2>5, <2>6, <2>7 DEF PdfInv, AtPage, PageTexts
<1>5. CASE RemoveImage
  <2> USE <1>5 DEF RemoveImage
  <2>1. PdfTyped' /\ Recorded'
    BY DEF PdfInv, PdfTyped, Recorded, Phases, Gone
  <2>2. Recognised' /\ Recognised
    BY DEF PdfInv, AtPage, Recognised, Blank
  <2>3. Recognised' = TRUE
    BY <2>2 DEF Recognised
  <2>4. \A i \in 1..Len(page_text) : page_text[i][1] = number /\ page_text[i][2] = "ocr"
    BY DEF PdfInv, OwnText
  <2>5. OwnText'
    BY <2>3, <2>4 DEF OwnText
  <2>6. OwnImage'
    BY DEF OwnImage, Gone
  <2> QED
    BY <2>1, <2>2, <2>5, <2>6 DEF PdfInv, AtPage, PageTexts
<1> QED
  BY <1>1, <1>2, <1>3, <1>4, <1>5

\* The text of a page and its range are recorded.
LEMMA AppendKeeps ==
  ASSUME PdfInv, AppendPage
  PROVE  PdfInv'
<1> USE DEF AppendPage
<1> DEFINE at == [page |-> number, start |-> Len(text), end |-> Len(text) + Len(page_text),
                  ocr |-> Recognised]
<1>1. /\ text \in Seq(Units) /\ page_text \in Seq(Units) /\ number \in Nat \ {0}
      /\ Len(text) \in Nat /\ Len(page_text) \in Nat /\ locations \in Seq(Ranges)
  BY DEF PdfInv, PdfTyped
<1>2. PageTexts(texts) /\ number <= Len(texts) /\ Len(texts) \in Nat
  BY DEF PdfInv, AtPage, PageTexts
<1>3. Recognised \in BOOLEAN
  BY PdfAssumption DEF Recognised, Blank
<1>4. at \in Ranges
  BY <1>1, <1>3 DEF Ranges
<1>5. /\ text' = text \o page_text \o <<FormFeed>> /\ locations' = Append(locations, at)
      /\ number' = number + 1 /\ page_text' = << >> /\ phase' = "page"
      /\ UNCHANGED <<document, texts, image>>
  OBVIOUS
<1>6. FormFeed \in Units
  BY DEF FormFeed, Units
<1>7. /\ text' \in Seq(Units) /\ Len(text') = Len(text) + Len(page_text) + 1
      /\ \A i \in 1..Len(text) : text'[i] = text[i]
      /\ \A i \in Len(text) + 1..Len(text) + Len(page_text) : text'[i] = page_text[i - Len(text)]
  BY <1>1, <1>5, <1>6
<1>8. /\ locations' \in Seq(Ranges) /\ Len(locations') = Len(locations) + 1
      /\ Len(locations) \in Nat /\ number = Len(locations) + 1
      /\ locations'[number] = at
      /\ \A n \in 1..Len(locations) : locations'[n] = locations[n]
  <2>1. number = Len(locations) + 1
    BY DEF PdfInv, Recorded
  <2> HIDE DEF at
  <2> QED
    BY <1>1, <1>4, <1>5, <2>1
<1>9. PdfTyped'
  BY <1>1, <1>5, <1>7, <1>8 DEF PdfInv, PdfTyped, Phases
<1>10. /\ at.page = number /\ at.start = Len(text) /\ at.end = Len(text) + Len(page_text)
       /\ at.ocr = Recognised
  OBVIOUS
<1> HIDE DEF at
<1>11. ASSUME NEW n \in 1..Len(locations')
       PROVE  /\ locations'[n].page = n /\ locations'[n].start <= locations'[n].end
              /\ locations'[n].end < Len(text')
              /\ \A i \in locations'[n].start + 1..locations'[n].end :
                   text'[i][1] = n /\ (text'[i][2] = "ocr") = locations'[n].ocr
              /\ n > 1 => locations'[n].start = locations'[n - 1].end + 1
  <2>1. CASE n = number
    <3>1. locations'[n] = at
      BY <1>8, <2>1
    <3>2. \A i \in 1..Len(page_text) :
            page_text[i][1] = number /\ (page_text[i][2] = "ocr") = Recognised
      BY DEF PdfInv, OwnText
    <3>3. \A i \in Len(text) + 1..Len(text) + Len(page_text) :
            text'[i][1] = n /\ (text'[i][2] = "ocr") = Recognised
      <4>1. \A i \in Len(text) + 1..Len(text) + Len(page_text) : i - Len(text) \in 1..Len(page_text)
        BY <1>1
      <4> QED
        BY <1>7, <2>1, <3>2, <4>1
    <3>4. n > 1 => Len(text) = locations'[n - 1].end + 1
      <4>1. n > 1 => n - 1 \in 1..Len(locations) /\ Len(text) = locations[n - 1].end + 1
        BY <1>8, <2>1 DEF PdfInv, Recorded
      <4> QED
        BY <1>8, <4>1
    <3>5. at.start <= at.end /\ at.end < Len(text')
      BY <1>1, <1>7, <1>10
    <3>6. \A i \in at.start + 1..at.end : text'[i][1] = n /\ (text'[i][2] = "ocr") = at.ocr
      BY <1>10, <3>3
    <3> QED
      BY <1>10, <2>1, <3>1, <3>4, <3>5, <3>6, Zenon
  <2>2. CASE n # number
    <3>1. n \in 1..Len(locations) /\ locations'[n] = locations[n]
      BY <1>8, <2>2
    <3>2. n > 1 => n - 1 \in 1..Len(locations) /\ locations'[n - 1] = locations[n - 1]
      BY <1>8, <3>1
    <3>3. /\ locations[n].page = n /\ locations[n].start <= locations[n].end
          /\ locations[n].end < Len(text)
          /\ \A i \in locations[n].start + 1..locations[n].end :
               text[i][1] = n /\ (text[i][2] = "ocr") = locations[n].ocr
          /\ n > 1 => locations[n].start = locations[n - 1].end + 1
      BY <3>1 DEF PdfInv, Recorded
    <3>4. locations[n].start \in Nat /\ locations[n].end \in Nat
      <4>1. locations[n] \in Ranges
        BY <1>1, <3>1
      <4> QED
        BY <4>1 DEF Ranges
    <3>5. \A i \in locations[n].start + 1..locations[n].end : i \in 1..Len(text) /\ text'[i] = text[i]
      BY <1>1, <1>7, <3>3, <3>4
    <3>6. locations[n].end < Len(text')
      BY <1>1, <1>7, <3>3, <3>4
    <3> QED
      BY <3>1, <3>2, <3>3, <3>5, <3>6
  <2> QED
    BY <2>1, <2>2
<1>12. Recorded'
  <2>1. number' # 1 /\ number' - 1 = number /\ number' = Len(locations') + 1
    BY <1>1, <1>5, <1>8
  <2>2. Len(text') = locations'[number' - 1].end + 1
    BY <1>1, <1>7, <1>8, <1>10, <2>1
  <2> QED
    BY <1>11, <2>1, <2>2 DEF Recorded
<1>13. AtPage'
  <2>1. PageTexts(texts)' /\ number' <= Len(texts') + 1
    BY <1>1, <1>2, <1>5 DEF PageTexts
  <2> QED
    BY <1>5, <2>1 DEF AtPage
<1>14. OwnImage' /\ OwnText'
  BY <1>5 DEF PdfInv, OwnImage, OwnText
<1> QED
  BY <1>9, <1>12, <1>13, <1>14 DEF PdfInv

LEMMA PdfStepKeeps ==
  ASSUME PdfInv, [PdfNext]_pdf_vars
  PROVE  PdfInv'
<1>1. CASE FinishPdf
  <2> USE <1>1 DEF FinishPdf
  <2>1. PdfTyped' /\ Recorded'
    BY DEF PdfInv, PdfTyped, Recorded, Phases
  <2>2. number = Len(texts) + 1
    BY DEF PdfInv, PdfTyped, AtPage, PageTexts
  <2> QED
    BY <2>1, <2>2 DEF PdfInv, AtPage, OwnImage, OwnText, PageTexts
<1>2. CASE ExtractionFails
  <2> USE <1>2 DEF ExtractionFails
  <2>1. PdfTyped' /\ Recorded'
    BY DEF PdfInv, PdfTyped, Recorded, Phases
  <2> QED
    BY <2>1 DEF PdfInv, AtPage, OwnImage, OwnText
<1>3. CASE UNCHANGED pdf_vars
  <2> USE <1>3 DEF pdf_vars
  <2>1. PdfTyped' /\ Recorded'
    BY DEF PdfInv, PdfTyped, Recorded
  <2>2. Recognised' = Recognised
    BY DEF Recognised, Blank
  <2> QED
    BY <2>1, <2>2 DEF PdfInv, AtPage, OwnImage, OwnText, PageTexts
<1> QED
  BY <1>1, <1>2, <1>3, DocumentKeeps, PageKeeps, AppendKeeps DEF PdfNext

LEMMA PdfInvariant == PdfSpec => []PdfInv
<1> QED
  BY PdfInitHolds, PdfStepKeeps, PTL DEF PdfSpec

\* The range that is recorded for a page of a PDF holds the text of that page
\* or what was recognised on its own image, and every page has one, for any
\* document and whatever pdftotext, pdftoppm and tesseract write or leave.
THEOREM OwnPages == PdfSpec => []PagesAreTheirOwn
<1>1. ASSUME PdfInv
      PROVE  PagesAreTheirOwn
  <2>1. DOMAIN locations = 1..Len(locations)
    BY <1>1 DEF PdfInv, PdfTyped
  <2>2. phase = "done" => Len(locations) = Len(document)
    BY <1>1 DEF PdfInv, PdfTyped, AtPage, Recorded, PageTexts
  <2> QED
    BY <1>1, <2>1, <2>2 DEF PagesAreTheirOwn, PdfInv, Recorded
<1>2. PdfInv => PagesAreTheirOwn
  BY <1>1
<1> QED
  BY <1>2, PdfInvariant, PTL

\* What the limits of pages and of output bound.
PdfBounds ==
  /\ Len(texts) <= MaxPages /\ number <= MaxPages + 1 /\ Len(text) <= MaxOutput
  /\ image \in {-1} \cup 0..MaxPages
  /\ phase = "text" => Len(document) <= MaxPages

LEMMA PdfBoundsKept ==
  ASSUME PdfInv, PdfInv', PdfBounds, [PdfNext]_pdf_vars
  PROVE  PdfBounds'
<1>1. CASE ReadTexts
  <2>1. Len(document) <= MaxPages /\ document' = document /\ phase' = "page"
    BY <1>1 DEF ReadTexts, PdfBounds
  <2>2. Len(texts') = Len(document')
    BY <2>1 DEF PdfInv, AtPage, PageTexts
  <2> QED
    BY <1>1, <2>1, <2>2 DEF ReadTexts, PdfBounds
<1>2. CASE Render
  <2>1. number \in Nat \ {0} /\ Len(texts) \in Nat /\ number <= Len(texts)
    BY <1>2 DEF Render, PdfInv, PdfTyped, AtPage, PageTexts
  <2>2. number \in 0..MaxPages
    BY <2>1, PdfAssumption DEF PdfBounds
  <2> QED
    BY <1>2, <2>2 DEF Render, PdfBounds
<1>3. CASE RemoveImage
  BY <1>3, PdfAssumption DEF RemoveImage, Gone, PdfBounds
<1>4. CASE AppendPage
  <2>1. number \in Nat \ {0} /\ Len(texts) \in Nat /\ number <= Len(texts)
    BY <1>4 DEF AppendPage, PdfInv, PdfTyped, AtPage, PageTexts
  <2>2. number' <= MaxPages + 1
    BY <1>4, <2>1, PdfAssumption DEF AppendPage, PdfBounds
  <2>3. Len(text') <= MaxOutput
    <3>1. FormFeed \in Units /\ text \in Seq(Units) /\ page_text \in Seq(Units)
      BY DEF FormFeed, Units, PdfInv, PdfTyped
    <3>2. text' = text \o page_text \o <<FormFeed>> /\ Len(text) + Len(page_text) + 1 <= MaxOutput
      BY <1>4 DEF AppendPage
    <3>3. Len(text') = Len(text) + Len(page_text) + 1
      BY <3>1, <3>2
    <3> QED
      BY <3>2, <3>3
  <2> QED
    BY <1>4, <2>2, <2>3 DEF AppendPage, PdfBounds
<1>5. CASE CountPages
  BY <1>5, PdfAssumption DEF CountPages, PdfBounds
<1>6. CASE KeepText \/ Inspect \/ Recognise \/ FinishPdf \/ ExtractionFails \/ UNCHANGED pdf_vars
  BY <1>6 DEF KeepText, Inspect, Recognise, FinishPdf, ExtractionFails, pdf_vars, PdfBounds
<1> QED
  BY <1>1, <1>2, <1>3, <1>4, <1>5, <1>6 DEF PdfNext

\* No more pages are treated, and no more text is kept, than the limits allow.
THEOREM PdfTypes == PdfSpec => []PdfTypeOK
<1>1. PdfInit => PdfBounds
  BY PdfAssumption DEF PdfInit, PdfBounds
<1>2. PdfInv /\ PdfInv' /\ PdfBounds /\ [PdfNext]_pdf_vars => PdfBounds'
  BY PdfBoundsKept
<1>3. PdfInv /\ PdfBounds => PdfTypeOK
  BY DEF PdfInv, PdfTyped, Recorded, Phases, PdfBounds, PdfTypeOK
<1> QED
  BY <1>1, <1>2, <1>3, PdfInvariant, PTL DEF PdfSpec

-----------------------------------------------------------------------------
(* Ranks.                                                                  *)

\* What an index returns: no chunk twice, and every one has its bytes.
Listed(l) ==
  /\ l \in Seq(Nat) /\ Len(l) <= MaxLength
  /\ \A i, j \in DOMAIN l : l[i] = l[j] => i = j
  /\ \A i \in DOMAIN l : Bytes[l[i]] \in Nat

LEMMA ListedAt ==
  ASSUME NEW l, Listed(l)
  PROVE  /\ Len(l) \in Nat /\ DOMAIN l = 1..Len(l) /\ Len(l) <= MaxLength /\ l \in Seq(Nat)
         /\ \A i \in 1..Len(l) : l[i] \in Nat /\ Bytes[l[i]] \in Nat
         /\ \A i, j \in 1..Len(l) : l[i] = l[j] => i = j
<1>1. l \in Seq(Nat) /\ Len(l) \in Nat /\ DOMAIN l = 1..Len(l)
  BY DEF Listed
<1>. QED
  BY <1>1 DEF Listed

LEMMA LesserOf ==
  ASSUME NEW a \in Nat, NEW b \in Nat
  PROVE  Min({a, b}) = IF a <= b THEN a ELSE b
<1>. DEFINE m == IF a <= b THEN a ELSE b
<1>1. m \in {a, b} /\ \A y \in {a, b} : m <= y
  OBVIOUS
<1>2. \A x \in {a, b} : (\A y \in {a, b} : x <= y) => x = m
  OBVIOUS
<1>. HIDE DEF m
<1>. QED
  BY <1>1, <1>2 DEF Min, m

LEMMA PlaceAt ==
  ASSUME NEW l, Listed(l)
  PROVE  /\ \A i \in 1..Len(l) : PlaceIn(l, l[i]) = i
         /\ \A c : c \notin ToSet(l) => PlaceIn(l, c) = 0
<1>1. ASSUME NEW i \in 1..Len(l) PROVE PlaceIn(l, l[i]) = i
  <2>1. {j \in 1..Len(l) : l[j] = l[i]} = {i}
    BY ListedAt
  <2>2. Min({i}) = i
    <3>1. \A x \in {i} : \A y \in {i} : x <= y
      BY ListedAt
    <3>. QED
      BY <3>1 DEF Min
  <2>. QED
    BY <2>1, <2>2 DEF PlaceIn, SelectInSeq
<1>2. ASSUME NEW c, c \notin ToSet(l) PROVE PlaceIn(l, c) = 0
  <2>1. {j \in 1..Len(l) : l[j] = c} = {}
    BY <1>2, ListedAt DEF ToSet
  <2>. QED
    BY <2>1 DEF PlaceIn, SelectInSeq
<1>. QED
  BY <1>1, <1>2

\* A product that is the same with a greater factor has a smaller other one.
LEMMA Quotients ==
  ASSUME NEW d \in Nat \ {0}, NEW k \in Nat \ {0}, NEW n \in Nat \ {0}, k < n,
         d % k = 0, d % n = 0
  PROVE  d \div k \in Nat /\ d \div n \in Nat /\ d \div k > d \div n
<1>1. PICK p \in Int : p = d \div k /\ d = k * p
  BY SMT
<1>2. PICK q \in Int : q = d \div n /\ d = n * q
  BY SMT
<1>3. p > 0
  <2>1. p <= 0 => k * p <= 0
    OBVIOUS
  <2>. QED
    BY <1>1, <2>1
<1>4. q > 0
  <2>1. q <= 0 => n * q <= 0
    OBVIOUS
  <2>. QED
    BY <1>2, <2>1
<1>5. p > q
  <2>1. PICK e \in Nat \ {0} : n = k + e
    <3>1. n - k \in Nat \ {0} /\ n = k + (n - k)
      OBVIOUS
    <3>. QED
      BY <3>1
  <2>2. k * p = k * q + e * q
    BY <1>1, <1>2, <2>1
  <2>3. e * q > 0
    BY <1>4
  <2>4. k * (p - q) > 0
    BY <2>2, <2>3
  <2>5. p - q <= 0 => k * (p - q) <= 0
    OBVIOUS
  <2>. QED
    BY <2>4, <2>5
<1>. QED
  BY <1>1, <1>2, <1>3, <1>4, <1>5

LEMMA Weights ==
  /\ \A i \in 1..MaxLength : Weight(i) \in Nat
  /\ \A i, j \in 1..MaxLength : i < j => Weight(i) > Weight(j)
<1>1. ASSUME NEW i \in 1..MaxLength
      PROVE  K + i \in Nat \ {0} /\ Denominator % (K + i) = 0 /\ i \in Nat
  BY RankingAssumption DEF RankingAssumption
<1>2. Denominator \in Nat \ {0} /\ MaxLength \in Nat /\ K \in Nat
  BY RankingAssumption DEF RankingAssumption
<1>3. ASSUME NEW i \in 1..MaxLength PROVE Weight(i) \in Nat
  <2>1. PICK k \in Nat \ {0} : k = K + i
    BY <1>1
  <2>2. Denominator \div k \in Nat
    BY <1>2, SMT
  <2>. QED
    BY <2>1, <2>2 DEF Weight
<1>4. ASSUME NEW i \in 1..MaxLength, NEW j \in 1..MaxLength, i < j
      PROVE  Weight(i) > Weight(j)
  <2>1. PICK k \in Nat \ {0} : k = K + i
    BY <1>1
  <2>2. PICK n \in Nat \ {0} : n = K + j
    BY <1>1
  <2>3. k < n
    BY <1>1, <1>2, <1>4, <2>1, <2>2
  <2>4. Denominator % k = 0 /\ Denominator % n = 0
    BY <1>1, <2>1, <2>2
  <2>5. Denominator \div k > Denominator \div n
    BY <1>2, <2>3, <2>4, Quotients
  <2>. QED
    BY <2>1, <2>2, <2>5 DEF Weight
<1>. QED
  BY <1>3, <1>4

LEMMA Interval == \A m \in Nat : IsFiniteSet(1..m) /\ Cardinality(1..m) = m
<1>. SUFFICES ASSUME NEW m \in Nat PROVE IsFiniteSet(1..m) /\ Cardinality(1..m) = m
  OBVIOUS
<1>1. 1 \in Int /\ m \in Int
  OBVIOUS
<1>2. IsFiniteSet(1..m) /\ Cardinality(1..m) = IF 1 > m THEN 0 ELSE m - 1 + 1
  BY <1>1, FS_Interval
<1>. QED
  BY <1>2

\* A set whose members a function lists, none twice, has as many members.
LEMMA Values ==
  ASSUME NEW n \in Nat, NEW T, NEW f \in [1..n -> T], \A i, j \in 1..n : f[i] = f[j] => i = j,
         \A t \in T : \E i \in 1..n : f[i] = t
  PROVE  IsFiniteSet(T) /\ Cardinality(T) = n
<1>1. f \in Injection(1..n, T)
  BY DEF Injection, IsInjective
<1>2. f \in Surjection(1..n, T)
  BY DEF Surjection
<1>3. ExistsBijection(1..n, T)
  BY <1>1, <1>2 DEF ExistsBijection, Bijection
<1>4. IsFiniteSet(1..n) /\ Cardinality(1..n) = n
  BY Interval
<1>. QED
  BY <1>3, <1>4, FS_Bijection

LEMMA GreaterOf ==
  ASSUME NEW a \in Nat, NEW b \in Nat
  PROVE  Max({a, b}) = IF a >= b THEN a ELSE b
<1>. DEFINE m == IF a >= b THEN a ELSE b
<1>1. m \in {a, b} /\ \A y \in {a, b} : m >= y
  OBVIOUS
<1>2. \A x \in {a, b} : (\A y \in {a, b} : x >= y) => x = m
  OBVIOUS
<1>. HIDE DEF m
<1>. QED
  BY <1>1, <1>2 DEF Max, m

LEMMA TakenIs ==
  ASSUME NEW l \in Seq(Nat), NEW n \in Nat
  PROVE  /\ Taken(l, n) \in Seq(Nat) /\ Len(Taken(l, n)) = Min({n, Len(l)})
         /\ Len(Taken(l, n)) <= Len(l) /\ Len(l) \in Nat /\ Len(Taken(l, n)) \in Nat
         /\ \A i \in 1..Len(Taken(l, n)) : i \in 1..Len(l) /\ Taken(l, n)[i] = l[i]
<1>1. PICK k \in Nat : k = Len(l)
  OBVIOUS
<1>2. PICK m \in Nat : m = Min({n, k}) /\ m <= k
  <2>1. (IF n <= k THEN n ELSE k) \in Nat /\ (IF n <= k THEN n ELSE k) <= k
    OBVIOUS
  <2>. QED
    BY <2>1, LesserOf
<1>3. Taken(l, n) = SubSeq(l, 1, m)
  BY <1>1, <1>2 DEF Taken
<1>4. /\ SubSeq(l, 1, m) \in Seq(Nat) /\ Len(SubSeq(l, 1, m)) = m
      /\ \A i \in 1..m : SubSeq(l, 1, m)[i] = l[i]
  <2>1. 1 \in 1..Len(l) + 1 /\ m \in 0..Len(l)
    BY <1>1, <1>2
  <2>2. SubSeq(l, 1, m) \in Seq(Nat) /\ Len(SubSeq(l, 1, m)) = m
    <3>1. \A j \in 1..m : l[j] \in Nat
      BY <1>1, <1>2
    <3>2. 1 \in Int /\ m \in Int /\ (IF 1 <= m THEN m - 1 + 1 ELSE 0) = m
      OBVIOUS
    <3>. QED
      BY <3>1, <3>2, SubSeqProperties
  <2>3. \A i \in 1..m : SubSeq(l, 1, m)[i] = l[i]
    <3>. SUFFICES ASSUME NEW i \in 1..m PROVE SubSeq(l, 1, m)[i] = l[i]
      OBVIOUS
    <3>1. \A j \in 1..m : l[j] \in Nat
      BY <1>1, <1>2
    <3>2. i \in 1..m - 1 + 1 /\ 1 + i - 1 = i /\ m \in Int
      OBVIOUS
    <3>3. SubSeq(l, 1, m)[i] = l[1 + i - 1]
      BY <3>1, <3>2, SubSeqProperties
    <3>. QED
      BY <3>2, <3>3
  <2>. QED
    BY <2>2, <2>3
<1>5. \A i \in 1..m : i \in 1..k
  BY <1>2
<1>. QED
  BY <1>1, <1>2, <1>3, <1>4, <1>5

LEMMA TakenListed ==
  ASSUME NEW l, Listed(l), NEW n \in Nat
  PROVE  Listed(Taken(l, n))
<1>0. /\ Len(l) \in Nat /\ Len(l) <= MaxLength /\ l \in Seq(Nat)
      /\ \A i \in 1..Len(l) : l[i] \in Nat /\ Bytes[l[i]] \in Nat
      /\ \A i, j \in 1..Len(l) : l[i] = l[j] => i = j
  BY ListedAt
<1>1. PICK t : t = Taken(l, n)
  OBVIOUS
<1>2. /\ t \in Seq(Nat) /\ Len(t) \in Nat /\ Len(t) <= Len(l)
      /\ \A i \in 1..Len(t) : i \in 1..Len(l) /\ t[i] = l[i]
  <2>1. l \in Seq(Nat) /\ n \in Nat
    BY <1>0
  <2>2. /\ Taken(l, n) \in Seq(Nat) /\ Len(Taken(l, n)) <= Len(l) /\ Len(Taken(l, n)) \in Nat
        /\ \A i \in 1..Len(Taken(l, n)) : i \in 1..Len(l) /\ Taken(l, n)[i] = l[i]
    BY <2>1, TakenIs
  <2>. QED
    BY <1>1, <2>2
<1>3. DOMAIN t = 1..Len(t) /\ MaxLength \in Nat
  BY <1>2, RankingAssumption DEF RankingAssumption
<1>4. Len(t) <= MaxLength
  BY <1>0, <1>2, <1>3
<1>5. \A i, j \in 1..Len(t) : t[i] = t[j] => i = j
  BY <1>0, <1>2
<1>6. \A i \in 1..Len(t) : Bytes[t[i]] \in Nat
  BY <1>0, <1>2
<1>7. Listed(t)
  BY <1>2, <1>3, <1>4, <1>5, <1>6 DEF Listed
<1>. QED
  BY <1>1, <1>7

LEMMA NothingListed == Listed(<< >>)
<1>1. << >> \in Seq(Nat) /\ Len(<< >>) = 0 /\ DOMAIN << >> = 1..0
  OBVIOUS
<1>2. 0 <= MaxLength /\ \A i \in 1..0 : FALSE
  BY RankingAssumption DEF RankingAssumption
<1>. QED
  BY <1>1, <1>2 DEF Listed

LEMMA ShareOf ==
  ASSUME NEW l, Listed(l)
  PROVE  /\ \A c : Share(PlaceIn(l, c)) \in Nat
         /\ \A i \in 1..Len(l) : Share(PlaceIn(l, l[i])) = Weight(i) /\ Weight(i) \in Nat
         /\ \A c : c \notin ToSet(l) => Share(PlaceIn(l, c)) = 0
         /\ \A c \in ToSet(l) : \E i \in 1..Len(l) : c = l[i] /\ PlaceIn(l, c) = i
<1>0. DOMAIN l = 1..Len(l) /\ Len(l) \in Nat /\ Len(l) <= MaxLength /\ MaxLength \in Nat
  BY ListedAt, RankingAssumption DEF RankingAssumption
<1>1. \A c \in ToSet(l) : \E i \in 1..Len(l) : c = l[i] /\ PlaceIn(l, c) = i
  BY <1>0, PlaceAt DEF ToSet
<1>2. ASSUME NEW i \in 1..Len(l)
      PROVE  Share(PlaceIn(l, l[i])) = Weight(i) /\ Weight(i) \in Nat
  <2>1. i # 0 /\ i \in 1..MaxLength
    BY <1>0
  <2>2. PlaceIn(l, l[i]) = i
    BY PlaceAt
  <2>. QED
    BY <2>1, <2>2, Weights DEF Share
<1>3. ASSUME NEW c, c \notin ToSet(l) PROVE Share(PlaceIn(l, c)) = 0
  BY <1>3, PlaceAt DEF Share
<1>4. ASSUME NEW c PROVE Share(PlaceIn(l, c)) \in Nat
  <2>1. CASE c \in ToSet(l)
    BY <1>1, <1>2, <2>1
  <2>2. CASE c \notin ToSet(l)
    BY <1>3, <2>2
  <2>. QED
    BY <2>1, <2>2
<1>. QED
  BY <1>1, <1>2, <1>3, <1>4

\* What the fusion adds is what the place of a chunk is worth.
LEMMA FusedIs ==
  ASSUME NEW l, Listed(l), NEW c \in DOMAIN union \cup ToSet(l),
         c \in DOMAIN union => union[c] \in Nat
  PROVE  /\ DOMAIN Fused(l) = DOMAIN union \cup ToSet(l)
         /\ Fused(l)[c] = ScoreOf(c) + Share(PlaceIn(l, c))
<1>1. DOMAIN Fused(l) = DOMAIN union \cup ToSet(l)
  BY DEF Fused
<1>2. CASE c \in ToSet(l)
  <2>1. PICK i \in 1..Len(l) : c = l[i] /\ PlaceIn(l, c) = i
    BY <1>2, ShareOf
  <2>2. DOMAIN l = 1..Len(l) /\ \A j \in 1..Len(l) : l[j] = c => j = i
    BY <2>1, ListedAt
  <2>3. (CHOOSE j \in DOMAIN l : l[j] = c) = i
    BY <2>1, <2>2
  <2>4. Fused(l)[c] = Summed(c, i)
    BY <1>2, <2>3 DEF Fused
  <2>5. Share(PlaceIn(l, c)) = Weight(i)
    BY <2>1, ShareOf
  <2>. QED
    BY <1>1, <2>4, <2>5 DEF Summed
<1>3. CASE c \notin ToSet(l)
  <2>1. c \in DOMAIN union /\ Share(PlaceIn(l, c)) = 0
    BY <1>3, ShareOf
  <2>2. Fused(l)[c] = union[c]
    BY <1>3, <2>1 DEF Fused
  <2>3. ScoreOf(c) = union[c]
    BY <2>1 DEF ScoreOf
  <2>. QED
    BY <1>1, <2>1, <2>2, <2>3
<1>. QED
  BY <1>2, <1>3

LEMMA Candidates ==
  ASSUME Listed(dense), Listed(lexical)
  PROVE  /\ Met \subseteq Nat /\ \A c \in Met : Bytes[c] \in Nat
         /\ \A c : FusedScore(c) \in Nat
         /\ \A a, b \in Met : Better(a, b) => ~Better(b, a)
<1>1. \A c \in Met : c \in Nat /\ Bytes[c] \in Nat
  BY ListedAt DEF Met, ToSet
<1>2. \A c : FusedScore(c) \in Nat
  <2>1. \A c : Share(PlaceIn(dense, c)) \in Nat /\ Share(PlaceIn(lexical, c)) \in Nat
    BY ShareOf
  <2>. QED
    BY <2>1 DEF FusedScore
<1>3. \A a, b \in Met : Better(a, b) => ~Better(b, a)
  <2>. SUFFICES ASSUME NEW a \in Met, NEW b \in Met, Better(a, b), Better(b, a) PROVE FALSE
    OBVIOUS
  <2>1. PICK s \in Nat : s = FusedScore(a)
    BY <1>2
  <2>2. PICK t \in Nat : t = FusedScore(b)
    BY <1>2
  <2>3. a \in Nat /\ b \in Nat
    BY <1>1
  <2>4. (s > t \/ (s = t /\ a < b)) /\ (t > s \/ (t = s /\ b < a))
    BY <2>1, <2>2 DEF Better
  <2>. QED
    BY <2>3, <2>4
<1>. QED
  BY <1>1, <1>2, <1>3

\* In the order of the ranks, every candidate has as many better ones as there
\* are places before it.
LEMMA OrderCounts ==
  ASSUME NEW m \in Nat, NEW order \in [1..m -> Met], ToSet(order) = Met,
         \A i, j \in 1..m : i < j => Better(order[i], order[j]),
         \A a, b \in Met : Better(a, b) => ~Better(b, a)
  PROVE  /\ IsFiniteSet(Met) /\ Cardinality(Met) = m
         /\ \A n \in 1..m : Cardinality({c \in Met : Better(c, order[n])}) = n - 1
<1>0. DOMAIN order = 1..m /\ \A i \in 1..m : order[i] \in Met
  OBVIOUS
<1>1. Met = {order[i] : i \in 1..m}
  BY <1>0 DEF ToSet
<1>2. ASSUME NEW i \in 1..m, NEW j \in 1..m PROVE Better(order[i], order[j]) <=> i < j
  <2>1. CASE i < j
    BY <2>1
  <2>2. CASE j < i
    <3>1. Better(order[j], order[i]) /\ ~(i < j)
      BY <2>2
    <3>. QED
      BY <1>0, <3>1
  <2>3. CASE i = j
    BY <1>0, <2>3
  <2>. QED
    BY <2>1, <2>2, <2>3
<1>3. \A i, j \in 1..m : order[i] = order[j] => i = j
  <2>. SUFFICES ASSUME NEW i \in 1..m, NEW j \in 1..m, order[i] = order[j] PROVE i = j
    OBVIOUS
  <2>1. (i < j <=> j < j) /\ (j < i <=> i < i)
    BY <1>2
  <2>. QED
    BY <2>1
<1>4. IsFiniteSet(Met) /\ Cardinality(Met) = m
  <2>1. \A t \in Met : \E i \in 1..m : order[i] = t
    BY <1>1
  <2>. QED
    BY <1>3, <2>1, Values
<1>5. ASSUME NEW n \in 1..m
      PROVE  Cardinality({c \in Met : Better(c, order[n])}) = n - 1
  <2>1. PICK l \in Nat : n = l + 1
    <3>1. n - 1 \in Nat /\ n = (n - 1) + 1
      OBVIOUS
    <3>. QED
      BY <3>1
  <2>. DEFINE f == [i \in 1..l |-> order[i]]
  <2>2. \A i \in 1..l : i \in 1..m /\ i < n
    BY <2>1
  <2>3. \A i \in 1..m : i < n => i \in 1..l
    BY <2>1
  <2>4. DOMAIN f = 1..l /\ \A i \in 1..l : f[i] = order[i]
    OBVIOUS
  <2>. HIDE DEF f
  <2>5. \A i, j \in 1..l : f[i] = f[j] => i = j
    BY <1>3, <2>2, <2>4
  <2>. DEFINE T == {c \in Met : Better(c, order[n])}
  <2>6. \A i \in 1..l : f[i] \in T
    BY <1>0, <1>2, <2>2, <2>4
  <2>7. ASSUME NEW c \in T PROVE \E i \in 1..l : f[i] = c
    <3>1. PICK i \in 1..m : c = order[i]
      BY <1>1
    <3>2. i < n
      BY <1>2, <3>1
    <3>. QED
      BY <2>3, <2>4, <3>1, <3>2
  <2>. HIDE DEF T
  <2>8. f \in [1..l -> T]
    <3>1. f = [i \in 1..l |-> f[i]]
      BY DEF f
    <3>. QED
      BY <2>6, <3>1
  <2>9. Cardinality(T) = l
    BY <2>5, <2>7, <2>8, Values
  <2>10. n - 1 = l
    BY <2>1
  <2>. QED
    BY <2>9, <2>10 DEF T
<1>. QED
  BY <1>4, <1>5

\* The best of the candidates, up to the limit.
Best(list) ==
  /\ list \in Seq(Nat) /\ Len(list) = Min({limit, Cardinality(Met)})
  /\ \A n \in 1..Len(list) :
       list[n] \in Met /\ Cardinality({c \in Met : Better(c, list[n])}) = n - 1

LEMMA BestIsFirst ==
  ASSUME Listed(dense), Listed(lexical), limit \in Nat,
         NEW m \in Nat, NEW order \in [1..m -> Met], ToSet(order) = Met,
         \A i, j \in 1..m : i < j => Better(order[i], order[j])
  PROVE  Best(Taken(order, limit))
<1>2. \A i \in 1..m : order[i] \in Met
  OBVIOUS
<1>6. /\ Cardinality(Met) = m
      /\ \A n \in 1..m : Cardinality({c \in Met : Better(c, order[n])}) = n - 1
  BY Candidates, OrderCounts
<1>8. order \in Seq(Nat) /\ Len(order) = m
  BY Candidates
<1>9. PICK t : t = Taken(order, limit)
  OBVIOUS
<1>10. /\ t \in Seq(Nat) /\ Len(t) = Min({limit, m})
       /\ \A i \in 1..Len(t) : i \in 1..m /\ t[i] = order[i]
  <2>1. /\ Taken(order, limit) \in Seq(Nat)
        /\ Len(Taken(order, limit)) = Min({limit, Len(order)})
        /\ \A i \in 1..Len(Taken(order, limit)) :
             i \in 1..Len(order) /\ Taken(order, limit)[i] = order[i]
    BY <1>8, TakenIs
  <2>. QED
    BY <1>8, <1>9, <2>1
<1>11. Best(t)
  BY <1>2, <1>6, <1>10 DEF Best
<1>. QED
  BY <1>9, <1>11

\* One list alone is already in the order of the ranks.
LEMMA AloneIsBest ==
  ASSUME Listed(dense), Listed(lexical), limit \in Nat,
         NEW l, NEW other, \/ dense = l /\ lexical = other
                           \/ dense = other /\ lexical = l,
         other = << >>
  PROVE  Best(Taken(l, limit))
<1>0. Listed(l) /\ Listed(other)
  OBVIOUS
<1>1. PICK m \in Nat : m = Len(l)
  BY <1>0, ListedAt
<1>2. ToSet(other) = {}
  <2>1. DOMAIN other = {}
    OBVIOUS
  <2>. QED
    BY <2>1 DEF ToSet
<1>3. Met = ToSet(l)
  BY <1>2 DEF Met
<1>4. l \in [1..m -> Met] /\ ToSet(l) = Met
  <2>1. DOMAIN l = 1..m /\ l \in Seq(Nat)
    BY <1>0, <1>1, ListedAt
  <2>2. \A i \in 1..m : l[i] \in Met
    BY <1>3, <2>1 DEF ToSet
  <2>. QED
    BY <1>3, <2>1, <2>2
<1>5. \A i \in 1..m : FusedScore(l[i]) = Weight(i) /\ Weight(i) \in Nat
  <2>. SUFFICES ASSUME NEW i \in 1..m
                PROVE  FusedScore(l[i]) = Weight(i) /\ Weight(i) \in Nat
    OBVIOUS
  <2>1. Share(PlaceIn(l, l[i])) = Weight(i) /\ Weight(i) \in Nat
    BY <1>0, <1>1, ShareOf
  <2>2. Share(PlaceIn(other, l[i])) = 0
    BY <1>0, <1>2, ShareOf
  <2>3. FusedScore(l[i]) = Weight(i) + 0 \/ FusedScore(l[i]) = 0 + Weight(i)
    BY <2>1, <2>2 DEF FusedScore
  <2>. QED
    BY <2>1, <2>3
<1>6. ASSUME NEW i \in 1..m, NEW j \in 1..m, i < j PROVE Better(l[i], l[j])
  <2>1. i \in 1..MaxLength /\ j \in 1..MaxLength
    <3>1. m <= MaxLength /\ MaxLength \in Nat
      BY <1>0, <1>1, ListedAt, RankingAssumption DEF RankingAssumption
    <3>. QED
      BY <3>1
  <2>2. Weight(i) > Weight(j)
    BY <1>6, <2>1, Weights
  <2>. QED
    BY <1>5, <2>2 DEF Better
<1>. QED
  BY <1>4, <1>6, BestIsFirst

-----------------------------------------------------------------------------
(* The inductive invariant of a search.                                    *)

Unranked == {"validate", "query", "single", "dense", "lexical", "sort"}

RankingTyped ==
  /\ mode \in {"semantic", "lexical", "hybrid"} /\ limit \in Nat /\ budget \in Nat
  /\ Listed(dense) /\ Listed(lexical)
  /\ search_state \in Unranked \cup {"hydrate", "done", "failed"}
  /\ ranked \in Seq(Nat) /\ results \in Seq(Nat) /\ Len(results) <= Len(ranked)

\* The scores, on the way to the sum of what both places are worth.
FusedSoFar ==
  /\ search_state \in {"validate", "query", "single", "dense"} => union = << >>
  /\ search_state = "single" => \/ mode = "semantic" /\ lexical = << >>
                                \/ mode = "lexical" /\ dense = << >>
  /\ search_state = "lexical" =>
       /\ DOMAIN union = ToSet(dense)
       /\ \A c \in DOMAIN union : union[c] = Share(PlaceIn(dense, c))
  /\ search_state = "sort" =>
       DOMAIN union = Met /\ \A c \in Met : union[c] = FusedScore(c)

\* The results are the first of the ranked ones.
RankedSoFar ==
  /\ search_state \in Unranked => ranked = << >> /\ results = << >>
  /\ search_state \in {"hydrate", "done"} =>
       Best(ranked) /\ \A i \in 1..Len(results) : results[i] = ranked[i]
  /\ search_state = "done" => Len(results) = Len(ranked)

RankingInv == RankingTyped /\ FusedSoFar /\ RankedSoFar

LEMMA RankingInitHolds == RankingInit => RankingInv
<1>. SUFFICES ASSUME RankingInit PROVE RankingInv
  OBVIOUS
<1>1. \A list \in Lists : Listed(list)
  BY RankingAssumption DEF RankingAssumption, Listed
<1>2. Limits \subseteq Nat /\ Budgets \subseteq Nat
  BY RankingAssumption DEF RankingAssumption
<1>3. << >> \in Seq(Nat) /\ Len(<< >>) <= Len(<< >>)
  OBVIOUS
<1>4. RankingTyped
  BY <1>1, <1>2, <1>3 DEF RankingInit, RankingTyped, Unranked
<1>5. FusedSoFar /\ RankedSoFar
  BY DEF RankingInit, FusedSoFar, RankedSoFar
<1>. QED
  BY <1>4, <1>5 DEF RankingInv

LEMMA StaysBest ==
  ASSUME UNCHANGED <<dense, lexical, limit>>, NEW l, Best(l)
  PROVE  Best(l)'
BY DEF Best, Better, FusedScore, Met

LEMMA ValidateRanks == ASSUME RankingInv, Validate PROVE RankingInv'
<1>1. RankingTyped'
  BY DEF RankingInv, RankingTyped, Validate, Unranked
<1>2. FusedSoFar'
  BY DEF RankingInv, FusedSoFar, Validate
<1>3. RankedSoFar'
  BY DEF RankingInv, RankedSoFar, Validate, Unranked
<1>. QED
  BY <1>1, <1>2, <1>3 DEF RankingInv

LEMMA QueryRanks == ASSUME RankingInv, Query PROVE RankingInv'
<1>1. candidate_limit \in Nat
  <2>1. limit \in Nat /\ limit * 4 \in Nat /\ CandidatesMin \in Nat /\ CandidatesMax \in Nat
    BY RankingAssumption DEF RankingInv, RankingTyped, RankingAssumption
  <2>2. Min({limit * 4, CandidatesMax}) \in Nat
    BY <2>1, LesserOf
  <2>3. Max({CandidatesMin, Min({limit * 4, CandidatesMax})}) \in Nat
    BY <2>1, <2>2, GreaterOf
  <2>. QED
    BY <2>1, <2>3 DEF candidate_limit
<1>2. Listed(dense') /\ Listed(lexical')
  BY <1>1, TakenListed, NothingListed DEF Query, RankingInv, RankingTyped
<1>3. RankingTyped'
  BY <1>2 DEF RankingInv, RankingTyped, Query, Unranked, Listed
<1>4. FusedSoFar'
  BY DEF RankingInv, RankingTyped, FusedSoFar, Query
<1>5. RankedSoFar'
  BY DEF RankingInv, RankedSoFar, Query, Unranked
<1>. QED
  BY <1>3, <1>4, <1>5 DEF RankingInv

LEMMA FuseDenseRanks == ASSUME RankingInv, FuseDense PROVE RankingInv'
<1>0. /\ union = << >> /\ Listed(dense) /\ union' = Fused(dense) /\ search_state' = "lexical"
      /\ UNCHANGED <<mode, limit, budget, dense, lexical, ranked, results>>
      /\ search_state = "dense"
  BY DEF RankingInv, RankingTyped, FusedSoFar, FuseDense
<1>1. DOMAIN union = {}
  BY <1>0
<1>2. DOMAIN union' = ToSet(dense)
  BY <1>0, <1>1 DEF Fused
<1>3. ASSUME NEW c \in ToSet(dense) PROVE union'[c] = Share(PlaceIn(dense, c))
  <2>1. union'[c] = ScoreOf(c) + Share(PlaceIn(dense, c))
    BY <1>0, <1>1, FusedIs
  <2>2. ScoreOf(c) = 0 /\ Share(PlaceIn(dense, c)) \in Nat
    BY <1>0, <1>1, ShareOf DEF ScoreOf
  <2>. QED
    BY <2>1, <2>2
<1>4. RankingTyped'
  BY <1>0 DEF RankingInv, RankingTyped, Unranked, Listed
<1>5. FusedSoFar'
  BY <1>0, <1>2, <1>3 DEF FusedSoFar
<1>6. RankedSoFar'
  BY <1>0 DEF RankingInv, RankedSoFar, Unranked
<1>. QED
  BY <1>4, <1>5, <1>6 DEF RankingInv

LEMMA FuseLexicalRanks == ASSUME RankingInv, FuseLexical PROVE RankingInv'
<1>0. /\ Listed(dense) /\ Listed(lexical) /\ union' = Fused(lexical) /\ search_state' = "sort"
      /\ UNCHANGED <<mode, limit, budget, dense, lexical, ranked, results>>
      /\ search_state = "lexical"
      /\ DOMAIN union = ToSet(dense)
      /\ \A c \in DOMAIN union : union[c] = Share(PlaceIn(dense, c))
  BY DEF RankingInv, RankingTyped, FusedSoFar, FuseLexical
<1>1. DOMAIN union' = Met
  BY <1>0 DEF Fused, Met
<1>2. ASSUME NEW c \in Met PROVE union'[c] = FusedScore(c)
  <2>1. c \in DOMAIN union => union[c] \in Nat
    BY <1>0, ShareOf
  <2>2. c \in DOMAIN union \cup ToSet(lexical)
    BY <1>0 DEF Met
  <2>3. union'[c] = ScoreOf(c) + Share(PlaceIn(lexical, c))
    BY <1>0, <2>1, <2>2, FusedIs
  <2>4. ScoreOf(c) = Share(PlaceIn(dense, c))
    BY <1>0, ShareOf DEF ScoreOf
  <2>. QED
    BY <2>3, <2>4 DEF FusedScore
<1>3. RankingTyped'
  BY <1>0 DEF RankingInv, RankingTyped, Unranked, Listed
<1>4. FusedSoFar'
  BY <1>0, <1>1, <1>2 DEF FusedSoFar, Met, FusedScore
<1>5. RankedSoFar'
  BY <1>0 DEF RankingInv, RankedSoFar, Unranked
<1>. QED
  BY <1>3, <1>4, <1>5 DEF RankingInv

\* What has just been ranked is hydrated next.
LEMMA RankedNow ==
  ASSUME RankingInv, search_state \in Unranked, search_state' = "hydrate",
         UNCHANGED <<mode, limit, budget, dense, lexical, results>>,
         Best(ranked')
  PROVE  RankingInv'
<1>1. ranked' \in Seq(Nat) /\ Len(ranked') \in Nat
  BY DEF Best
<1>2. results = << >> /\ Len(results) = 0
  BY DEF RankingInv, RankedSoFar
<1>3. RankingTyped'
  BY <1>1, <1>2 DEF RankingInv, RankingTyped, Listed
<1>4. FusedSoFar'
  BY DEF FusedSoFar
<1>5. Best(ranked)'
  <2>1. PICK l : l = ranked'
    OBVIOUS
  <2>2. Best(l)'
    BY <2>1, StaysBest
  <2>. QED
    BY <2>1, <2>2 DEF Best
<1>6. RankedSoFar'
  BY <1>2, <1>5 DEF RankedSoFar, Unranked
<1>. QED
  BY <1>3, <1>4, <1>6 DEF RankingInv

LEMMA SingleRanks == ASSUME RankingInv, Single PROVE RankingInv'
<1>0. /\ Listed(dense) /\ Listed(lexical) /\ limit \in Nat
      /\ \/ mode = "semantic" /\ lexical = << >>
         \/ mode = "lexical" /\ dense = << >>
  BY DEF RankingInv, RankingTyped, FusedSoFar, Single
<1>1. Best(ranked')
  <2>1. CASE mode = "semantic"
    <3>1. lexical = << >> /\ ranked' = Taken(dense, limit)
      BY <1>0, <2>1 DEF Single
    <3>. QED
      BY <1>0, <3>1, AloneIsBest
  <2>2. CASE mode = "lexical"
    <3>1. dense = << >> /\ ranked' = Taken(lexical, limit)
      BY <1>0, <2>2 DEF Single
    <3>. QED
      BY <1>0, <3>1, AloneIsBest
  <2>. QED
    BY <1>0, <2>1, <2>2
<1>. QED
  BY <1>1, RankedNow DEF Single, Unranked

LEMMA SortRanks == ASSUME RankingInv, Sort PROVE RankingInv'
<1>0. /\ Listed(dense) /\ Listed(lexical) /\ limit \in Nat
      /\ DOMAIN union = Met /\ \A c \in Met : union[c] = FusedScore(c)
  BY DEF RankingInv, RankingTyped, FusedSoFar, Sort
<1>1. PICK order \in [1..Cardinality(Met) -> Met] :
         /\ ToSet(order) = Met
         /\ \A i, j \in DOMAIN order : i < j => Before(order[i], order[j])
         /\ ranked' = Taken(order, limit)
  BY <1>0, Zenon DEF Sort
<1>2. IsFiniteSet(Met)
  <2>1. IsFiniteSet(ToSet(dense)) /\ IsFiniteSet(ToSet(lexical))
    <3>1. ASSUME NEW l, Listed(l) PROVE IsFiniteSet(ToSet(l))
      <4>1. Len(l) \in Nat /\ DOMAIN l = 1..Len(l)
            /\ \A i, j \in 1..Len(l) : l[i] = l[j] => i = j
        BY <3>1, ListedAt
      <4>2. l \in [1..Len(l) -> ToSet(l)] /\ \A t \in ToSet(l) : \E i \in 1..Len(l) : l[i] = t
        <5>1. l \in Seq(Nat)
          BY <3>1, ListedAt
        <5>. QED
          BY <4>1, <5>1 DEF ToSet
      <4>. QED
        BY <4>1, <4>2, Values
    <3>. QED
      BY <1>0, <3>1
  <2>. QED
    BY <2>1, FS_Union DEF Met
<1>3. PICK m \in Nat : m = Cardinality(Met)
  BY <1>2, FS_CardinalityType
<1>4. order \in [1..m -> Met] /\ \A i \in 1..m : order[i] \in Met
  BY <1>3
<1>5. \A i, j \in 1..m : i < j => Better(order[i], order[j])
  BY <1>0, <1>1, <1>4 DEF Before, Better
<1>6. Best(ranked')
  BY <1>0, <1>1, <1>4, <1>5, BestIsFirst
<1>. QED
  BY <1>6, RankedNow DEF Sort, Unranked

LEMMA HydrateRanks == ASSUME RankingInv, Hydrate PROVE RankingInv'
<1>0. /\ ranked \in Seq(Nat) /\ results \in Seq(Nat) /\ Best(ranked) /\ budget \in Nat
      /\ Listed(dense) /\ Listed(lexical) /\ Len(results) < Len(ranked)
      /\ \A i \in 1..Len(results) : results[i] = ranked[i]
      /\ search_state = "hydrate"
  BY DEF RankingInv, RankingTyped, RankedSoFar, Hydrate
<1>1. PICK k \in Nat : k = Len(results)
  BY <1>0
<1>2. PICK n \in Nat : n = Len(ranked)
  BY <1>0
<1>3. PICK s \in Nat : s = k + 1 /\ s \in 1..n
  <2>1. k + 1 \in Nat /\ k + 1 \in 1..n
    BY <1>0, <1>1, <1>2
  <2>. QED
    BY <2>1
<1>4. PICK c \in Nat : c = ranked[s] /\ c \in Met
  <2>1. ranked[s] \in Met
    BY <1>0, <1>2, <1>3, Zenon DEF Best
  <2>2. ranked[s] \in Nat
    BY <1>0, <2>1, Candidates
  <2>. QED
    BY <2>1, <2>2
<1>5. /\ Bytes[c] <= budget /\ budget' = budget - Bytes[c] /\ results' = Append(results, c)
      /\ UNCHANGED <<mode, limit, dense, lexical, union, ranked, search_state>>
  BY <1>1, <1>3, <1>4 DEF Hydrate
<1>6. budget' \in Nat
  <2>1. Bytes[c] \in Nat
    BY <1>0, <1>4, Candidates
  <2>. QED
    BY <1>0, <1>5, <2>1
<1>7. /\ results' \in Seq(Nat) /\ Len(results') = s
      /\ \A i \in 1..k : results'[i] = results[i]
      /\ results'[s] = c
  BY <1>0, <1>1, <1>3, <1>4, <1>5
<1>8. Len(results') <= n
  BY <1>2, <1>3, <1>7
<1>9. \A i \in 1..s : results'[i] = ranked[i]
  <2>. SUFFICES ASSUME NEW i \in 1..s PROVE results'[i] = ranked[i]
    OBVIOUS
  <2>1. i \in 1..k \/ i = s
    BY <1>3
  <2>. QED
    BY <1>0, <1>1, <1>4, <1>7, <2>1
<1>10. RankingTyped'
  BY <1>2, <1>5, <1>6, <1>7, <1>8 DEF RankingInv, RankingTyped, Listed
<1>11. FusedSoFar'
  BY <1>0, <1>5 DEF FusedSoFar
<1>12. Best(ranked)'
  <2>1. PICK l : l = ranked
    OBVIOUS
  <2>2. Best(l)'
    BY <1>0, <1>5, <2>1, StaysBest
  <2>. QED
    BY <1>5, <2>1, <2>2 DEF Best
<1>13. RankedSoFar'
  BY <1>0, <1>5, <1>7, <1>9, <1>12 DEF RankedSoFar, Unranked
<1>. QED
  BY <1>10, <1>11, <1>13 DEF RankingInv

LEMMA OverBudgetRanks == ASSUME RankingInv, OverBudget PROVE RankingInv'
<1>1. << >> \in Seq(Nat) /\ Len(<< >>) = 0 /\ Len(ranked) \in Nat
  BY DEF RankingInv, RankingTyped
<1>2. RankingTyped'
  BY <1>1 DEF RankingInv, RankingTyped, OverBudget, Listed
<1>3. FusedSoFar' /\ RankedSoFar'
  BY DEF OverBudget, FusedSoFar, RankedSoFar, Unranked
<1>. QED
  BY <1>2, <1>3 DEF RankingInv

LEMMA ReportRanks == ASSUME RankingInv, Report PROVE RankingInv'
<1>0. /\ search_state = "hydrate" /\ Len(results) = Len(ranked) /\ search_state' = "done"
      /\ UNCHANGED <<mode, limit, budget, dense, lexical, union, ranked, results>>
      /\ Best(ranked)
  BY DEF RankingInv, RankedSoFar, Report
<1>1. RankingTyped'
  BY <1>0 DEF RankingInv, RankingTyped, Listed
<1>2. FusedSoFar'
  BY <1>0 DEF FusedSoFar
<1>3. Best(ranked)'
  <2>1. PICK l : l = ranked
    OBVIOUS
  <2>2. Best(l)'
    BY <1>0, <2>1, StaysBest
  <2>. QED
    BY <1>0, <2>1, <2>2 DEF Best
<1>4. RankedSoFar'
  BY <1>0, <1>3 DEF RankingInv, RankedSoFar, Unranked
<1>. QED
  BY <1>1, <1>2, <1>4 DEF RankingInv

LEMMA RankingStepKeeps == RankingInv /\ [RankingNext]_ranking_vars => RankingInv'
<1>. SUFFICES ASSUME RankingInv, [RankingNext]_ranking_vars PROVE RankingInv'
  OBVIOUS
<1>1. CASE Validate \/ Query \/ Single \/ FuseDense \/ FuseLexical
  BY <1>1, ValidateRanks, QueryRanks, SingleRanks, FuseDenseRanks, FuseLexicalRanks
<1>2. CASE Sort \/ Hydrate \/ OverBudget \/ Report
  BY <1>2, SortRanks, HydrateRanks, OverBudgetRanks, ReportRanks
<1>3. CASE UNCHANGED ranking_vars
  <2>1. RankingTyped' /\ FusedSoFar'
    BY <1>3 DEF ranking_vars, RankingInv, RankingTyped, FusedSoFar, Listed, Met, FusedScore
  <2>2. RankedSoFar'
    BY <1>3 DEF ranking_vars, RankingInv, RankedSoFar, Best, Met, Better, FusedScore
  <2>. QED
    BY <2>1, <2>2 DEF RankingInv
<1>. QED
  BY <1>1, <1>2, <1>3 DEF RankingNext

LEMMA RankingRanks == RankingInv => RankingTypeOK /\ RanksAreFused
<1>. SUFFICES ASSUME RankingInv PROVE RankingTypeOK /\ RanksAreFused
  OBVIOUS
<1>1. RankingTypeOK
  BY DEF RankingInv, RankingTyped, RankingTypeOK, Unranked
<1>2. ASSUME search_state = "done"
      PROVE  /\ Len(results) = Min({limit, Cardinality(Met)})
             /\ \A n \in DOMAIN results :
                  /\ results[n] \in Met
                  /\ Cardinality({c \in Met : Better(c, results[n])}) = n - 1
  <2>1. /\ Best(ranked) /\ Len(results) = Len(ranked)
        /\ \A i \in 1..Len(results) : results[i] = ranked[i]
    BY <1>2 DEF RankingInv, RankedSoFar
  <2>2. DOMAIN results = 1..Len(ranked)
    BY <2>1 DEF RankingInv, RankingTyped
  <2>3. Len(results) = Min({limit, Cardinality(Met)})
    BY <2>1 DEF Best
  <2>4. ASSUME NEW n \in 1..Len(ranked)
        PROVE  /\ results[n] = ranked[n] /\ results[n] \in Met
               /\ Cardinality({c \in Met : Better(c, ranked[n])}) = n - 1
    BY <2>1, Zenon DEF Best
  <2>5. ASSUME NEW n \in 1..Len(ranked)
        PROVE  results[n] \in Met /\ Cardinality({c \in Met : Better(c, results[n])}) = n - 1
    <3>1. results[n] = ranked[n]
      BY <2>4
    <3>2. {c \in Met : Better(c, results[n])} = {c \in Met : Better(c, ranked[n])}
      BY <3>1
    <3>. QED
      BY <2>4, <3>2
  <2>. QED
    BY <2>2, <2>3, <2>5
<1>. QED
  BY <1>1, <1>2 DEF RanksAreFused

\* A search that succeeds returns the best of the candidates of both indexes in
\* their order, up to its limit: the fusion loses no share of a chunk, ties go
\* by the id, and the budget cuts no answer short.
THEOREM BestRanks == RankingSpec => []RanksAreFused
<1>1. RankingInv => RanksAreFused
  BY RankingRanks
<1>. QED
  BY <1>1, RankingInitHolds, RankingStepKeeps, PTL DEF RankingSpec

\* A search reports no more than it ranked, and takes no more bytes than its budget.
THEOREM RankingTypes == RankingSpec => []RankingTypeOK
<1>1. RankingInv => RankingTypeOK
  BY RankingRanks
<1>. QED
  BY <1>1, RankingInitHolds, RankingStepKeeps, PTL DEF RankingSpec
=============================================================================
