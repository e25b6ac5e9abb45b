------------------------------- MODULE Windows -------------------------------
(***************************************************************************)
(* The token windows of a text: `windows` and `from_offsets` of            *)
(* chunk/mod.rs.  Every pass of the loop makes a chunk; the next one       *)
(* begins `overlap` tokens before its end.  The tokenizer gives the byte   *)
(* range of each token: ranges leave out spaces, may be empty, and the     *)
(* tokens of one character share its range.                                *)
(***************************************************************************)
EXTENDS Naturals, Sequences

CONSTANTS
  Texts,      \* pairs of a length and the byte ranges of the tokens
  Boundaries, \* positions at which a character of a text begins or ends
  Sizes       \* pairs of a window size and an overlap

\* What the tokenizer promises: the ranges of the tokens lie in the text, and
\* neither their beginnings nor their ends ever go back.
ASSUME WindowsAssumption ==
  /\ \A text \in Texts :
       /\ text[1] \in Nat /\ text[2] \in Seq(Nat \X Nat)
       /\ \A i \in DOMAIN text[2] : text[2][i][2] <= text[1]
       /\ \A i, j \in DOMAIN text[2] :
            i <= j => text[2][i][1] <= text[2][j][1] /\ text[2][i][2] <= text[2][j][2]
  /\ Sizes \subseteq Nat \X Nat

VARIABLES
  length, offsets,   \* the text
  size, overlap,
  start, chunks, state

windows_vars == <<length, offsets, size, overlap, start, chunks, state>>

Lower(a, b) == IF a < b THEN a ELSE b
Higher(a, b) == IF a < b THEN b ELSE a

WindowsInit ==
  /\ \E text \in Texts : length = text[1] /\ offsets = text[2]
  /\ \E s \in Sizes : size = s[1] /\ overlap = s[2]
  /\ start = 0 /\ chunks = << >> /\ state = "check"

\* "invalid token window": two tokens of a window are special ones.
Check ==
  /\ state = "check"
  /\ state' = IF size >= 3 /\ overlap < size - 2 THEN "loop" ELSE "failed"
  /\ UNCHANGED <<length, offsets, size, overlap, start, chunks>>

capacity == size - 2
tokens == Len(offsets)
End == Lower(start + capacity, tokens)

\* Tokens are counted from 0: token i is offsets[i + 1].
ByteStart == IF start = 0 THEN 0 ELSE offsets[start + 1][1]

\* A wrong form: a window ends where its last token does.
EndOfToken == IF End = tokens THEN length ELSE offsets[End][2]
\* It ends there or where the next token begins, whatever is later.
ByteEnd == IF End = tokens THEN length ELSE Higher(offsets[End][2], offsets[End + 1][1])

Sliceable == ByteStart <= ByteEnd /\ {ByteStart, ByteEnd} \subseteq Boundaries

Window ==
  /\ state = "loop" /\ start < tokens /\ Sliceable
  /\ chunks' = Append(chunks,
       [token_start |-> start, token_end |-> End,
        byte_start |-> ByteStart, byte_end |-> ByteEnd])
  /\ IF End = tokens THEN state' = "done" /\ UNCHANGED start
     ELSE start' = End - overlap /\ UNCHANGED state
  /\ UNCHANGED <<length, offsets, size, overlap>>

\* "tokenizer returned invalid UTF-8 offsets"
Invalid ==
  /\ state = "loop" /\ start < tokens /\ ~Sliceable /\ state' = "failed"
  /\ UNCHANGED <<length, offsets, size, overlap, start, chunks>>

NoTokens ==
  /\ state = "loop" /\ start >= tokens /\ state' = "done"
  /\ UNCHANGED <<length, offsets, size, overlap, start, chunks>>

WindowsNext == Check \/ Window \/ Invalid \/ NoTokens
WindowsSpec == WindowsInit /\ [][WindowsNext]_windows_vars

-----------------------------------------------------------------------------
(* Properties.                                                             *)

\* The type invariant.
WindowsTypeOK ==
  /\ state \in {"check", "loop", "done", "failed"} /\ start \in 0..tokens
  /\ Len(chunks) <= tokens

\* The windows lose nothing: they begin with the text, each takes no more
\* tokens than fit and shares exactly the overlap with the one before, no byte
\* falls between two, every token lies in the bytes of its windows, and what
\* ends normally has reached the end of the tokens and of the text.
WindowsCover ==
  /\ \A n \in DOMAIN chunks :
       LET at == chunks[n]
       IN /\ at.token_end - at.token_start \in 1..capacity
          /\ \A i \in at.token_start + 1..at.token_end :
               at.byte_start <= offsets[i][1] /\ offsets[i][2] <= at.byte_end
          /\ IF n = 1 THEN at.token_start = 0 /\ at.byte_start = 0
             ELSE LET before == chunks[n - 1]
                  IN /\ at.token_start = before.token_end - overlap
                     /\ at.token_end > before.token_end
                     /\ at.byte_start <= before.byte_end
  /\ state = "done" /\ tokens > 0 =>
       chunks[Len(chunks)].token_end = tokens /\ chunks[Len(chunks)].byte_end = length
=============================================================================
