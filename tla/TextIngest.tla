----------------------------- MODULE TextIngest -----------------------------
(***************************************************************************)
(* Reading uploaded text: the strict CSV reader (csv_parse.c), one state   *)
(* per character read, and the cutting of a document's words into          *)
(* overlapping chunks (ingest.c). Characters and words are plain values.   *)
(***************************************************************************)
EXTENDS Naturals, Sequences, FiniteSets, SequencesExt

Quote == "quote"
Comma == "comma"
CR == "CR"
LF == "LF"
Space == " "

NoHeader == 0

(* The reader before its first character. rows keeps what finished rows     *)
(* were made of, the header excepted; width is the header's field count.    *)
FreshReader ==
  [at |-> "fieldStart", field |-> <<>>, row |-> <<>>, rows |-> <<>>,
   width |-> NoHeader, content |-> FALSE, next |-> 1, outcome |-> "reading"]

(* The fields of a row, joined by single blanks.                            *)
JoinWords(row) ==
  IF row = <<>> THEN <<>>
  ELSE FoldLeft(LAMBDA text, field : text \o <<Space>> \o field, Head(row), Tail(row))

EndField(r) ==
  [r EXCEPT !.row = Append(@, r.field), !.field = <<>>, !.at = "fieldStart"]

(* The first row fixes how many fields every other row must have.           *)
FinishRow(r) ==
  LET row == Append(r.row, r.field)
      done == [r EXCEPT !.row = <<>>, !.field = <<>>, !.at = "fieldStart", !.content = FALSE]
  IN  CASE r.width = NoHeader -> [done EXCEPT !.width = Len(row)]
        [] r.width # NoHeader /\ Len(row) # r.width -> [done EXCEPT !.outcome = "failed"]
        [] OTHER -> [done EXCEPT !.rows = Append(@, JoinWords(row))]

AppendChar(r, c, state) ==
  [r EXCEPT !.field = Append(@, c), !.content = TRUE, !.at = state]

Fail(r) == [r EXCEPT !.outcome = "failed"]

(* A blank line, or the end of the file after the last line end.            *)
IsBlank(r) == r.at = "fieldStart" /\ ~r.content /\ r.field = <<>> /\ r.row = <<>>

(* One character, or the end of the file in its place.                      *)
Consume(r, c, eof) ==
  LET newline == ~eof /\ c \in {CR, LF}
  IN  CASE r.at = "quoted" ->
             (CASE eof -> Fail(r)
                [] c = Quote /\ ~eof -> [r EXCEPT !.at = "quoteSeen"]
                [] OTHER -> AppendChar(r, c, "quoted"))
        [] r.at = "quoteSeen" ->
             (CASE c = Quote /\ ~eof -> [r EXCEPT !.field = Append(@, c), !.at = "quoted"]
                [] c = Comma /\ ~eof -> EndField(r)
                [] eof \/ newline -> FinishRow(r)
                [] OTHER -> Fail(r))
        [] OTHER ->
             (CASE ~eof /\ c = Quote ->
                     IF r.at = "fieldStart" THEN [r EXCEPT !.at = "quoted", !.content = TRUE]
                     ELSE Fail(r)
                [] ~eof /\ c = Comma -> [EndField(r) EXCEPT !.content = TRUE]
                [] eof \/ newline -> IF IsBlank(r) THEN r ELSE FinishRow(r)
                [] OTHER -> AppendChar(r, c, "unquoted"))

(* The line feed of a CR LF pair is read together with its CR, except       *)
(* within quotes.                                                           *)
StepWidth(r, text) ==
  IF /\ r.at # "quoted" /\ text[r.next] = CR
     /\ r.next < Len(text) /\ text[r.next + 1] = LF
  THEN 2 ELSE 1

ReadChar(r, text) ==
  LET eof == r.next > Len(text)
      s == Consume(r, IF eof THEN LF ELSE text[r.next], eof)
  IN  IF s.outcome = "failed" THEN s
      ELSE IF eof
           THEN [s EXCEPT !.outcome = IF s.width = NoHeader THEN "failed" ELSE "read"]
           ELSE [s EXCEPT !.next = r.next + StepWidth(r, text)]

-----------------------------------------------------------------------------
(* A way to write a table that the reader accepts, to compare its result    *)
(* with: cells quoted where asked for and where they have to be, one kind   *)
(* of line end, with or without one after the last line.                    *)

MustQuote(cell) == \E i \in DOMAIN cell : cell[i] \in {Quote, Comma, CR, LF}

WriteCell(cell, quoteAll) ==
  IF ~quoteAll /\ ~MustQuote(cell) THEN cell
  ELSE <<Quote>> \o FlattenSeq([i \in DOMAIN cell |->
                      IF cell[i] = Quote THEN <<Quote, Quote>> ELSE <<cell[i]>>])
       \o <<Quote>>

WriteRow(row, quoteAll) ==
  FlattenSeq([i \in DOMAIN row |->
    (IF i = 1 THEN <<>> ELSE <<Comma>>) \o WriteCell(row[i], quoteAll)])

WriteTable(table, quoteAll, lineEnd, lastEnd) ==
  FlattenSeq([i \in DOMAIN table |->
    WriteRow(table[i], quoteAll) \o
    (IF i < Len(table) \/ lastEnd THEN lineEnd ELSE <<>>)])

-----------------------------------------------------------------------------
(* The format itself, as a property of a text and not as a way to read it.  *)
(* A place is outside of quotes when the number of quotes before it is      *)
(* even; what is outside may separate fields and lines.                     *)

Breaks == {CR, LF}
Marks == {Comma, CR, LF}

Outside(text, i) == Cardinality({j \in 1 .. i - 1 : text[j] = Quote}) % 2 = 0

(* A quote opens a field, or closes one, or is one of two in a row.         *)
QuotesMatch(text) ==
  /\ Outside(text, Len(text) + 1)
  /\ \A i \in DOMAIN text : text[i] = Quote =>
       IF Outside(text, i)
       THEN i = 1 \/ text[i-1] = Quote \/ (text[i-1] \in Marks /\ Outside(text, i - 1))
       ELSE i = Len(text) \/ text[i+1] \in Marks \union {Quote}

LineBreaks(text) == {i \in DOMAIN text : text[i] \in Breaks /\ Outside(text, i)}

(* A line that is not blank: what is between two breaks, the beginning and  *)
(* the end of the text included.                                            *)
Lines(text) ==
  LET ends == LineBreaks(text)
  IN  {l \in [from : ends \union {0}, to : ends \union {Len(text) + 1}] :
         l.from + 1 < l.to /\ \A k \in ends : k <= l.from \/ l.to <= k}

FieldCount(text, l) ==
  1 + Cardinality({i \in l.from + 1 .. l.to - 1 : text[i] = Comma /\ Outside(text, i)})

IsWellFormed(text) ==
  /\ QuotesMatch(text)
  /\ Lines(text) # {}
  /\ \A l, m \in Lines(text) : FieldCount(text, l) = FieldCount(text, m)

-----------------------------------------------------------------------------
(* Chunks: windows of size words, each beginning size - overlap words after *)
(* the one before, until one reaches the last word.                         *)

IsChunking(size, overlap) == size > 0 /\ overlap < size

FreshChunker == [start |-> 0, chunks |-> <<>>, outcome |-> "cutting"]

ChunkEnd(c, words, size) ==
  IF c.start + size > Len(words) THEN Len(words) ELSE c.start + size

(* Mutant: the last chunk is only noticed by where the next one would begin *)
CutChunkTooMany(c, words, size, overlap) ==
  LET end == ChunkEnd(c, words, size)
      next == c.start + size - overlap
  IN  [start |-> next,
       chunks |-> Append(c.chunks, SubSeq(words, c.start + 1, end)),
       outcome |-> IF next >= Len(words) THEN "cut" ELSE "cutting"]

CutChunk(c, words, size, overlap) ==
  LET end == ChunkEnd(c, words, size)
      chunk == SubSeq(words, c.start + 1, end)
  IN  IF words = <<>> THEN [c EXCEPT !.outcome = "cut"]
      ELSE IF end = Len(words)
           THEN [c EXCEPT !.chunks = Append(@, chunk), !.outcome = "cut"]
           ELSE [c EXCEPT !.chunks = Append(@, chunk),
                          !.start = @ + size - overlap]
=============================================================================
