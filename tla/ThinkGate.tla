------------------------------ MODULE ThinkGate ------------------------------
(***************************************************************************)
(* What becomes of a model's reply on its way to the screen                *)
(* (local_llm_client.c, QueryWorker.cpp). The reply may open with a block  *)
(* of reasoning. The reply that is returned has the block stripped from    *)
(* it as a whole; the text that is shown while the reply is still being    *)
(* decoded comes, piece by piece, through a gate that must not show any of *)
(* the block, and through a bridge that must not show half a character.    *)
(* Text is a sequence of symbols, a symbol being a few bytes.              *)
(***************************************************************************)
EXTENDS Naturals, Sequences, SequencesExt, FiniteSetsExt

(* Two kinds of block: they begin alike.                                    *)
kThinkFormats == <<
  [open |-> <<"<", "think>">>,    close |-> <<"<", "/think>">>],
  [open |-> <<"<", "|channel>">>, close |-> <<"<", "channel|>">>] >>

Blank == " "

(* A character of two bytes: its first byte and its second.                 *)
Lead == "lead"
Continuation == "cont"

Symbols == {"<", "think>", "/think>", "|channel>", "channel|>", Blank, Lead, Continuation}

(* The positions of text, from a given one on, at which mark stands.        *)
Occurrences(text, mark, from) ==
  {i \in from .. Len(text) : /\ i + Len(mark) - 1 <= Len(text)
                             /\ SubSeq(text, i, i + Len(mark) - 1) = mark}

SkipBlanks(text) ==
  LET rest == {i \in DOMAIN text : text[i] # Blank}
  IN  IF rest = {} THEN <<>> ELSE SubSeq(text, Min(rest), Len(text))

From(text, i) == SubSeq(text, i, Len(text))

(* A leading block that is closed goes, with the blanks behind it; one that *)
(* is never closed stays.                                                   *)
StripLeadingThinkBlock(reply) ==
  LET opened == {f \in DOMAIN kThinkFormats : IsPrefix(kThinkFormats[f].open, reply)}
  IN  IF opened = {} THEN reply
      ELSE LET f == kThinkFormats[Min(opened)]
               ends == Occurrences(reply, f.close, Len(f.open) + 1)
           IN  IF ends = {} THEN reply
               ELSE SkipBlanks(From(reply, Min(ends) + Len(f.close)))

-----------------------------------------------------------------------------
(* The gate: which kinds of block the held text may still open, or which    *)
(* one it has opened and how far it has been searched for the end.          *)

FreshGate ==
  [phase |-> "deciding", alive |-> DOMAIN kThinkFormats, format |-> 1,
   scanned |-> 0, skip |-> FALSE, held |-> <<>>]

Released(gate, skip) == [gate EXCEPT !.phase = "released", !.held = <<>>, !.skip = skip]

(* After the block: blanks behind it are still dropped, across pieces.      *)
Pass(gate, piece) ==
  LET text == IF gate.skip THEN SkipBlanks(piece) ELSE piece
  IN  [gate |-> [gate EXCEPT !.skip = @ /\ text = <<>>], out |-> text]

(* Searches again only what a mark cut in two by a piece could need.        *)
(* Mutant: searches what has come since.                                    *)
ScanOnlyNew(gate) ==
  LET close == kThinkFormats[gate.format].close
      ends == Occurrences(gate.held, close, gate.scanned + 1)
  IN  IF ends = {} THEN [gate |-> [gate EXCEPT !.scanned = Len(gate.held)], out |-> <<>>]
      ELSE LET rest == SkipBlanks(From(gate.held, Min(ends) + Len(close)))
           IN  [gate |-> Released(gate, rest = <<>>), out |-> rest]

ScanForEnd(gate) ==
  LET close == kThinkFormats[gate.format].close
      from == IF gate.scanned >= Len(close) - 1 THEN gate.scanned - (Len(close) - 1) ELSE 0
      ends == Occurrences(gate.held, close, from + 1)
  IN  IF ends = {} THEN [gate |-> [gate EXCEPT !.scanned = Len(gate.held)], out |-> <<>>]
      ELSE LET rest == SkipBlanks(From(gate.held, Min(ends) + Len(close)))
           IN  [gate |-> Released(gate, rest = <<>>), out |-> rest]

(* Text is held as long as it may still turn out to open a block.           *)
Decide(gate) ==
  LET matched == {f \in gate.alive : IsPrefix(kThinkFormats[f].open, gate.held)}
      alive == {f \in gate.alive : IsPrefix(gate.held, kThinkFormats[f].open)}
  IN  IF matched # {}
      THEN ScanForEnd([gate EXCEPT !.phase = "inside", !.format = Min(matched), !.scanned = 0])
      ELSE IF alive = {}
           THEN [gate |-> Released(gate, FALSE), out |-> gate.held]
           ELSE [gate |-> [gate EXCEPT !.alive = alive], out |-> <<>>]

Feed(gate, piece) ==
  IF gate.phase = "released" THEN Pass(gate, piece)
  ELSE LET held == [gate EXCEPT !.held = @ \o piece]
       IN  IF gate.phase = "deciding" THEN Decide(held) ELSE ScanForEnd(held)

(* When the reply ends: a block that was opened and never closed is shown.  *)
Flush(gate) == gate.held

-----------------------------------------------------------------------------
(* The bridge keeps back the last character of what it holds while bytes of *)
(* it are missing. Text it cannot make sense of passes.                     *)

Needed(byte) == IF byte = Lead THEN 2 ELSE 1

CompletePrefix(buf) ==
  LET heads == {back \in 1 .. Len(buf) : back <= 4 /\ buf[Len(buf) - back + 1] # Continuation}
  IN  IF heads = {} THEN buf
      ELSE LET back == Min(heads)
           IN  IF back >= Needed(buf[Len(buf) - back + 1]) THEN buf
               ELSE SubSeq(buf, 1, Len(buf) - back)

(* What the screen gets of a piece, and what is kept for the next.          *)
Bridge(pending, piece) ==
  LET buf == pending \o piece
      ready == CompletePrefix(buf)
  IN  [shown |-> ready, pending |-> From(buf, Len(ready) + 1)]
=============================================================================
