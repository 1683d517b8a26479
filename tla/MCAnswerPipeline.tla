-------------------------- MODULE MCAnswerPipeline --------------------------
(* Small texts, tables, lexicons and prompts for AnswerPipeline.            *)
EXTENDS AnswerPipeline

(* Words. *)
the == <<"t","h","e">>
king == <<"k","i","n","g">>
King == <<"K","i","n","g",".">>
kings == <<"k","i","n","g","s">>
lord == <<"L","o","r","d">>
ruler == <<"r","u","l","e","r">>
saw == <<"s","a","w">>
see == <<"s","e","e">>
sing == <<"s","i","n","g">>
singing == <<"s","i","n","g","i","n","g">>
edgar == <<"e","d","g","a","r">>
kingsaw == <<"k","i","n","g","-","s","a","w">>
great == <<"g","r","e","a","t">>

MCStopwords == {the}
MCExceptions == [w \in {saw} |-> see]
To(symbol, offset) == [symbol |-> symbol, to |-> offset]
MCDataFiles == [
  noun |-> {[offset |-> 1, words |-> {king, lord}, pointers |-> {To("@", 2), To("~", 3), To("+", 2)}],
            [offset |-> 2, words |-> {ruler}, pointers |-> {To("~", 1)}],
            [offset |-> 3, words |-> {edgar}, pointers |-> {To("@", 1)}]},
  verb |-> {[offset |-> 1, words |-> {see}, pointers |-> {To("+", 1)}],
            [offset |-> 2, words |-> {sing}, pointers |-> {}]}]
MCSynonymRows == << [word |-> sing, neighbors |-> {great}],
                    [word |-> sing, neighbors |-> {see, kingsaw}],
                    [word |-> great, neighbors |-> {}] >>

MCDocuments == {
  <<>>,
  <<King, the, singing, lord>>,
  <<the, lord, saw, King, singing, ruler>>,
  <<great, kings, the, edgar, King>>,
  <<kingsaw, great, king, king, see>> }
MCQuestions == { <<>>, <<the>>, <<King>>, <<kings, king>>, <<great, singing>>, <<the, saw, King>>, <<kingsaw>> }
MCRewritings == { <<>>, <<edgar, see>>, <<the, great>> }
MCReplies == { NoReply, Unparseable, Picks(<<>>), Picks(<<ruler, lord, <<"l","o","r","d">>, king>>),
               Picks(<<edgar, <<"k","-">>, <<>>, great, see, kingsaw>>) }

MCHash == [p \in 1 .. 6 |-> 3 * p]

(* Tables. *)
Cell == { <<>>, <<"a">>, <<"a", Comma>>, <<Quote>>, <<CR, LF>>, <<"a", LF, Quote>> }
Header == << <<"h">>, <<"h">> >>
MCTables == {<<Header>>} \union {<<Header, <<c, d>>>> : c, d \in Cell}
            \union {<<Header, <<c, <<"b">>>>, <<<<"b">>, d>>>> : c, d \in Cell}
            \union {<< <<<<"h">>>>, <<c>> >> : c \in Cell \ {<<>>}}
MCCsvFiles ==
  [table : MCTables, quoteAll : BOOLEAN, lineEnd : {<<LF>>, <<CR>>, <<CR, LF>>, <<LF, LF>>},
   lastEnd : BOOLEAN]
MCAnyFiles == UNION {[1 .. n -> {"a", Quote, Comma, CR, LF}] : n \in 0 .. 5}

MCTurn == [tokens : 0 .. 2, counted : BOOLEAN]
MCPrompt ==
  {[tokens |-> t, counted |-> c, bytes |-> b * t] : t \in 1 .. 6, c \in BOOLEAN, b \in {2, 3, 4}}
=============================================================================
