----------------------------- MODULE ConfigFile -----------------------------
(***************************************************************************)
(* The configuration file lexis.conf: the engine's readers (config.c), the *)
(* settings dialog's readers and writers (ConfigManager.cpp) and the file  *)
(* the first run writes (AppEnvironment.cpp).                              *)
(* A file is missing, or its lines: each a record with its key, its value, *)
(* whether a '#' stands before the key and whether a comment follows the   *)
(* value. Any other line is passed through by every reader and writer and  *)
(* is left out.                                                            *)
(***************************************************************************)
EXTENDS Naturals, Sequences, SequencesExt

NoFile == [exists |-> FALSE, lines |-> <<>>]

FileOf(lines) == [exists |-> TRUE, lines |-> lines]

(* "" is a value that was left empty, and what both readers give for a key  *)
(* no line sets.                                                            *)
Unset == ""

(* The value the engine's parser meets on a line with a trailing comment:   *)
(* it takes the comment for a part of it.                                   *)
WithComment(v) == v \o "  # comment"

Line(key, value) ==
  [key |-> key, value |-> value, commented |-> FALSE, comment |-> FALSE]

-----------------------------------------------------------------------------
(* Both parsers: the last line that is not commented out wins.              *)
IsActive(line, key) == line.key = key /\ ~line.commented

LastKeyLine(file, key) ==
  SelectLastInSeq(file.lines, LAMBDA line : IsActive(line, key))

(* What the engine reads for a key.                                         *)
FindLastValue(file, key) ==
  LET i == LastKeyLine(file, key) IN
  CASE i = 0                           -> Unset
    [] i # 0 /\ file.lines[i].comment  -> WithComment(file.lines[i].value)
    [] i # 0 /\ ~file.lines[i].comment -> file.lines[i].value

ModelPath(file, default) ==
  LET v == FindLastValue(file, "model_path") IN IF v = Unset THEN default ELSE v

RerankerModelPath(file) == FindLastValue(file, "reranker_model_path")

DbConninfo(file) == FindLastValue(file, "db_conninfo")

(* What the dialog reads.                                                   *)
DialogValue(file, key) ==
  LET i == LastKeyLine(file, key) IN
  IF i = 0 THEN Unset ELSE file.lines[i].value

ThinkingEnabled(file) == DialogValue(file, "thinking") # "off"

RerankerEnabled(file) == DialogValue(file, "reranker_model_path") # Unset

-----------------------------------------------------------------------------
(* The dialog's writers: the lines they save.                               *)

UpdateKeyLine(lines, key, value) ==
  LET i == SelectLastInSeq(lines, LAMBDA line : IsActive(line, key)) IN
  IF i = 0 THEN Append(lines, Line(key, value))
           ELSE [lines EXCEPT ![i].value = value]

SetThinking(lines, on) ==
  UpdateKeyLine(lines, "thinking", IF on THEN "on" ELSE "off")

CommentOutKeyLine(lines, key) ==
  [i \in DOMAIN lines |->
     IF IsActive(lines[i], key) THEN [lines[i] EXCEPT !.commented = TRUE] ELSE lines[i]]

RememberedLine(lines, key) ==
  SelectLastInSeq(lines, LAMBDA line : line.key = key /\ line.commented)

(* The switch cannot be turned on without a line that names a path.         *)
CanSetReranker(file, on) ==
  \/ ~on
  \/ RememberedLine(file.lines, "reranker_model_path") # 0
  \/ RerankerEnabled(file)

(* Turning it on takes the mark off the last commented line.                *)
SetReranker(lines, on) ==
  LET i == RememberedLine(lines, "reranker_model_path") IN
  CASE ~on          -> CommentOutKeyLine(lines, "reranker_model_path")
    [] on /\ i # 0  -> [lines EXCEPT ![i].commented = FALSE]
    [] on /\ i = 0  -> lines
=============================================================================
