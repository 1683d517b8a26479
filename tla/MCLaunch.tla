------------------------------ MODULE MCLaunch ------------------------------
(* A small instance of Launch: the generated configuration and five that a  *)
(* user has edited -- duplicate lines, a commented one, a trailing comment, *)
(* an empty value -- over disks with and without the model files.           *)
EXTENDS Launch

Edited(reranker, thinking) ==
  FileOf(<<Line("model_path", "chat")>> \o reranker \o thinking
           \o <<Line("db_conninfo", "socket")>>)

Commented(line) == [line EXCEPT !.commented = TRUE]
Annotated(line) == [line EXCEPT !.comment = TRUE]

Bge == Line("reranker_model_path", "bge")
Other == Line("reranker_model_path", "other")
Nothing == Line("reranker_model_path", Unset)
On == Line("thinking", "on")
Off == Line("thinking", "off")

MCConfigs ==
  {NoFile,
   Edited(<<Other, Bge>>, <<On, Off>>),
   Edited(<<Bge, Commented(Other)>>, <<>>),
   Edited(<<Commented(Bge)>>, <<Annotated(Off)>>),
   Edited(<<Annotated(Bge)>>, <<Off>>),
   Edited(<<Nothing>>, <<>>)}

MCPaths == {"chat", "bge", WithComment("bge"), "other", "default"}

MCDisks == {{}, {"chat"}, {"chat", "bge", "other"}}
=============================================================================
