----------------------------- MODULE ModelSetup -----------------------------
(***************************************************************************)
(* The first-run download of the models (SetupController): a queue of      *)
(* missing files, fetched one at a time into a partial file beside the     *)
(* target, resumed after a failure and moved into place when complete.     *)
(* A file is a sequence of pieces; the server's file is 1 .. Size, and an  *)
(* error reply's body is one piece of its own. The module has the          *)
(* controller's handlers and the server; Launch embeds them in the         *)
(* application, whose crashes and restarts they must survive.              *)
(***************************************************************************)
EXTENDS Naturals, Sequences

CONSTANTS
  Paths,       (* where a model file may have to be                         *)
  Size,        (* the pieces of a model file                                *)
  MaxRequests, (* bound: requests sent                                      *)
  MaxFaults    (* bound: faults of every kind                               *)

ASSUME ModelSetupAssumption ==
  Size \in Nat \ {0} /\ MaxRequests \in Nat /\ MaxFaults \in Nat

VARIABLES
  part, target, (* disk: the partial file and the model file of each path,  *)
                (* the empty sequence where there is none                   *)
  pending,      (* m_pending                                                *)
  downloading,  (* m_downloading                                            *)
  required,     (* m_required                                               *)
  reply,        (* m_reply: the request, and how much of its answer is due  *)
  resume,       (* m_resumeOffset                                           *)
  flushed,      (* the length of the partial file that is certainly on disk *)
  spoilt,       (* history: the paths whose partial file the disk did not   *)
                (* take as it was written                                   *)
  faults, requests

setupVars ==
  <<part, target, pending, downloading, required, reply, resume, flushed, spoilt, requests>>

WholeFile == [i \in 1 .. Size |-> i]

ErrorBody == 0

(* A file that exists and has nothing in it.                                *)
EmptyFile == <<Size + 1>>

NoReply == [status |-> "none"]

Fault == faults < MaxFaults /\ faults' = faults + 1

-----------------------------------------------------------------------------
(* SetupController::SetupController. The queue holds what is missing: the   *)
(* chat model when its file name tells where to fetch it, the reranker's    *)
(* model when one is configured.                                            *)
IsMissing(path) == path \in Paths /\ target[path] = <<>>

OpenSetup(queue) ==
  /\ pending' = queue
  /\ required' = (queue # <<>>)
  /\ downloading' = FALSE /\ reply' = NoReply /\ resume' = 0 /\ flushed' = 0
  /\ UNCHANGED <<part, target, spoilt, requests>>

(* startNext, with the queue and the files it finds: the last file is in    *)
(* place, or the next is requested from where its partial file ends, or     *)
(* that file cannot be opened.                                              *)
SetupIsComplete(queue) ==
  /\ queue = <<>>
  /\ downloading' = FALSE /\ required' = FALSE
  /\ reply' = NoReply
  /\ UNCHANGED <<resume, flushed, faults, requests>>

Request(queue, files) ==
  /\ queue # <<>>
  /\ requests < MaxRequests
  /\ downloading' = TRUE
  /\ LET offset == Len(files[Head(queue)]) IN
       /\ reply' = [status |-> "sent", file |-> Head(queue), from |-> offset]
       /\ resume' = offset /\ flushed' = offset
  /\ requests' = requests + 1
  /\ UNCHANGED <<required, faults>>

CannotOpen(queue) ==
  /\ queue # <<>>
  /\ Fault
  /\ downloading' = FALSE /\ reply' = NoReply
  /\ UNCHANGED <<required, resume, flushed, requests>>

StartNext(queue, files) ==
  SetupIsComplete(queue) \/ Request(queue, files) \/ CannotOpen(queue)

StartDownload ==
  /\ ~downloading /\ pending # <<>>
  /\ StartNext(pending, part)
  /\ UNCHANGED <<part, target, pending, spoilt>>

-----------------------------------------------------------------------------
(* The server: the rest of the file, the whole file although a rest was     *)
(* asked for, or an error with a body. There is no rest of a file that is   *)
(* asked for from its end.                                                  *)
Answer(status, next) ==
  reply' = [status |-> status, file |-> reply.file, next |-> next]

ServerAnswers ==
  /\ reply.status = "sent"
  /\ \/ Answer("whole", 1) /\ UNCHANGED faults
     \/ reply.from \in 1 .. Size - 1 /\ Answer("partial", reply.from + 1) /\ UNCHANGED faults
     \/ reply.from >= Size /\ Answer("error", ErrorBody) /\ UNCHANGED faults
     \/ reply.from < Size /\ Answer("error", ErrorBody) /\ Fault
  /\ UNCHANGED <<part, target, pending, downloading, required, resume, flushed, spoilt,
                 requests>>

(* readyRead. A whole file where a rest was asked for replaces what there   *)
(* was. Neither cutting the file nor writing to it is checked: on a full    *)
(* disk what there was may stay, and the piece may be lost.                 *)
StartsOver == resume > 0 /\ reply.status = "whole"

(* Mutant: the partial file is kept.                                        *)
KeptPartKeepingAll == part[reply.file]

KeptPart == IF StartsOver THEN <<>> ELSE part[reply.file]

HasBody ==
  \/ reply.status \in {"whole", "partial"} /\ reply.next <= Size
  \/ reply.status = "error" /\ reply.next = ErrorBody

Written ==
  /\ part' = [part EXCEPT ![reply.file] = Append(KeptPart, reply.next)]
  /\ UNCHANGED <<spoilt, faults>>

NotWritten ==
  /\ \/ part' = [part EXCEPT ![reply.file] = KeptPart]
     \/ StartsOver /\ UNCHANGED part
     \/ StartsOver /\ part' = [part EXCEPT ![reply.file] = Append(@, reply.next)]
  /\ spoilt' = spoilt \union {reply.file}
  /\ Fault

ReadyRead ==
  /\ HasBody
  /\ Written \/ NotWritten
  /\ IF StartsOver THEN resume' = 0 /\ flushed' = 0 ELSE UNCHANGED <<resume, flushed>>
  /\ reply' = [reply EXCEPT !.next = @ + 1]
  /\ UNCHANGED <<target, pending, downloading, required, requests>>

(* finished, with an error: the partial file stays for the next attempt.    *)
ReplyFails ==
  /\ \/ reply.status = "error" /\ ~HasBody /\ UNCHANGED faults
     \/ reply.status \in {"sent", "whole", "partial"} /\ Fault
  /\ downloading' = FALSE /\ reply' = NoReply
  /\ UNCHANGED <<part, target, pending, required, resume, flushed, spoilt, requests>>

(* finished, without one: the item leaves the queue before its file is      *)
(* moved into place, which may fail. Its length is not looked at.           *)
Moved(file) == IF file = <<>> THEN EmptyFile ELSE file

ReplyFinished ==
  /\ reply.status \in {"whole", "partial"} /\ ~HasBody
  /\ pending' = Tail(pending)
  /\ \/ /\ target' = [target EXCEPT ![reply.file] = Moved(part[reply.file])]
        /\ part' = [part EXCEPT ![reply.file] = <<>>]
        /\ StartNext(pending', part')
     \/ /\ target' = [target EXCEPT ![reply.file] = <<>>]
        /\ Fault
        /\ downloading' = FALSE /\ reply' = NoReply
        /\ UNCHANGED <<part, required, resume, flushed, requests>>
  /\ UNCHANGED spoilt

SetupStep ==
  StartDownload \/ ServerAnswers \/ ReadyRead \/ ReplyFails \/ ReplyFinished

-----------------------------------------------------------------------------
(* The process dies: the end of what was written may be lost. On an orderly *)
(* exit the file is closed first and nothing is.                            *)
LoseUnflushed ==
  \E kept \in flushed .. (IF reply = NoReply THEN flushed ELSE Len(part[reply.file])) :
    part' = IF reply = NoReply THEN part
            ELSE [part EXCEPT ![reply.file] = SubSeq(@, 1, kept)]

CloseSetup ==
  /\ pending' = <<>> /\ downloading' = FALSE /\ required' = FALSE
  /\ reply' = NoReply /\ resume' = 0 /\ flushed' = 0
  /\ UNCHANGED <<target, spoilt, requests>>

(* A model file in place is the server's whole file, whatever request or    *)
(* move failed and however often the file was resumed, started over or cut  *)
(* short by a crash on the way. Two things do get into a model file, for    *)
(* the code checks neither the length nor the content of what it installs   *)
(* (SetupController::startNext): the body of an error reply, which is       *)
(* appended to the partial file like any other; and the gap a full disk     *)
(* leaves, for a write or a resize that fails goes unnoticed.               *)
InstalledModelIsWhole ==
  \A p \in Paths \ spoilt :
    (\A i \in DOMAIN target[p] : target[p][i] # ErrorBody) =>
      target[p] \in {<<>>, WholeFile}
=============================================================================
