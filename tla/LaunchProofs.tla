----------------------------- MODULE LaunchProofs -----------------------------
(***************************************************************************)
(* Proofs about the application from launch to launch, for every           *)
(* configuration file, every disk and every number of processes, faults,   *)
(* switches and questions: the server and the connection to it, the model  *)
(* files in place, and the settings and the questions that obey them.      *)
(***************************************************************************)
EXTENDS Launch, SequenceTheorems, WellFoundedInduction, TLAPS

-----------------------------------------------------------------------------
(* The download. What is on disk while a file is fetched, resumed, started  *)
(* over, cut short by a crash and moved into place.                         *)

(* No piece of an error reply is in the file.                               *)
IsClean(file) == \A i \in DOMAIN file : file[i] # ErrorBody

(* Up to the first error reply the pieces are the server's, in order.       *)
InOrder(file) ==
  \A i \in DOMAIN file :
    file[i] = i \/ \E j \in DOMAIN file : j <= i /\ file[j] = ErrorBody

Requests == [status : {"sent"}, file : Paths, from : Nat]

Answers == [status : {"whole", "partial", "error"}, file : Paths, next : Nat]

SetupTypes ==
  /\ part \in [Paths -> Seq(Nat)]
  /\ target \in [Paths -> Seq(Nat)]
  /\ pending \in Seq(Paths)
  /\ reply \in {NoReply} \union Requests \union Answers
  /\ resume \in Nat /\ flushed \in Nat

(* Where the disk took what was written to it.                              *)
PartsInOrder == \A p \in Paths \ spoilt : InOrder(part[p])

(* The request asks for what its partial file lacks.                        *)
RequestFits ==
  reply \in Requests => reply.from = Len(part[reply.file]) /\ resume = reply.from

(* The next piece of an answer is the one its partial file lacks, unless    *)
(* the answer starts over.                                                  *)
AnswerFits ==
  reply \in Answers /\ reply.status # "error" =>
    /\ reply.next \in 1 .. Size + 1
    /\ StartsOver => reply.next = 1
    /\ ~StartsOver /\ reply.file \notin spoilt /\ IsClean(part[reply.file]) =>
         reply.next = Len(part[reply.file]) + 1

SetupInv ==
  /\ SetupTypes
  /\ PartsInOrder
  /\ RequestFits
  /\ AnswerFits
  /\ InstalledModelIsWhole

-----------------------------------------------------------------------------
(* Lemmas about files.                                                      *)

LEMMA WholeFileIsAFile ==
  WholeFile \in Seq(Nat) /\ Len(WholeFile) = Size
<1>1. Size \in Nat /\ \A i \in 1 .. Size : i \in Nat
  BY ModelSetupAssumption
<1>2. WholeFile \in Seq(Nat)
  BY <1>1, IsASeq DEF WholeFile
<1>3. DOMAIN WholeFile = 1 .. Size
  BY DEF WholeFile
<1>4. QED BY <1>1, <1>2, <1>3, LenProperties

LEMMA NoFileIsInOrder ==
  <<>> \in Seq(Nat) /\ InOrder(<<>>) /\ IsClean(<<>>) /\ Len(<<>>) = 0
<1>1. <<>> \in Seq(Nat) /\ Len(<<>>) = 0 /\ DOMAIN <<>> = {}
  BY EmptySeq
<1>2. QED BY <1>1 DEF InOrder, IsClean

(* A clean file in order that is long enough is the server's.               *)
LEMMA CleanAndLongIsWhole ==
  ASSUME NEW file \in Seq(Nat), InOrder(file), IsClean(file),
         Len(file) = Size
  PROVE  file = WholeFile
<1>1. DOMAIN file = 1 .. Len(file)
  BY LenProperties
<1>2. \A i \in 1 .. Len(file) : file[i] = WholeFile[i]
  BY <1>1 DEF InOrder, IsClean, WholeFile
<1>3. QED BY <1>2, WholeFileIsAFile, SeqEqual

(* A piece is appended to a file it fits.                                   *)
LEMMA PieceAppended ==
  ASSUME NEW file \in Seq(Nat), InOrder(file), NEW piece \in Nat,
         piece = ErrorBody \/ (IsClean(file) => piece = Len(file) + 1)
  PROVE  LET new == Append(file, piece)
         IN  /\ new \in Seq(Nat) /\ InOrder(new) /\ Len(new) = Len(file) + 1
             /\ IsClean(new) => IsClean(file)
<1> DEFINE new == Append(file, piece)
<1>1. /\ new \in Seq(Nat) /\ Len(new) = Len(file) + 1 /\ Len(file) \in Nat
      /\ new[Len(file) + 1] = piece
      /\ \A i \in 1 .. Len(file) : new[i] = file[i]
      /\ DOMAIN file = 1 .. Len(file)
  BY AppendProperties, LenProperties
<1> HIDE DEF new
<1>2. DOMAIN new = 1 .. Len(file) + 1
  BY <1>1, LenProperties
<1>3. IsClean(new) => IsClean(file)
  BY <1>1, <1>2 DEF IsClean
<1>4. ASSUME NEW i \in DOMAIN new
      PROVE  new[i] = i \/ \E j \in DOMAIN new : j <= i /\ new[j] = ErrorBody
  <2>1. CASE i \in DOMAIN file
    <3>1. new[i] = file[i]
      BY <1>1, <2>1
    <3>2. CASE file[i] = i
      BY <3>1, <3>2
    <3>3. CASE \E j \in DOMAIN file : j <= i /\ file[j] = ErrorBody
      <4>1. PICK j \in DOMAIN file : j <= i /\ file[j] = ErrorBody
        BY <3>3
      <4>2. j \in DOMAIN new /\ new[j] = ErrorBody
        BY <1>1, <1>2, <4>1
      <4>3. QED BY <4>1, <4>2
    <3>4. QED BY <2>1, <3>2, <3>3 DEF InOrder
  <2>2. CASE i = Len(file) + 1
    <3>1. CASE piece = ErrorBody \/ piece = Len(file) + 1
      BY <1>1, <1>2, <2>2, <3>1
    <3>2. CASE ~IsClean(file)
      <4>1. PICK j \in DOMAIN file : file[j] = ErrorBody
        BY <3>2 DEF IsClean
      <4>2. j \in DOMAIN new /\ new[j] = ErrorBody /\ j <= i
        BY <1>1, <1>2, <2>2, <4>1
      <4>3. QED BY <4>2
    <3>3. QED BY <3>1, <3>2
  <2>3. QED BY <1>1, <1>2, <2>1, <2>2
<1>5. QED BY <1>1, <1>3, <1>4 DEF InOrder, new

(* The end of a file is cut off.                                            *)
LEMMA EndCutOff ==
  ASSUME NEW file \in Seq(Nat), NEW kept \in 0 .. Len(file)
  PROVE  /\ SubSeq(file, 1, kept) \in Seq(Nat)
         /\ InOrder(file) => InOrder(SubSeq(file, 1, kept))
<1> DEFINE new == SubSeq(file, 1, kept)
<1>1. Len(file) \in Nat /\ DOMAIN file = 1 .. Len(file)
  BY LenProperties
<1>2. /\ new \in Seq(Nat) /\ Len(new) = kept
      /\ \A i \in 1 .. kept : new[i] = file[i]
  <2>1. \A i \in 1 .. kept : file[i] \in Nat
    BY <1>1, ElementOfSeq
  <2>2. 1 \in Int /\ kept \in Int
    BY <1>1
  <2>3. /\ SubSeq(file, 1, kept) \in Seq(Nat)
        /\ Len(SubSeq(file, 1, kept)) = IF 1 <= kept THEN kept - 1 + 1 ELSE 0
        /\ \A i \in 1 .. kept - 1 + 1 : SubSeq(file, 1, kept)[i] = file[1 + i - 1]
    BY <2>1, <2>2, SubSeqProperties
  <2>4. QED BY <1>1, <2>3
<1> HIDE DEF new
<1>3. DOMAIN new = 1 .. kept
  BY <1>2, LenProperties
<1>4. ASSUME InOrder(file), NEW i \in DOMAIN new
      PROVE  new[i] = i \/ \E j \in DOMAIN new : j <= i /\ new[j] = ErrorBody
  <2>1. i \in DOMAIN file /\ new[i] = file[i]
    BY <1>1, <1>2, <1>3
  <2>2. CASE \E j \in DOMAIN file : j <= i /\ file[j] = ErrorBody
    <3>1. PICK j \in DOMAIN file : j <= i /\ file[j] = ErrorBody
      BY <2>2
    <3>2. j \in DOMAIN new /\ new[j] = ErrorBody
      BY <1>1, <1>2, <1>3, <3>1
    <3>3. QED BY <3>1, <3>2
  <2>3. QED BY <1>4, <2>1, <2>2 DEF InOrder
<1>5. QED BY <1>2, <1>4 DEF InOrder, new

-----------------------------------------------------------------------------
(* The handlers keep the invariant.                                         *)

(* startNext leaves no request or one that fits its partial file.           *)
LEMMA StartNextKeeps ==
  ASSUME SetupTypes', PartsInOrder', InstalledModelIsWhole',
         reply' = NoReply \/
           \E p \in Paths : /\ reply' = [status |-> "sent", file |-> p,
                                        from |-> Len(part'[p])]
                            /\ resume' = Len(part'[p])
  PROVE  SetupInv'
<1>1. CASE reply' = NoReply
  <2>1. reply' \notin Requests /\ reply' \notin Answers
    BY <1>1 DEF NoReply, Requests, Answers
  <2>2. RequestFits' /\ AnswerFits'
    BY <2>1 DEF RequestFits, AnswerFits, Requests, Answers
  <2>3. QED BY <2>2 DEF SetupInv
<1>2. ASSUME NEW p \in Paths,
             reply' = [status |-> "sent", file |-> p, from |-> Len(part'[p])],
             resume' = Len(part'[p])
      PROVE  SetupInv'
  <2>1. reply' \notin Answers
    BY <1>2 DEF Answers
  <2>2. reply'.from = Len(part'[reply'.file]) /\ resume' = reply'.from
    BY <1>2
  <2>3. RequestFits' /\ AnswerFits'
    BY <2>1, <2>2 DEF RequestFits, AnswerFits, Requests, Answers
  <2>4. QED BY <2>3 DEF SetupInv
<1>3. QED BY <1>1, <1>2

LEMMA StartNextSends ==
  ASSUME NEW queue \in Seq(Paths), NEW files \in [Paths -> Seq(Nat)],
         SetupTypes, StartNext(queue, files)
  PROVE  /\ reply' \in {NoReply} \union Requests
         /\ resume' \in Nat /\ flushed' \in Nat
         /\ reply' = NoReply \/
              \E p \in Paths : /\ reply' = [status |-> "sent", file |-> p,
                                           from |-> Len(files[p])]
                               /\ resume' = Len(files[p])
<1>1. CASE SetupIsComplete(queue) \/ CannotOpen(queue)
  BY <1>1 DEF SetupIsComplete, CannotOpen, SetupTypes
<1>2. CASE Request(queue, files)
  <2>1. queue # <<>>
    BY <1>2 DEF Request
  <2>2. PICK p \in Paths : p = Head(queue)
    BY <2>1, HeadTailProperties
  <2>3. Len(files[p]) \in Nat
    BY LenProperties
  <2>4. /\ reply' = [status |-> "sent", file |-> p, from |-> Len(files[p])]
        /\ resume' = Len(files[p]) /\ flushed' = Len(files[p])
    BY <1>2, <2>2 DEF Request
  <2>5. reply' \in Requests
    BY <2>3, <2>4 DEF Requests
  <2>6. QED BY <2>3, <2>4, <2>5
<1>3. QED BY <1>1, <1>2 DEF StartNext

LEMMA StartDownloadKeeps == SetupInv /\ StartDownload => SetupInv'
<1> SUFFICES ASSUME SetupInv, StartDownload PROVE SetupInv'
  OBVIOUS
<1>1. /\ StartNext(pending, part) /\ UNCHANGED <<part, target, pending, spoilt>>
      /\ SetupTypes /\ PartsInOrder /\ InstalledModelIsWhole
      /\ pending \in Seq(Paths) /\ part \in [Paths -> Seq(Nat)]
  BY DEF StartDownload, SetupInv, SetupTypes
<1>2. /\ reply' \in {NoReply} \union Requests
      /\ resume' \in Nat /\ flushed' \in Nat
      /\ reply' = NoReply \/
           \E p \in Paths : /\ reply' = [status |-> "sent", file |-> p,
                                        from |-> Len(part[p])]
                            /\ resume' = Len(part[p])
  BY <1>1, StartNextSends
<1>3. SetupTypes' /\ PartsInOrder' /\ InstalledModelIsWhole'
  BY <1>1, <1>2 DEF SetupTypes, PartsInOrder, InstalledModelIsWhole
<1>4. QED BY <1>1, <1>2, <1>3, StartNextKeeps

LEMMA ServerAnswersKeeps == SetupInv /\ ServerAnswers => SetupInv'
<1> SUFFICES ASSUME SetupInv, ServerAnswers PROVE SetupInv'
  OBVIOUS
<1>1. /\ reply.status = "sent" /\ UNCHANGED <<part, target, pending, resume, flushed, spoilt>>
      /\ SetupTypes /\ PartsInOrder /\ InstalledModelIsWhole /\ RequestFits
  BY DEF ServerAnswers, SetupInv
<1>2. reply \in Requests
  BY <1>1 DEF SetupTypes, NoReply, Requests, Answers
<1>3. /\ reply.file \in Paths /\ reply.from \in Nat /\ resume = reply.from
      /\ reply.from = Len(part[reply.file])
  BY <1>1, <1>2 DEF RequestFits, Requests
<1>4. PICK status \in {"whole", "partial", "error"}, next \in Nat :
        /\ reply' = [status |-> status, file |-> reply.file, next |-> next]
        /\ status = "whole" => next = 1
        /\ status = "partial" => reply.from \in 1 .. Size - 1 /\ next = reply.from + 1
        /\ status = "error" => next = 0
  <2>1. CASE Answer("whole", 1)
    BY <2>1 DEF Answer
  <2>2. CASE reply.from \in 1 .. Size - 1 /\ Answer("partial", reply.from + 1)
    BY <1>3, <2>2 DEF Answer
  <2>3. CASE Answer("error", ErrorBody)
    BY <2>3 DEF Answer, ErrorBody
  <2>4. QED BY <2>1, <2>2, <2>3 DEF ServerAnswers
<1>5. reply' \in Answers /\ reply'.file = reply.file /\ reply'.status = status
      /\ reply'.next = next
  BY <1>3, <1>4 DEF Answers
<1>6. SetupTypes' /\ PartsInOrder' /\ InstalledModelIsWhole'
  BY <1>1, <1>5 DEF SetupTypes, PartsInOrder, InstalledModelIsWhole
<1>7. RequestFits'
  <2>1. reply' \notin Requests
    BY <1>4 DEF Requests
  <2>2. QED BY <2>1 DEF RequestFits, Requests
<1>8. AnswerFits'
  <2> SUFFICES ASSUME status # "error"
               PROVE  /\ next \in 1 .. Size + 1
                      /\ StartsOver' => next = 1
                      /\ ~StartsOver' =>
                           next = Len(part[reply.file]) + 1
    BY <1>1, <1>5 DEF AnswerFits, IsClean, Answers
  <2>1. StartsOver' <=> resume > 0 /\ status = "whole"
    BY <1>1, <1>5 DEF StartsOver
  <2>2. CASE status = "whole"
    BY <1>3, <1>4, <2>1, <2>2, ModelSetupAssumption
  <2>3. CASE status = "partial"
    BY <1>3, <1>4, <2>1, <2>3, ModelSetupAssumption
  <2>4. QED BY <2>2, <2>3
<1>9. QED BY <1>6, <1>7, <1>8 DEF SetupInv

LEMMA ReadyReadKeeps == SetupInv /\ ReadyRead => SetupInv'
<1> SUFFICES ASSUME SetupInv, ReadyRead PROVE SetupInv'
  OBVIOUS
<1>1. /\ HasBody /\ UNCHANGED <<target, pending>>
      /\ Written \/ NotWritten
      /\ reply' = [reply EXCEPT !.next = @ + 1]
      /\ SetupTypes /\ PartsInOrder /\ InstalledModelIsWhole /\ AnswerFits
  BY DEF ReadyRead, SetupInv
<1>2. reply \in Answers
  BY <1>1 DEF HasBody, SetupTypes, NoReply, Requests, Answers
<1> DEFINE f == reply.file
           new == Append(KeptPart, reply.next)
<1>3. /\ f \in Paths /\ reply.next \in Nat
      /\ part \in [Paths -> Seq(Nat)] /\ part[f] \in Seq(Nat)
      /\ resume \in Nat /\ flushed \in Nat /\ Size \in Nat
  BY <1>1, <1>2, ModelSetupAssumption DEF Answers, SetupTypes
<1>4. /\ reply' \in Answers /\ reply'.file = f
      /\ reply'.status = reply.status /\ reply'.next = reply.next + 1
  <2>1. PICK next \in Nat : next = reply.next + 1
    BY <1>3
  <2>2. PICK answer \in Answers : answer = reply
    BY <1>2
  <2>3. reply' = [answer EXCEPT !.next = next]
    BY <1>1, <2>1, <2>2
  <2>4. /\ [answer EXCEPT !.next = next] \in Answers
        /\ [answer EXCEPT !.next = next].file = answer.file
        /\ [answer EXCEPT !.next = next].status = answer.status
        /\ [answer EXCEPT !.next = next].next = next
    BY DEF Answers
  <2>5. QED BY <2>1, <2>2, <2>3, <2>4
<1>5. /\ resume' \in Nat /\ flushed' \in Nat
      /\ IF StartsOver THEN resume' = 0 ELSE resume' = resume
  BY <1>3 DEF ReadyRead
<1>6. KeptPart \in Seq(Nat)
  BY <1>3, EmptySeq DEF KeptPart
<1>7. new \in Seq(Nat) /\ Append(part[f], reply.next) \in Seq(Nat)
  BY <1>3, <1>6, AppendProperties
<1> HIDE DEF f, new
<1>8. PICK file \in Seq(Nat) : part' = [part EXCEPT ![f] = file]
  <2>1. CASE Written
    BY <1>7, <2>1 DEF Written, f, new
  <2>2. CASE NotWritten
    <3>1. CASE part' = [part EXCEPT ![f] = KeptPart]
      BY <1>6, <3>1
    <3>2. CASE UNCHANGED part
      BY <1>3, <3>2 DEF f
    <3>3. CASE part' = [part EXCEPT ![f] = Append(@, reply.next)]
      BY <1>7, <3>3
    <3>4. QED BY <2>2, <3>1, <3>2, <3>3 DEF NotWritten, f
  <2>3. QED BY <1>1, <2>1, <2>2
<1>9. /\ part' \in [Paths -> Seq(Nat)]
      /\ \A p \in Paths : p # f => part'[p] = part[p]
  BY <1>3, <1>8
<1>10. spoilt \subseteq spoilt'
  BY <1>1 DEF Written, NotWritten
<1>11. ASSUME f \notin spoilt'
       PROVE  /\ f \notin spoilt /\ part'[f] = new /\ InOrder(new)
              /\ reply.status # "error" /\ IsClean(new) => reply.next = Len(new)
  <2>1. Written /\ f \notin spoilt
    BY <1>1, <1>10, <1>11 DEF NotWritten, f
  <2>2. InOrder(KeptPart)
    BY <1>1, <1>3, <2>1, NoFileIsInOrder DEF KeptPart, PartsInOrder, f
  <2>3. reply.next = ErrorBody \/ (IsClean(KeptPart) => reply.next = Len(KeptPart) + 1)
    <3>1. CASE reply.status = "error"
      BY <1>1, <3>1 DEF HasBody
    <3>2. CASE reply.status # "error" /\ StartsOver
      BY <1>1, <1>2, <3>2, NoFileIsInOrder DEF AnswerFits, KeptPart
    <3>3. CASE reply.status # "error" /\ ~StartsOver
      BY <1>1, <1>2, <2>1, <3>3 DEF AnswerFits, KeptPart, f
    <3>4. QED BY <3>1, <3>2, <3>3
  <2>4. /\ InOrder(new) /\ Len(new) = Len(KeptPart) + 1
        /\ IsClean(new) => IsClean(KeptPart)
    <3>1. PICK kept \in Seq(Nat) : kept = KeptPart
      BY <1>6
    <3>2. PICK piece \in Nat : piece = reply.next
      BY <1>3
    <3>3. QED BY <2>2, <2>3, <3>1, <3>2, PieceAppended DEF new
  <2>5. part'[f] = new
    BY <1>3, <2>1 DEF Written, f, new
  <2>6. ASSUME reply.status # "error", IsClean(new) PROVE reply.next = Len(new)
    <3>1. reply.next \in 1 .. Size + 1
      BY <1>1, <1>2, <2>6 DEF AnswerFits
    <3>2. reply.next = Len(KeptPart) + 1
      BY <1>3, <2>3, <2>4, <2>6, <3>1 DEF ErrorBody
    <3>3. QED BY <2>4, <3>2
  <2>7. QED BY <2>1, <2>4, <2>5, <2>6
<1>12. SetupTypes' /\ PartsInOrder' /\ InstalledModelIsWhole'
  <2>1. SetupTypes'
    BY <1>1, <1>4, <1>5, <1>9 DEF SetupTypes
  <2>2. PartsInOrder'
    BY <1>1, <1>9, <1>10, <1>11 DEF PartsInOrder
  <2>3. InstalledModelIsWhole'
    BY <1>1, <1>10 DEF InstalledModelIsWhole
  <2>4. QED BY <2>1, <2>2, <2>3
<1>13. RequestFits'
  <2>1. reply' \notin Requests
    BY <1>4 DEF Requests, Answers
  <2>2. QED BY <2>1 DEF RequestFits, Requests
<1>14. AnswerFits'
  <2> SUFFICES ASSUME reply.status # "error"
               PROVE  /\ reply.next + 1 \in 1 .. Size + 1
                      /\ ~StartsOver'
                      /\ f \notin spoilt' /\ IsClean(part'[f]) =>
                           reply.next + 1 = Len(part'[f]) + 1
    BY <1>4 DEF AnswerFits, IsClean, Answers
  <2>1. reply.next + 1 \in 1 .. Size + 1
    <3>1. reply.next <= Size
      BY <1>1 DEF HasBody
    <3>2. QED BY <1>3, <3>1
  <2>2. ~StartsOver'
    BY <1>4, <1>5 DEF StartsOver
  <2>3. QED BY <1>11, <2>1, <2>2
<1>15. QED BY <1>12, <1>13, <1>14 DEF SetupInv

LEMMA ReplyFailsKeeps == SetupInv /\ ReplyFails => SetupInv'
<1> SUFFICES ASSUME SetupInv, ReplyFails PROVE SetupInv'
  OBVIOUS
<1>1. /\ reply' = NoReply /\ UNCHANGED <<part, target, pending, resume, flushed, spoilt>>
  BY DEF ReplyFails
<1>2. SetupTypes' /\ PartsInOrder' /\ InstalledModelIsWhole'
  BY <1>1 DEF SetupInv, SetupTypes, PartsInOrder, InstalledModelIsWhole
<1>3. QED BY <1>1, <1>2, StartNextKeeps

LEMMA ReplyFinishedKeeps == SetupInv /\ ReplyFinished => SetupInv'
<1> SUFFICES ASSUME SetupInv, ReplyFinished PROVE SetupInv'
  OBVIOUS
<1>1. /\ reply.status \in {"whole", "partial"} /\ ~HasBody
      /\ SetupTypes /\ PartsInOrder /\ InstalledModelIsWhole /\ AnswerFits
      /\ pending' = Tail(pending) /\ spoilt' = spoilt
  BY DEF ReplyFinished, SetupInv
<1>2. reply \in Answers
  BY <1>1 DEF SetupTypes, NoReply, Requests, Answers
<1> DEFINE f == reply.file
<1>3. /\ f \in Paths /\ reply.next \in Nat /\ Size \in Nat \ {0}
      /\ part \in [Paths -> Seq(Nat)] /\ part[f] \in Seq(Nat)
      /\ target \in [Paths -> Seq(Nat)]
  BY <1>1, <1>2, ModelSetupAssumption DEF Answers, SetupTypes
<1>4. reply.next = Size + 1 /\ ~StartsOver
  <2>1. /\ reply.next \in 1 .. Size + 1
        /\ StartsOver => reply.next = 1
    BY <1>1, <1>2 DEF AnswerFits
  <2>2. ~(reply.next <= Size)
    BY <1>1 DEF HasBody
  <2>3. QED BY <1>3, <2>1, <2>2
<1>5. f \notin spoilt /\ IsClean(part[f]) => part[f] = WholeFile
  <2> SUFFICES ASSUME f \notin spoilt, IsClean(part[f]) PROVE part[f] = WholeFile
    OBVIOUS
  <2>1. Len(part[f]) = Size
    <3>1. reply.next = Len(part[f]) + 1
      BY <1>1, <1>2, <1>4 DEF AnswerFits
    <3>2. Len(part[f]) \in Nat
      BY <1>3, LenProperties
    <3>3. QED BY <1>3, <1>4, <3>1, <3>2
  <2>2. InOrder(part[f])
    BY <1>1, <1>3 DEF PartsInOrder
  <2>3. QED BY <1>3, <2>1, <2>2, CleanAndLongIsWhole
<1>6. pending' \in Seq(Paths)
  <2>1. CASE pending = <<>>
    <3>1. Tail(pending) = <<>>
      BY <2>1
    <3>2. QED BY <1>1, <3>1, EmptySeq
  <2>2. CASE pending # <<>>
    BY <1>1, <2>2, HeadTailProperties DEF SetupTypes
  <2>3. QED BY <2>1, <2>2
<1> HIDE DEF f
<1>7. Moved(part[f]) \in Seq(Nat) /\ (f \notin spoilt /\ IsClean(Moved(part[f])) =>
                                          Moved(part[f]) = WholeFile)
  <2>1. CASE part[f] = <<>>
    <3>1. EmptyFile \in Seq(Nat)
      <4>1. PICK n \in Nat : n = Size + 1
        BY <1>3
      <4>2. QED BY <4>1 DEF EmptyFile
    <3>2. f \in spoilt
      <4>1. Len(part[f]) = 0 /\ IsClean(part[f])
        BY <2>1, NoFileIsInOrder
      <4>2. Len(WholeFile) # 0
        BY <1>3, WholeFileIsAFile
      <4>3. QED BY <1>5, <4>1, <4>2
    <3>3. QED BY <2>1, <3>1, <3>2 DEF Moved
  <2>2. CASE part[f] # <<>>
    BY <1>3, <1>5, <2>2 DEF Moved
  <2>3. QED BY <2>1, <2>2
<1>8. ASSUME NEW file \in {Moved(part[f]), <<>>}, target' = [target EXCEPT ![f] = file]
      PROVE  target' \in [Paths -> Seq(Nat)] /\ InstalledModelIsWhole'
  <2>1. file \in Seq(Nat) /\ (f \notin spoilt /\ IsClean(file) => file \in {<<>>, WholeFile})
    BY <1>7, NoFileIsInOrder
  <2>2. target' \in [Paths -> Seq(Nat)]
        /\ \A p \in Paths : target'[p] = IF p = f THEN file ELSE target[p]
    BY <1>3, <1>8, <2>1
  <2>3. \A p \in Paths \ spoilt : IsClean(target'[p]) => target'[p] \in {<<>>, WholeFile}
    BY <1>1, <2>1, <2>2 DEF InstalledModelIsWhole, IsClean
  <2>4. QED BY <1>1, <2>2, <2>3 DEF InstalledModelIsWhole, IsClean
<1>9. CASE /\ target' = [target EXCEPT ![f] = Moved(part[f])]
           /\ part' = [part EXCEPT ![f] = <<>>]
           /\ StartNext(pending', part')
  <2>1. part' \in [Paths -> Seq(Nat)] /\ PartsInOrder'
    <3>1. part' \in [Paths -> Seq(Nat)] /\ \A p \in Paths : part'[p] \in {part[p], <<>>}
      BY <1>3, <1>9, NoFileIsInOrder
    <3>2. QED BY <1>1, <3>1, NoFileIsInOrder DEF PartsInOrder
  <2>2. target' \in [Paths -> Seq(Nat)] /\ InstalledModelIsWhole'
    BY <1>8, <1>9
  <2>3. PICK queue \in Seq(Paths), files \in [Paths -> Seq(Nat)] :
          queue = pending' /\ files = part'
    BY <1>6, <2>1
  <2>4. StartNext(queue, files)
    BY <1>9, <2>3
  <2>5. /\ reply' \in {NoReply} \union Requests
        /\ resume' \in Nat /\ flushed' \in Nat
        /\ reply' = NoReply \/
             \E p \in Paths : /\ reply' = [status |-> "sent", file |-> p,
                                          from |-> Len(part'[p])]
                              /\ resume' = Len(part'[p])
    BY <1>1, <2>3, <2>4, StartNextSends
  <2>6. SetupTypes'
    BY <1>6, <2>1, <2>2, <2>5 DEF SetupTypes
  <2>7. QED BY <2>1, <2>2, <2>5, <2>6, StartNextKeeps
<1>10. CASE /\ target' = [target EXCEPT ![f] = <<>>]
           /\ reply' = NoReply
           /\ UNCHANGED <<part, resume, flushed>>
  <2>1. target' \in [Paths -> Seq(Nat)] /\ InstalledModelIsWhole'
    BY <1>8, <1>10
  <2>2. SetupTypes' /\ PartsInOrder'
    BY <1>1, <1>6, <1>10, <2>1 DEF SetupTypes, PartsInOrder
  <2>3. QED BY <1>10, <2>1, <2>2, StartNextKeeps
<1>11. QED BY <1>9, <1>10 DEF ReplyFinished, f

(* Every handler of the download keeps what is on disk in order.            *)
LEMMA SetupStepKeeps == SetupInv /\ SetupStep => SetupInv'
  BY StartDownloadKeeps, ServerAnswersKeeps, ReadyReadKeeps, ReplyFailsKeeps,
     ReplyFinishedKeeps DEF SetupStep

(* The setup starts with a queue of paths.                                  *)
LEMMA OpenSetupKeeps ==
  ASSUME SetupInv, NEW queue \in Seq(Paths), OpenSetup(queue)
  PROVE  SetupInv'
<1>1. /\ pending' = queue /\ reply' = NoReply /\ resume' = 0 /\ flushed' = 0
      /\ UNCHANGED <<part, target, spoilt>>
  BY DEF OpenSetup
<1>2. SetupTypes' /\ PartsInOrder' /\ InstalledModelIsWhole'
  BY <1>1 DEF SetupInv, SetupTypes, PartsInOrder, InstalledModelIsWhole
<1>3. QED BY <1>1, <1>2, StartNextKeeps

(* The process ends, in order or not.                                       *)
LEMMA CloseSetupKeeps ==
  ASSUME SetupInv, CloseSetup, UNCHANGED part \/ LoseUnflushed
  PROVE  SetupInv'
<1>1. /\ pending' = <<>> /\ reply' = NoReply /\ resume' = 0 /\ flushed' = 0
      /\ target' = target /\ spoilt' = spoilt
      /\ SetupTypes /\ PartsInOrder /\ InstalledModelIsWhole
  BY DEF CloseSetup, SetupInv
<1>2. part' \in [Paths -> Seq(Nat)] /\ PartsInOrder'
  <2>1. CASE part' = part
    BY <1>1, <2>1 DEF SetupTypes, PartsInOrder
  <2>2. CASE LoseUnflushed /\ reply # NoReply
    <3> DEFINE f == reply.file
    <3>1. f \in Paths /\ part \in [Paths -> Seq(Nat)] /\ flushed \in Nat
      BY <1>1, <2>2 DEF SetupTypes, Requests, Answers
    <3>2. PICK kept \in flushed .. Len(part[f]) :
            part' = [part EXCEPT ![f] = SubSeq(@, 1, kept)]
      BY <2>2 DEF LoseUnflushed
    <3> HIDE DEF f
    <3>3. kept \in 0 .. Len(part[f]) /\ part[f] \in Seq(Nat)
      BY <3>1, <3>2, LenProperties
    <3> DEFINE new == SubSeq(part[f], 1, kept)
    <3>4. new \in Seq(Nat) /\ (InOrder(part[f]) => InOrder(new))
      BY <3>3, EndCutOff
    <3>5. part' = [part EXCEPT ![f] = new]
      BY <3>2
    <3> HIDE DEF new
    <3>6. /\ part' \in [Paths -> Seq(Nat)]
          /\ \A p \in Paths : part'[p] = IF p = f THEN new ELSE part[p]
      BY <3>1, <3>4, <3>5
    <3>7. QED BY <1>1, <3>4, <3>6 DEF PartsInOrder
  <2>3. QED BY <2>1, <2>2 DEF LoseUnflushed
<1>3. SetupTypes' /\ InstalledModelIsWhole'
  BY <1>1, <1>2, EmptySeq DEF SetupTypes, InstalledModelIsWhole
<1>4. QED BY <1>1, <1>2, <1>3, StartNextKeeps

-----------------------------------------------------------------------------
(* The server. What a process has to know of it at each point of its life.  *)

StartingPhases == {"layout", "config", "initdb", "serve", "createdb"}

StartedPhases == {"createdb", "window", "running", "closing", "stopping"}

(* A developer's build starts no server.                                    *)
NoServerWithoutBundle == ~bundle => ~server /\ phase \notin StartingPhases

(* A connection is held between the window's opening and its end only, and  *)
(* the server it goes to runs.                                              *)
ConnectedWhileOpen ==
  connected => phase \in {"running", "closing"} /\ (bundle => server)

(* Past its start a process that met no fault counts a running server as    *)
(* started: this is what makes it stop one it has found running.            *)
RunningCountsAsStarted == phase \in StartedPhases /\ tidy => started \/ ~server

NoneLeftRunning == phase = "off" /\ exit = "quit" /\ tidy => ~server

ServerInv ==
  /\ NoServerWithoutBundle
  /\ ConnectedWhileOpen
  /\ RunningCountsAsStarted
  /\ NoneLeftRunning

LEMMA ServerInit == Init => ServerInv
  BY DEF Init, ServerInv, NoServerWithoutBundle, ConnectedWhileOpen,
         RunningCountsAsStarted, NoneLeftRunning, StartingPhases, StartedPhases

(* Steps that leave the server, the phase and the connection alone.         *)
LEMMA ServerUntouched ==
  ASSUME ServerInv, UNCHANGED <<bundle, server, phase, started, connected, tidy, exit>>
  PROVE  ServerInv'
  BY DEF ServerInv, NoServerWithoutBundle, ConnectedWhileOpen,
         RunningCountsAsStarted, NoneLeftRunning

LEMMA ServerStep == ServerInv /\ [Next]_vars => ServerInv'
<1> SUFFICES ASSUME ServerInv, [Next]_vars PROVE ServerInv'
  OBVIOUS
<1> USE DEF ServerInv, NoServerWithoutBundle, ConnectedWhileOpen,
            RunningCountsAsStarted, NoneLeftRunning, StartingPhases, StartedPhases,
            Enter
<1>1. CASE Launch
  BY <1>1 DEF Launch, diskVars, serverVars
<1>2. CASE PrepareLayout \/ WriteConfig
  BY <1>2 DEF PrepareLayout, WriteConfig, startupFrame, serverVars
<1>3. CASE InitDb
  BY <1>3 DEF InitDb, startupFrame, serverVars
<1>4. CASE StartServer
  BY <1>4 DEF StartServer, startupFrame, diskVars
<1>5. CASE CreateDb
  BY <1>5 DEF CreateDb, startupFrame, serverVars
<1>6. CASE OpenWindow
  BY <1>6 DEF OpenWindow, diskVars, historyVars
<1>7. CASE Quit
  BY <1>7 DEF Quit, diskVars, serverVars, historyVars
<1>8. CASE DestroyControllers
  BY <1>8 DEF DestroyControllers, Forget, diskVars
<1>9. CASE StopServer
  <2>1. /\ phase = "stopping" /\ phase' = "off" /\ UNCHANGED <<bundle, connected>>
        /\ \/ server' = (server /\ ~started) /\ tidy' = tidy
           \/ server' = server /\ tidy' = FALSE
    BY <1>9 DEF StopServer, diskVars
  <2>2. ~bundle => ~server'
    BY <2>1, Zenon
  <2>3. tidy' => ~server'
    BY <2>1, Zenon
  <2>4. ~connected
    BY <2>1
  <2>5. QED BY <2>1, <2>2, <2>3, <2>4
<1>10. CASE Crash
  BY <1>10 DEF Crash, Forget
<1>11. CASE Reboot
  BY <1>11 DEF Reboot, diskVars, historyVars
<1>12. CASE \/ Setup \/ FetchModel \/ LoadModel \/ OnModelLoadFinished
            \/ Ask \/ Converse \/ Retrieve \/ ReadDocuments \/ EndQuery \/ OnQueryFinished
  <2>1. UNCHANGED <<bundle, server, phase, started, connected, tidy, exit>>
    BY <1>12 DEF Setup, FetchModel, LoadModel, OnModelLoadFinished, Ask, Converse,
                 Retrieve, ReadDocuments, EndQuery, OnQueryFinished, diskVars, serverVars, historyVars
  <2>2. QED BY <2>1, ServerUntouched
<1>13. CASE SetThinkingEnabled \/ SetRerankerEnabled
  <2>1. UNCHANGED <<bundle, server, phase, started, connected, tidy, exit>>
    BY <1>13 DEF SetThinkingEnabled, SetRerankerEnabled, Switch, serverVars
  <2>2. QED BY <2>1, ServerUntouched
<1>14. CASE UNCHANGED vars
  <2>1. UNCHANGED <<bundle, server, phase, started, connected, tidy, exit>>
    BY <1>14 DEF vars, diskVars, serverVars, historyVars
  <2>2. QED BY <2>1, ServerUntouched
<1>15. QED
  BY <1>1, <1>2, <1>3, <1>4, <1>5, <1>6, <1>7, <1>8, <1>9, <1>10, <1>11, <1>12,
     <1>13, <1>14 DEF Next, StartUp, UserStep

(* Whatever fails, crashes or is restarted in between: the server runs for  *)
(* as long as a process holds a connection to it, and an orderly exit       *)
(* leaves none running, not even one an earlier process left behind,        *)
(* unless in this process the layout or a PostgreSQL tool failed            *)
(* (PostgresManager, main).                                                 *)
THEOREM TheServerOutlivesTheApp == Spec => []ServerOutlivesTheApp
<1>1. ServerInv => ServerOutlivesTheApp
  BY DEF ServerInv, ConnectedWhileOpen, NoneLeftRunning, ServerOutlivesTheApp
<1>2. QED
  BY <1>1, ServerInit, ServerStep, PTL DEF Spec

-----------------------------------------------------------------------------
(* The model files.                                                         *)

LEMMA SetupInit == Init => SetupInv
<1> SUFFICES ASSUME Init PROVE SetupInv
  OBVIOUS
<1>1. /\ part = [p \in Paths |-> <<>>]
      /\ pending = <<>> /\ reply = NoReply /\ resume = 0 /\ flushed = 0
  BY DEF Init
<1>2. /\ target \in [Paths -> Seq(Nat)]
      /\ \A p \in Paths : target[p] \in {<<>>, WholeFile}
  <2>1. PICK D \in Disks : target = [p \in Paths |-> IF p \in D THEN WholeFile ELSE <<>>]
    BY DEF Init
  <2>2. QED BY <2>1, WholeFileIsAFile, NoFileIsInOrder
<1>3. SetupTypes
  BY <1>1, <1>2, EmptySeq, NoFileIsInOrder DEF SetupTypes
<1>4. PartsInOrder
  BY <1>1, NoFileIsInOrder DEF PartsInOrder
<1>5. InstalledModelIsWhole
  BY <1>2 DEF InstalledModelIsWhole
<1>6. reply \notin Requests /\ reply \notin Answers
  BY <1>1 DEF NoReply, Requests, Answers
<1>7. RequestFits /\ AnswerFits
  BY <1>6 DEF RequestFits, AnswerFits, Requests, Answers
<1>8. QED BY <1>3, <1>4, <1>5, <1>7 DEF SetupInv

LEMMA SetupUntouched ==
  ASSUME SetupInv, UNCHANGED <<part, target, pending, reply, resume, flushed, spoilt>>
  PROVE  SetupInv'
  BY DEF SetupInv, SetupTypes, PartsInOrder, RequestFits, AnswerFits, StartsOver,
         InstalledModelIsWhole

(* The setup's queue holds paths.                                           *)
LEMMA MissingModelsArePaths == MissingModels \in Seq(Paths)
<1>1. ASSUME NEW p PROVE Absent(p) \in Seq(Paths)
  BY EmptySeq DEF Absent, IsMissing
<1>2. <<>> \in Seq(Paths)
  BY EmptySeq
<1> DEFINE chat == ModelPath(config, DefaultModel)
           reranker == RerankerModelPath(config)
           first == IF chat \in Fetchable THEN Absent(chat) ELSE <<>>
           second == IF reranker = Unset THEN <<>> ELSE Absent(reranker)
<1>3. first \in Seq(Paths) /\ second \in Seq(Paths)
  BY <1>1, <1>2
<1>4. MissingModels = first \o second
  BY DEF MissingModels
<1> HIDE DEF first, second
<1>5. QED BY <1>3, <1>4, ConcatProperties

LEMMA SetupNext == SetupInv /\ [Next]_vars => SetupInv'
<1> SUFFICES ASSUME SetupInv, [Next]_vars PROVE SetupInv'
  OBVIOUS
<1>1. CASE Setup
  BY <1>1, SetupStepKeeps DEF Setup
<1>2. CASE OpenWindow
  <2> DEFINE queue == IF bundle THEN MissingModels ELSE <<>>
  <2>1. queue \in Seq(Paths)
    BY MissingModelsArePaths, EmptySeq
  <2>2. OpenSetup(queue)
    BY <1>2 DEF OpenWindow
  <2> HIDE DEF queue
  <2>3. QED BY <2>1, <2>2, OpenSetupKeeps
<1>3. CASE FetchModel
  <2>1. PICK p \in Paths : target' = [target EXCEPT ![p] = WholeFile]
    BY <1>3 DEF FetchModel
  <2>2. UNCHANGED <<part, pending, reply, resume, flushed, spoilt>>
    BY <1>3 DEF FetchModel
  <2>3. /\ target' \in [Paths -> Seq(Nat)]
        /\ \A q \in Paths : target'[q] \in {target[q], WholeFile}
    BY <2>1, WholeFileIsAFile DEF SetupInv, SetupTypes
  <2>4. InstalledModelIsWhole'
    BY <2>2, <2>3 DEF SetupInv, InstalledModelIsWhole
  <2>5. SetupTypes'
    BY <2>2, <2>3 DEF SetupInv, SetupTypes
  <2>6. PartsInOrder' /\ RequestFits' /\ AnswerFits'
    BY <2>2 DEF SetupInv, PartsInOrder, RequestFits, AnswerFits, StartsOver
  <2>7. QED BY <2>4, <2>5, <2>6 DEF SetupInv
<1>4. CASE DestroyControllers
  BY <1>4, CloseSetupKeeps DEF DestroyControllers, Forget
<1>5. CASE Crash
  BY <1>5, CloseSetupKeeps DEF Crash, Forget
<1>6. CASE \/ Launch \/ PrepareLayout \/ WriteConfig \/ InitDb \/ StartServer
           \/ CreateDb \/ LoadModel \/ OnModelLoadFinished
           \/ Ask \/ Converse \/ Retrieve \/ ReadDocuments \/ EndQuery
           \/ OnQueryFinished \/ SetThinkingEnabled \/ SetRerankerEnabled
           \/ Quit \/ StopServer \/ Reboot \/ UNCHANGED vars
  <2>1. UNCHANGED setupVars
    BY <1>6 DEF Launch, PrepareLayout, WriteConfig, InitDb, StartServer, CreateDb,
                LoadModel, OnModelLoadFinished, Ask, Converse, Retrieve, ReadDocuments,
                EndQuery, OnQueryFinished, SetThinkingEnabled, SetRerankerEnabled, Switch, Quit, StopServer,
                Reboot, startupFrame, vars
  <2>2. QED BY <2>1, SetupUntouched DEF setupVars
<1>7. QED
  BY <1>1, <1>2, <1>3, <1>4, <1>5, <1>6 DEF Next, StartUp, UserStep

(* Whatever request or move failed, was resumed, started over or was cut    *)
(* short by a crash on the way, a model file in place is the server's whole *)
(* file, unless an error reply's body got into it or the disk did not take  *)
(* what was written to it, neither of which the code looks at               *)
(* (SetupController::startNext).                                            *)
THEOREM InstalledModelsAreWhole == Spec => []InstalledModelIsWhole
<1>1. SetupInv => InstalledModelIsWhole
  BY DEF SetupInv
<1>2. QED BY <1>1, SetupInit, SetupNext, PTL DEF Spec

-----------------------------------------------------------------------------
(* The lines of the configuration file.                                     *)

(* A nonempty set of positions has a largest.                               *)
LEMMA LargestExists ==
  ASSUME NEW n \in Nat, NEW I \in SUBSET (1 .. n), I # {}
  PROVE  \E i \in I : \A j \in I : i >= j
<1> DEFINE T == {n - i : i \in I}
<1>1. T \subseteq Nat /\ T # {}
  <2>1. \A i \in I : i \in 1 .. n
    OBVIOUS
  <2>2. \A i \in 1 .. n : n - i \in Nat
    OBVIOUS
  <2>3. T \subseteq Nat
    BY <2>1, <2>2
  <2>4. PICK i \in I : TRUE
    OBVIOUS
  <2>5. n - i \in T
    OBVIOUS
  <2>6. QED BY <2>3, <2>5
<1> DEFINE R == OpToRel(<, Nat)
<1>2. IsWellFoundedOn(R, Nat)
  BY NatLessThanWellFounded
<1>3. PICK x \in T : \A y \in T : <<y, x>> \notin R
  <2> HIDE DEF T, R
  <2>1. QED BY <1>1, <1>2, WFMin
<1>4. PICK i \in I : x = n - i
  BY <1>3
<1>5. ASSUME NEW j \in I PROVE i >= j
  <2>1. n - j \in T /\ <<n - j, x>> \notin R
    BY <1>3
  <2>2. ~ (n - j < x)
    BY <1>1, <1>3, <2>1 DEF OpToRel
  <2>3. QED BY <1>4, <2>2
<1>6. QED BY <1>5


ConfigKeys == {"model_path", "reranker_model_path", "thinking", "db_conninfo"}

ConfigValues == Paths \union {Unset, "on", "off", "socket"}

ConfigLine ==
  [key : ConfigKeys, value : ConfigValues, commented : BOOLEAN, comment : BOOLEAN]

LEMMA LineIsALine ==
  ASSUME NEW key \in ConfigKeys, NEW value \in ConfigValues
  PROVE  /\ Line(key, value) \in ConfigLine /\ IsActive(Line(key, value), key)
         /\ Line(key, value).key = key /\ Line(key, value).value = value
<1>1. Line(key, value) \in ConfigLine
  BY DEF Line, ConfigLine
<1>2. IsActive(Line(key, value), key)
  BY Zenon DEF Line, IsActive
<1>3. QED BY <1>1, <1>2 DEF Line

Active(lines, key) == {i \in 1 .. Len(lines) : IsActive(lines[i], key)}

(* What every reader of a key looks for: its last active line.              *)
LEMMA LastLine ==
  ASSUME NEW lines \in Seq(ConfigLine), NEW key
  PROVE  /\ LastKeyLine(FileOf(lines), key) =
              IF Active(lines, key) # {} THEN Max(Active(lines, key)) ELSE 0
         /\ Active(lines, key) # {} =>
              /\ Max(Active(lines, key)) \in Active(lines, key)
              /\ \A j \in Active(lines, key) : Max(Active(lines, key)) >= j
<1>1. Len(lines) \in Nat /\ Active(lines, key) \in SUBSET (1 .. Len(lines))
  BY LenProperties DEF Active
<1>2. LastKeyLine(FileOf(lines), key) =
        IF Active(lines, key) # {} THEN Max(Active(lines, key)) ELSE 0
  BY DEF LastKeyLine, FileOf, SelectLastInSeq, Active
<1>3. ASSUME Active(lines, key) # {}
      PROVE  /\ Max(Active(lines, key)) \in Active(lines, key)
             /\ \A j \in Active(lines, key) : Max(Active(lines, key)) >= j
  BY <1>1, <1>3, LargestExists DEF Max
<1>4. QED BY <1>2, <1>3

(* Two files whose lines for a key are active at the same positions.        *)
LEMMA SameActiveLines ==
  ASSUME NEW a \in Seq(ConfigLine), NEW b \in Seq(ConfigLine), NEW key,
         Active(a, key) = Active(b, key)
  PROVE  LastKeyLine(FileOf(a), key) = LastKeyLine(FileOf(b), key)
  BY LastLine

(* A saved switch reads back as it was set.                                 *)
LEMMA ThinkingSaved ==
  ASSUME NEW lines \in Seq(ConfigLine), NEW on \in BOOLEAN
  PROVE  /\ SetThinking(lines, on) \in Seq(ConfigLine)
         /\ ThinkingEnabled(FileOf(SetThinking(lines, on))) = on
<1> DEFINE key == "thinking"
           value == IF on THEN "on" ELSE "off"
           new == SetThinking(lines, on)
           i == LastKeyLine(FileOf(lines), key)
<1>1. new = IF i = 0 THEN Append(lines, Line(key, value))
                     ELSE [lines EXCEPT ![i].value = value]
  BY DEF SetThinking, UpdateKeyLine, LastKeyLine, FileOf
<1>2. Len(lines) \in Nat /\ DOMAIN lines = 1 .. Len(lines)
      /\ \A j \in 1 .. Len(lines) : lines[j] \in ConfigLine
  BY LenProperties, ElementOfSeq
<1>3. value \in ConfigValues /\ (value # "off") = on
  <2>1. CASE on = TRUE
    BY <2>1 DEF ConfigValues
  <2>2. CASE on = FALSE
    BY <2>2 DEF ConfigValues
  <2>3. QED BY <2>1, <2>2
<1>4. Line(key, value) \in ConfigLine /\ IsActive(Line(key, value), key)
      /\ Line(key, value).value = value /\ Line(key, value).key = key
  <2>1. PICK v \in ConfigValues : v = value
    BY <1>3
  <2>2. key \in ConfigKeys
    BY DEF ConfigKeys
  <2>3. QED BY <2>1, <2>2, LineIsALine
<1>5. new \in Seq(ConfigLine) /\ DialogValue(FileOf(new), key) = value
  <2>1. CASE i = 0
    <3>1. /\ new \in Seq(ConfigLine) /\ Len(new) = Len(lines) + 1
          /\ new[Len(lines) + 1] = Line(key, value)
      BY <1>1, <1>4, <2>1, AppendProperties
    <3> HIDE DEF new
    <3>2. Len(lines) + 1 \in Active(new, key)
      BY <1>2, <1>4, <3>1 DEF Active
    <3>3. Max(Active(new, key)) \in 1 .. Len(lines) + 1
          /\ Max(Active(new, key)) >= Len(lines) + 1
      BY <3>1, <3>2, LastLine DEF Active
    <3>4. LastKeyLine(FileOf(new), key) = Len(lines) + 1
      BY <1>2, <3>1, <3>2, <3>3, LastLine
    <3>5. QED BY <1>2, <1>4, <3>1, <3>4 DEF DialogValue, FileOf
  <2>2. CASE i # 0
    <3>1. i \in 1 .. Len(lines)
      BY <2>2, LastLine DEF Active
    <3>2. PICK line \in ConfigLine : line = [lines[i] EXCEPT !.value = value]
      BY <1>2, <1>3, <3>1 DEF ConfigLine
    <3>3. new = [lines EXCEPT ![i] = line]
      BY <1>1, <2>2, <3>2
    <3> HIDE DEF new
    <3>4. /\ new \in Seq(ConfigLine) /\ Len(new) = Len(lines) /\ new[i] = line
          /\ \A j \in 1 .. Len(lines) : j # i => new[j] = lines[j]
      BY <3>1, <3>3, ExceptSeq
    <3>5. line.key = lines[i].key /\ line.commented = lines[i].commented
          /\ line.value = value
      BY <1>2, <3>1, <3>2 DEF ConfigLine
    <3>6. Active(new, key) = Active(lines, key)
      BY <3>4, <3>5 DEF Active, IsActive
    <3>7. LastKeyLine(FileOf(new), key) = i
      BY <3>4, <3>6, SameActiveLines
    <3>8. QED BY <2>2, <3>4, <3>5, <3>7 DEF DialogValue, FileOf
  <2>3. QED BY <2>1, <2>2
<1>6. QED BY <1>3, <1>5 DEF ThinkingEnabled

RerankerKey == "reranker_model_path"

(* Saving the thinking switch leaves the reranker's lines as they are.      *)
LEMMA ThinkingLeavesTheReranker ==
  ASSUME NEW lines \in Seq(ConfigLine), NEW on \in BOOLEAN
  PROVE  Active(SetThinking(lines, on), RerankerKey) = Active(lines, RerankerKey)
<1> DEFINE key == "thinking"
           value == IF on THEN "on" ELSE "off"
           new == SetThinking(lines, on)
           i == LastKeyLine(FileOf(lines), key)
<1>1. new = IF i = 0 THEN Append(lines, Line(key, value))
                     ELSE [lines EXCEPT ![i].value = value]
  BY DEF SetThinking, UpdateKeyLine, LastKeyLine, FileOf
<1>2. Len(lines) \in Nat /\ \A j \in 1 .. Len(lines) : lines[j] \in ConfigLine
  BY LenProperties, ElementOfSeq
<1>3. value \in ConfigValues
  BY DEF ConfigValues
<1>4. CASE i = 0
  <2>1. PICK v \in ConfigValues : v = value
    BY <1>3
  <2>2. PICK line \in ConfigLine : line = Line(key, v) /\ line.key = key
    BY LineIsALine DEF ConfigKeys
  <2>3. new = Append(lines, line)
    BY <1>1, <1>4, <2>1, <2>2
  <2> HIDE DEF new
  <2>4. /\ Len(new) = Len(lines) + 1 /\ new[Len(lines) + 1] = line
        /\ \A j \in 1 .. Len(lines) : new[j] = lines[j]
    BY <2>3, AppendProperties
  <2>5. ~IsActive(line, RerankerKey)
    BY <2>2 DEF IsActive, RerankerKey
  <2>6. Active(new, RerankerKey) = Active(lines, RerankerKey)
    BY <1>2, <2>4, <2>5 DEF Active
  <2>7. QED BY <2>6 DEF new
<1>5. CASE i # 0
  <2>1. i \in 1 .. Len(lines)
    BY <1>5, LastLine DEF Active
  <2>2. PICK v \in ConfigValues : v = value
    BY <1>3
  <2>3. PICK line \in ConfigLine : line = [lines[i] EXCEPT !.value = v]
    BY <1>2, <2>1 DEF ConfigLine
  <2>4. new = [lines EXCEPT ![i] = line]
    BY <1>1, <1>5, <2>2, <2>3
  <2> HIDE DEF new, i
  <2>5. /\ Len(new) = Len(lines) /\ new[i] = line
        /\ \A j \in 1 .. Len(lines) : j # i => new[j] = lines[j]
    BY <2>1, <2>4, ExceptSeq
  <2>6. line.key = lines[i].key /\ line.commented = lines[i].commented
    BY <1>2, <2>1, <2>3 DEF ConfigLine
  <2>7. \A j \in 1 .. Len(lines) :
          IsActive(new[j], RerankerKey) <=> IsActive(lines[j], RerankerKey)
    BY <2>5, <2>6 DEF IsActive
  <2>8. Active(new, RerankerKey) = Active(lines, RerankerKey)
    BY <2>5, <2>7 DEF Active
  <2>9. QED BY <2>8 DEF new
<1>6. QED BY <1>4, <1>5

(* Turning the reranker on or off leaves the thinking switch as it is, and  *)
(* turned off no reranker is configured.                                    *)
LEMMA RerankerSaved ==
  ASSUME NEW lines \in Seq(ConfigLine), NEW on \in BOOLEAN
  PROVE  /\ SetReranker(lines, on) \in Seq(ConfigLine)
         /\ ThinkingEnabled(FileOf(SetReranker(lines, on))) =
              ThinkingEnabled(FileOf(lines))
         /\ ~on => Active(SetReranker(lines, on), RerankerKey) = {}
<1> DEFINE new == SetReranker(lines, on)
           i == RememberedLine(lines, RerankerKey)
<1>1. Len(lines) \in Nat /\ DOMAIN lines = 1 .. Len(lines)
      /\ \A j \in 1 .. Len(lines) : lines[j] \in ConfigLine
  BY LenProperties, ElementOfSeq
<1>2. /\ new \in Seq(ConfigLine) /\ Len(new) = Len(lines)
      /\ \A j \in 1 .. Len(lines) : \/ new[j] = lines[j]
                                    \/ lines[j].key = RerankerKey /\ new[j].key = RerankerKey
      /\ ~on => \A j \in 1 .. Len(lines) : ~IsActive(new[j], RerankerKey)
  <2>1. CASE on = FALSE
    <3> DEFINE Marked(line) ==
          IF IsActive(line, RerankerKey) THEN [line EXCEPT !.commented = TRUE] ELSE line
    <3>1. new = [j \in 1 .. Len(lines) |-> Marked(lines[j])]
      BY <1>1, <2>1 DEF SetReranker, CommentOutKeyLine, RerankerKey
    <3>2. ASSUME NEW line \in ConfigLine
          PROVE  /\ Marked(line) \in ConfigLine /\ ~IsActive(Marked(line), RerankerKey)
                 /\ \/ Marked(line) = line
                    \/ line.key = RerankerKey /\ Marked(line).key = RerankerKey
      <4>1. CASE IsActive(line, RerankerKey)
        <5> DEFINE marked == [line EXCEPT !.commented = TRUE]
        <5>1. marked \in ConfigLine /\ marked.key = line.key
          BY DEF ConfigLine
        <5>2. marked.commented = TRUE
          BY DEF ConfigLine
        <5>3. Marked(line) = marked
          BY <4>1
        <5> HIDE DEF marked, Marked
        <5>4. QED BY <4>1, <5>1, <5>2, <5>3 DEF IsActive
      <4>2. CASE ~IsActive(line, RerankerKey)
        BY <4>2
      <4>3. QED BY <4>1, <4>2
    <3> HIDE DEF Marked, new
    <3>3. new \in Seq(ConfigLine) /\ Len(new) = Len(lines)
      <4>1. \A j \in 1 .. Len(lines) : Marked(lines[j]) \in ConfigLine
        BY <1>1, <3>2
      <4>2. new \in Seq(ConfigLine)
        BY <1>1, <3>1, <4>1, IsASeq
      <4>3. DOMAIN new = 1 .. Len(lines)
        BY <3>1
      <4>4. QED BY <1>1, <4>2, <4>3, LenProperties
    <3>4. \A j \in 1 .. Len(lines) : new[j] = Marked(lines[j])
      BY <3>1
    <3>5. QED BY <1>1, <3>2, <3>3, <3>4
  <2>2. CASE on = TRUE /\ i # 0
    <3> DEFINE I == {j \in 1 .. Len(lines) : lines[j].key = RerankerKey /\ lines[j].commented}
    <3>1. i = IF I # {} THEN Max(I) ELSE 0
      BY DEF RememberedLine, SelectLastInSeq
    <3>2. I \in SUBSET (1 .. Len(lines)) /\ I # {}
      BY <2>2, <3>1
    <3>3. Max(I) \in I
      <4> HIDE DEF I
      <4>1. QED BY <1>1, <3>2, LargestExists DEF Max
    <3>4. i \in 1 .. Len(lines) /\ lines[i].key = RerankerKey
      BY <3>1, <3>2, <3>3
    <3>5. PICK line \in ConfigLine : line = [lines[i] EXCEPT !.commented = FALSE]
      BY <1>1, <3>4 DEF ConfigLine
    <3>6. line.key = RerankerKey
      BY <1>1, <3>4, <3>5 DEF ConfigLine
    <3>7. new = [lines EXCEPT ![i] = line]
      BY <2>2, <3>5 DEF SetReranker, RerankerKey
    <3> HIDE DEF new, i
    <3>8. /\ new \in Seq(ConfigLine) /\ Len(new) = Len(lines) /\ new[i] = line
          /\ \A j \in 1 .. Len(lines) : j # i => new[j] = lines[j]
      BY <3>4, <3>7, ExceptSeq
    <3>9. QED BY <2>2, <3>4, <3>6, <3>8
  <2>3. CASE on = TRUE /\ i = 0
    BY <2>3 DEF SetReranker, RerankerKey
  <2>4. QED BY <2>1, <2>2, <2>3
<1> HIDE DEF new
<1>3. ~on => Active(new, RerankerKey) = {}
  BY <1>2 DEF Active
<1>4. ThinkingEnabled(FileOf(new)) = ThinkingEnabled(FileOf(lines))
  <2> DEFINE k == LastKeyLine(FileOf(lines), "thinking")
  <2>1. Active(new, "thinking") = Active(lines, "thinking")
    BY <1>2 DEF Active, IsActive, RerankerKey
  <2>2. LastKeyLine(FileOf(new), "thinking") = k
    BY <1>2, <2>1, SameActiveLines
  <2>3. CASE k = 0
    BY <2>2, <2>3 DEF ThinkingEnabled, DialogValue
  <2>4. CASE k # 0
    <3>1. k \in Active(lines, "thinking")
      BY <2>4, LastLine
    <3> HIDE DEF k
    <3>2. k \in 1 .. Len(lines) /\ lines[k].key = "thinking"
      BY <3>1 DEF Active, IsActive
    <3>3. new[k] = lines[k]
      BY <1>2, <3>2 DEF RerankerKey
    <3>4. DialogValue(FileOf(new), "thinking") = new[k].value
      BY <2>2, <2>4 DEF DialogValue, FileOf
    <3>5. DialogValue(FileOf(lines), "thinking") = lines[k].value
      BY <2>4 DEF DialogValue, FileOf, k
    <3>6. QED BY <3>3, <3>4, <3>5 DEF ThinkingEnabled
  <2>5. QED BY <2>3, <2>4
<1>5. QED BY <1>2, <1>3, <1>4 DEF new

-----------------------------------------------------------------------------
(* The settings and the questions that obey them.                           *)

ConfigFiles == [exists : BOOLEAN, lines : Seq(ConfigLine)]

Switches == [thinking : BOOLEAN, reranker : BOOLEAN]

Gates == [enabled : BOOLEAN, attempted : BOOLEAN, loaded : BOOLEAN]

Stages == {"idle", "asked", "chat", "search", "deeper", "documents", "done"}

Misses == {"nothing", "a failure", "off"}

Queries ==
  [at : Stages, thinking : BOOLEAN, retry : BOOLEAN, reasons : BOOLEAN,
   reranked : BOOLEAN, loadable : BOOLEAN, missed : Misses]

SettingTypes ==
  /\ config \in ConfigFiles
  /\ dialog \in Switches
  /\ gate \in Gates
  /\ chosen \in [thinking : SUBSET BOOLEAN, reranker : SUBSET BOOLEAN]
  /\ query \in Queries
  /\ missed \in Misses

(* What was chosen is in the file, and the file is not the generated one    *)
(* about to be written over.                                                *)
ChoicesAreSaved ==
  /\ chosen.thinking # {} \/ chosen.reranker # {} => config.exists /\ phase # "config"
  /\ chosen.thinking \subseteq {ThinkingEnabled(config)}
  /\ FALSE \in chosen.reranker => Active(config.lines, RerankerKey) = {}

DialogShowsTheFile ==
  phase \in {"running", "closing"} => dialog.thinking = ThinkingEnabled(config)

(* What was chosen is what the gate does: turned off, it neither holds a    *)
(* reranker it would use nor finds one to load; turned on, it is open. What *)
(* the attempt was spent on is remembered for as long as it is spent.       *)
GateFollowsTheSwitch ==
  /\ FALSE \in chosen.reranker => ~(gate.enabled /\ gate.loaded)
  /\ TRUE \in chosen.reranker => gate.enabled
  /\ missed # "nothing" <=> gate.enabled /\ gate.attempted /\ ~gate.loaded

(* No switch is turned while a question is under way.                       *)
QuestionFollowsTheSwitch ==
  query.at \notin {"idle", "done"} => chosen.thinking \subseteq {query.thinking}

SettingsInv ==
  /\ SettingTypes
  /\ ChoicesAreSaved
  /\ DialogShowsTheFile
  /\ GateFollowsTheSwitch
  /\ QuestionFollowsTheSwitch
  /\ SettingsReachTheEngine

LEMMA AConfigFile ==
  ASSUME NEW lines \in Seq(ConfigLine)
  PROVE  /\ FileOf(lines) \in ConfigFiles
         /\ FileOf(lines).exists = TRUE /\ FileOf(lines).lines = lines
<1>1. FileOf(lines) \in ConfigFiles
  BY DEF FileOf, ConfigFiles
<1>2. QED BY <1>1, Zenon DEF FileOf

LEMMA NothingConfigured ==
  ASSUME NEW file \in ConfigFiles, Active(file.lines, RerankerKey) = {}
  PROVE  RerankerModelPath(file) = Unset
<1>1. PICK lines \in Seq(ConfigLine) : lines = file.lines
  BY DEF ConfigFiles
<1>2. LastKeyLine(FileOf(lines), RerankerKey) = 0
  BY <1>1, LastLine
<1>3. LastKeyLine(file, RerankerKey) = 0
  BY <1>1, <1>2 DEF LastKeyLine, FileOf
<1>4. QED BY <1>3 DEF RerankerModelPath, FindLastValue, RerankerKey

LEMMA ThinkingIsBoolean == \A file : ThinkingEnabled(file) \in BOOLEAN
  BY DEF ThinkingEnabled

LEMMA NoQueryIsNone == NoQuery \in Queries /\ NoQuery.at = "idle"
<1>1. NoQuery \in Queries
  BY DEF NoQuery, Queries, Stages, Misses
<1>2. QED BY <1>1, Zenon DEF NoQuery

(* The fields of a query that goes on.                                      *)
GoesOn(q, at, reasons) == [q EXCEPT !.at = at, !.reasons = reasons]

Searches(q, at, reasons, reranked, loadable, spent) ==
  [q EXCEPT !.at = at, !.reasons = reasons, !.reranked = reranked,
            !.loadable = loadable, !.missed = spent]

LEMMA AQueryGoesOn ==
  ASSUME NEW q \in Queries, NEW at \in Stages, NEW reasons \in BOOLEAN,
         NEW new, new = GoesOn(q, at, reasons)
  PROVE  /\ new \in Queries /\ new.at = at /\ new.reasons = reasons
         /\ new.thinking = q.thinking
<1>1. new \in Queries
  BY DEF Queries, GoesOn
<1>2. new.at = at
  BY DEF Queries, GoesOn
<1>3. new.reasons = reasons
  BY DEF Queries, GoesOn
<1>4. new.thinking = q.thinking
  BY DEF Queries, GoesOn
<1>5. QED BY <1>1, <1>2, <1>3, <1>4

LEMMA AQuerySearches ==
  ASSUME NEW q \in Queries, NEW at \in Stages, NEW reasons \in BOOLEAN,
         NEW reranked \in BOOLEAN, NEW loadable \in BOOLEAN, NEW spent \in Misses,
         NEW new, new = Searches(q, at, reasons, reranked, loadable, spent)
  PROVE  /\ new \in Queries /\ new.at = at /\ new.reasons = reasons
         /\ new.thinking = q.thinking /\ new.reranked = reranked
         /\ new.loadable = loadable /\ new.missed = spent
<1>1. new \in Queries
  BY DEF Queries, Searches
<1>2. new.at = at
  BY DEF Queries, Searches
<1>3. new.reasons = reasons
  BY DEF Queries, Searches
<1>4. new.thinking = q.thinking
  BY DEF Queries, Searches
<1>5. new.reranked = reranked
  BY DEF Queries, Searches
<1>6. new.loadable = loadable
  BY DEF Queries, Searches
<1>7. new.missed = spent
  BY DEF Queries, Searches
<1>8. QED BY <1>1, <1>2, <1>3, <1>4, <1>5, <1>6, <1>7

LEMMA FreshGateIsAGate ==
  /\ FreshGate \in Gates
  /\ FreshGate.enabled = TRUE /\ FreshGate.attempted = FALSE /\ FreshGate.loaded = FALSE
<1>1. FreshGate \in Gates
  BY DEF FreshGate, Gates
<1>2. QED BY <1>1, Zenon DEF FreshGate

LEMMA SettingsInit == Init => SettingsInv
<1> SUFFICES ASSUME Init PROVE SettingsInv
  OBVIOUS
<1>1. /\ config \in Configs /\ phase = "off"
      /\ dialog = [thinking |-> FALSE, reranker |-> FALSE]
      /\ gate = FreshGate /\ query = NoQuery
      /\ chosen = [thinking |-> {}, reranker |-> {}] /\ missed = "nothing"
  BY DEF Init
<1>2. config \in ConfigFiles
  BY <1>1, LaunchAssumption DEF ConfigFiles, ConfigLine, ConfigKeys, ConfigValues
<1>3. chosen.thinking = {} /\ chosen.reranker = {}
  BY <1>1
<1>4. SettingTypes
  <2>1. dialog \in Switches
    BY <1>1 DEF Switches
  <2>2. chosen \in [thinking : SUBSET BOOLEAN, reranker : SUBSET BOOLEAN]
    BY <1>1
  <2>3. QED
    BY <1>1, <1>2, <2>1, <2>2, FreshGateIsAGate, NoQueryIsNone DEF SettingTypes, Misses
<1>5. ChoicesAreSaved /\ DialogShowsTheFile
  BY <1>1, <1>3 DEF ChoicesAreSaved, DialogShowsTheFile
<1>6. GateFollowsTheSwitch
  BY <1>1, <1>3, FreshGateIsAGate DEF GateFollowsTheSwitch
<1>7. QuestionFollowsTheSwitch /\ SettingsReachTheEngine
  BY <1>1, NoQueryIsNone DEF QuestionFollowsTheSwitch, SettingsReachTheEngine,
                             Answering, Searching
<1>8. QED BY <1>4, <1>5, <1>6, <1>7 DEF SettingsInv

(* Steps before the window opens leave a file with a choice in it alone.    *)
LEMMA StartUpKeepsSettings ==
  ASSUME SettingsInv, Launch \/ PrepareLayout \/ WriteConfig \/ InitDb \/ StartServer
                      \/ CreateDb
  PROVE  SettingsInv'
<1>1. UNCHANGED <<dialog, gate, query, chosen, missed>>
  BY DEF Launch, PrepareLayout, WriteConfig, InitDb, StartServer, CreateDb,
         startupFrame, settingVars
<1>2. phase' \notin {"running", "closing", "off"}
  BY DEF Launch, PrepareLayout, WriteConfig, InitDb, StartServer, CreateDb, Enter
<1>3. \/ config' = config /\ phase' # "config"
      \/ ~config.exists /\ config' = FileOf(<<>>)
      \/ phase = "config" /\ config' = FileOf(FirstConfig) /\ phase' # "config"
  BY DEF Launch, PrepareLayout, WriteConfig, InitDb, StartServer, CreateDb, Enter,
         diskVars
<1>4. config' \in ConfigFiles
  <2>1. <<>> \in Seq(ConfigLine)
    BY EmptySeq
  <2>2. FirstConfig \in Seq(ConfigLine)
    <3>1. /\ {ChatModel, RerankerModel, "off", "socket"} \subseteq ConfigValues
          /\ {"model_path", "reranker_model_path", "thinking", "db_conninfo"}
               \subseteq ConfigKeys
      BY LaunchAssumption DEF ConfigValues, ConfigKeys
    <3>2. /\ Line("model_path", ChatModel) \in ConfigLine
          /\ Line("reranker_model_path", RerankerModel) \in ConfigLine
          /\ Line("thinking", "off") \in ConfigLine
          /\ Line("db_conninfo", "socket") \in ConfigLine
      BY <3>1, LineIsALine
    <3>3. QED BY <3>2 DEF FirstConfig
  <2>3. QED BY <1>3, <2>1, <2>2, AConfigFile DEF SettingsInv, SettingTypes
<1>5. SettingTypes'
  BY <1>1, <1>4 DEF SettingsInv, SettingTypes
<1>6. ChoicesAreSaved'
  <2>1. CASE config' = config /\ phase' # "config"
    BY <1>1, <2>1 DEF SettingsInv, ChoicesAreSaved
  <2>2. CASE ~config.exists \/ phase = "config"
    <3>1. chosen.thinking = {} /\ chosen.reranker = {}
      BY <2>2 DEF SettingsInv, ChoicesAreSaved
    <3>2. QED BY <1>1, <3>1 DEF ChoicesAreSaved
  <2>3. QED BY <1>3, <2>1, <2>2
<1>7. DialogShowsTheFile'
  BY <1>2 DEF DialogShowsTheFile
<1>8. GateFollowsTheSwitch' /\ QuestionFollowsTheSwitch' /\ SettingsReachTheEngine'
  BY <1>1 DEF SettingsInv, GateFollowsTheSwitch, QuestionFollowsTheSwitch,
              SettingsReachTheEngine, Answering, Searching
<1>9. QED BY <1>5, <1>6, <1>7, <1>8 DEF SettingsInv

(* Steps that leave the file, the switches and the question alone.          *)
LEMMA SettingsUntouched ==
  ASSUME SettingsInv, UNCHANGED <<config, dialog, gate, query, chosen, missed>>,
         \/ phase' = phase
         \/ phase' \notin {"running", "closing", "config"}
         \/ phase = "running" /\ phase' = "closing"
  PROVE  SettingsInv'
<1>1. SettingTypes' /\ ChoicesAreSaved' /\ DialogShowsTheFile'
  BY DEF SettingsInv, SettingTypes, ChoicesAreSaved, DialogShowsTheFile
<1>2. GateFollowsTheSwitch' /\ QuestionFollowsTheSwitch'
  BY DEF SettingsInv, GateFollowsTheSwitch, QuestionFollowsTheSwitch
<1>3. SettingsReachTheEngine'
  BY DEF SettingsInv, SettingsReachTheEngine, Answering, Searching
<1>4. QED BY <1>1, <1>2, <1>3 DEF SettingsInv

(* The process ends and takes with it all but the file.                     *)
LEMMA ForgetKeepsSettings ==
  ASSUME SettingsInv, Forget, UNCHANGED <<config, chosen>>,
         phase' \in {"stopping", "off"}
  PROVE  SettingsInv'
<1>1. /\ gate' = FreshGate /\ query' = NoQuery
      /\ dialog' = [thinking |-> FALSE, reranker |-> FALSE] /\ missed' = "nothing"
  BY DEF Forget
<1>2. SettingTypes'
  <2>1. dialog' \in Switches
    BY <1>1 DEF Switches
  <2>2. QED
    BY <1>1, <2>1, FreshGateIsAGate, NoQueryIsNone DEF SettingsInv, SettingTypes, Misses
<1>3. ChoicesAreSaved' /\ DialogShowsTheFile'
  BY DEF SettingsInv, ChoicesAreSaved, DialogShowsTheFile
<1>4. GateFollowsTheSwitch'
  BY <1>1, FreshGateIsAGate DEF GateFollowsTheSwitch
<1>5. QuestionFollowsTheSwitch' /\ SettingsReachTheEngine'
  BY <1>1, NoQueryIsNone DEF QuestionFollowsTheSwitch, SettingsReachTheEngine,
                             Answering, Searching
<1>6. QED BY <1>2, <1>3, <1>4, <1>5 DEF SettingsInv

LEMMA OpenWindowKeepsSettings ==
  ASSUME SettingsInv, OpenWindow
  PROVE  SettingsInv'
<1>1. /\ dialog' = [thinking |-> ThinkingEnabled(config),
                    reranker |-> RerankerEnabled(config)]
      /\ UNCHANGED <<config, gate, query, chosen, missed>>
      /\ phase' = "running"
  BY DEF OpenWindow, Enter, diskVars, historyVars
<1>2. dialog' \in Switches /\ dialog'.thinking = ThinkingEnabled(config)
  <2>1. PICK t \in BOOLEAN, r \in BOOLEAN :
          t = ThinkingEnabled(config) /\ r = RerankerEnabled(config)
    BY DEF ThinkingEnabled, RerankerEnabled
  <2>2. dialog' = [thinking |-> t, reranker |-> r]
    BY <1>1, <2>1
  <2>3. dialog' \in Switches
    BY <2>2 DEF Switches
  <2>4. dialog'.thinking = t
    BY <2>2, Zenon
  <2>5. QED BY <2>1, <2>3, <2>4
<1>3. SettingTypes'
  BY <1>1, <1>2 DEF SettingsInv, SettingTypes
<1>4. ChoicesAreSaved' /\ DialogShowsTheFile'
  BY <1>1, <1>2 DEF SettingsInv, ChoicesAreSaved, DialogShowsTheFile
<1>5. GateFollowsTheSwitch' /\ QuestionFollowsTheSwitch' /\ SettingsReachTheEngine'
  BY <1>1 DEF SettingsInv, GateFollowsTheSwitch, QuestionFollowsTheSwitch,
              SettingsReachTheEngine, Answering, Searching
<1>6. QED BY <1>3, <1>4, <1>5 DEF SettingsInv

LEMMA AskKeepsSettings ==
  ASSUME SettingsInv, Ask
  PROVE  SettingsInv'
<1>1. PICK retry \in BOOLEAN :
        query' = [NoQuery EXCEPT !.at = "asked", !.thinking = dialog.thinking,
                                 !.retry = retry]
  BY DEF Ask
<1>2. UNCHANGED <<config, dialog, gate, chosen, missed, phase>> /\ phase = "running"
  BY DEF Ask, WindowIsOpen, diskVars, historyVars
<1>3. PICK t \in BOOLEAN : t = dialog.thinking
  BY DEF SettingsInv, SettingTypes, Switches
<1>4. query' \in Queries /\ query'.at = "asked" /\ query'.thinking = dialog.thinking
  <2>1. PICK none \in Queries : none = NoQuery
    BY NoQueryIsNone
  <2>2. query' = [none EXCEPT !.at = "asked", !.thinking = t, !.retry = retry]
    BY <1>1, <1>3, <2>1
  <2>3. query' \in Queries
    BY <2>2 DEF Queries, Stages
  <2>4. query'.at = "asked"
    BY <2>2 DEF Queries
  <2>5. query'.thinking = t
    BY <2>2 DEF Queries
  <2>6. QED BY <1>3, <2>3, <2>4, <2>5
<1>5. chosen.thinking \subseteq {query'.thinking}
  BY <1>2, <1>4 DEF SettingsInv, ChoicesAreSaved, DialogShowsTheFile
<1>6. SettingTypes' /\ ChoicesAreSaved' /\ DialogShowsTheFile' /\ GateFollowsTheSwitch'
  BY <1>2, <1>4 DEF SettingsInv, SettingTypes, ChoicesAreSaved, DialogShowsTheFile,
                    GateFollowsTheSwitch
<1>7. QuestionFollowsTheSwitch'
  BY <1>2, <1>5 DEF QuestionFollowsTheSwitch
<1>8. SettingsReachTheEngine'
  BY <1>4 DEF SettingsReachTheEngine, Answering, Searching
<1>9. QED BY <1>6, <1>7, <1>8 DEF SettingsInv

(* A chat, or the documents, answer.                                        *)
LEMMA AnswerKeepsSettings ==
  ASSUME SettingsInv, UNCHANGED <<config, dialog, gate, chosen, missed, phase>>,
         query.at \notin {"idle", "done"}, NEW at \in {"chat", "documents"},
         NEW reasons \in BOOLEAN, at = "chat" => reasons,
         at = "documents" => reasons = query.thinking,
         query' = [query EXCEPT !.at = at, !.reasons = reasons]
  PROVE  SettingsInv'
<1>1. /\ query' \in Queries /\ query'.at = at /\ query'.reasons = reasons
      /\ query'.thinking = query.thinking
  <2>1. PICK q \in Queries : q = query
    BY DEF SettingsInv, SettingTypes
  <2>2. at \in Stages
    BY DEF Stages
  <2>3. query' = GoesOn(q, at, reasons)
    BY <2>1 DEF GoesOn
  <2>4. QED BY <2>1, <2>2, <2>3, AQueryGoesOn
<1>2. chosen.thinking \subseteq {query.thinking}
  BY DEF SettingsInv, QuestionFollowsTheSwitch
<1>3. SettingTypes' /\ ChoicesAreSaved' /\ DialogShowsTheFile' /\ GateFollowsTheSwitch'
  BY <1>1 DEF SettingsInv, SettingTypes, ChoicesAreSaved, DialogShowsTheFile,
              GateFollowsTheSwitch
<1>4. QuestionFollowsTheSwitch'
  BY <1>1, <1>2 DEF QuestionFollowsTheSwitch
<1>5. SettingsReachTheEngine'
  <2>1. CASE at = "chat"
    BY <1>1, <2>1 DEF SettingsReachTheEngine, Searching
  <2>2. CASE at = "documents"
    <3>1. TRUE \in chosen.thinking => query'.reasons
      BY <1>1, <1>2, <2>2
    <3>2. FALSE \in chosen.thinking => ~query'.reasons
      BY <1>1, <1>2, <2>2
    <3>3. ~Searching'
      BY <1>1, <2>2 DEF Searching
    <3>4. QED BY <3>1, <3>2, <3>3 DEF SettingsReachTheEngine
  <2>3. QED BY <2>1, <2>2
<1>6. QED BY <1>3, <1>4, <1>5 DEF SettingsInv

LEMMA ConverseKeepsSettings == SettingsInv /\ Converse => SettingsInv'
<1> SUFFICES ASSUME SettingsInv, Converse PROVE SettingsInv'
  OBVIOUS
<1>1. /\ query.at = "asked"
      /\ query' = [query EXCEPT !.at = "chat", !.reasons = TRUE]
      /\ UNCHANGED <<config, dialog, gate, chosen, missed, phase>>
  BY DEF Converse, diskVars, historyVars
<1>2. QED BY <1>1, AnswerKeepsSettings

LEMMA ReadDocumentsKeepsSettings == SettingsInv /\ ReadDocuments => SettingsInv'
<1> SUFFICES ASSUME SettingsInv, ReadDocuments PROVE SettingsInv'
  OBVIOUS
<1>1. PICK t \in BOOLEAN : t = query.thinking
  BY DEF SettingsInv, SettingTypes, Queries
<1>2. /\ query.at \notin {"idle", "done"}
      /\ query' = [query EXCEPT !.at = "documents", !.reasons = t]
      /\ UNCHANGED <<config, dialog, gate, chosen, missed, phase>>
  BY <1>1 DEF ReadDocuments, diskVars, historyVars
<1>3. QED BY <1>1, <1>2, AnswerKeepsSettings

(* The gate after a question: open or shut as before, with what its one     *)
(* attempt has loaded.                                                      *)
LEMMA GateIsTried ==
  ASSUME gate \in Gates, config \in ConfigFiles
  PROVE  /\ TriedGate \in Gates /\ TriedGate.enabled = gate.enabled
         /\ gate.enabled => TriedGate.attempted
         /\ RerankerModelPath(config) = Unset => TriedGate.loaded = gate.loaded
         /\ gate.enabled /\ gate.attempted => TriedGate.loaded = gate.loaded
         /\ gate.loaded => TriedGate.loaded
         /\ (/\ gate.enabled /\ ~gate.attempted
             /\ RerankerModelPath(config) # Unset
             /\ Loads(RerankerModelPath(config))) => TriedGate.loaded
<1> DEFINE path == RerankerModelPath(config)
<1>1. gate.enabled \in BOOLEAN /\ gate.attempted \in BOOLEAN /\ gate.loaded \in BOOLEAN
  BY DEF Gates
<1>2. CASE ~gate.enabled \/ gate.attempted
  <2>1. TriedGate = gate
    BY <1>2 DEF TriedGate
  <2>2. QED BY <1>1, <1>2, <2>1
<1>3. CASE gate.enabled /\ ~gate.attempted
  <2>1. PICK l \in BOOLEAN :
          l = IF path = Unset THEN gate.loaded ELSE gate.loaded \/ Loads(path)
    BY <1>1 DEF Loads
  <2>2. TriedGate = [gate EXCEPT !.attempted = TRUE, !.loaded = l]
    BY <1>3, <2>1 DEF TriedGate
  <2>3. /\ TriedGate \in Gates /\ TriedGate.enabled = gate.enabled
        /\ TriedGate.attempted = TRUE /\ TriedGate.loaded = l
    <3>1. TriedGate \in Gates
      BY <2>2 DEF Gates
    <3>2. TriedGate.enabled = gate.enabled
      BY <2>2 DEF Gates
    <3>3. TriedGate.attempted = TRUE
      BY <2>2 DEF Gates
    <3>4. TriedGate.loaded = l
      BY <2>2 DEF Gates
    <3>5. QED BY <3>1, <3>2, <3>3, <3>4
  <2>4. path = Unset => l = gate.loaded
    BY <2>1
  <2>5. path # Unset => (l <=> gate.loaded \/ Loads(path))
    BY <2>1
  <2>6. QED BY <1>1, <1>3, <2>3, <2>4, <2>5
<1>4. QED BY <1>1, <1>2, <1>3

LEMMA RetrieveKeepsSettings ==
  ASSUME SettingsInv, Retrieve
  PROVE  SettingsInv'
<1> DEFINE path == RerankerModelPath(config)
           deeper == query.retry \/ query.at = "search"
           stage == IF deeper THEN "deeper" ELSE "search"
           reasons == deeper \/ query.thinking
           reranked == TriedGate.enabled /\ TriedGate.loaded
           loadable == Loads(path)
<1>1. /\ query.at \in {"asked", "search"} /\ gate' = TriedGate
      /\ query' = [query EXCEPT !.at = stage, !.reasons = reasons, !.reranked = reranked,
                                !.loadable = loadable, !.missed = missed]
      /\ missed' = IF missed # "nothing" \/ ~TriedGate.enabled \/ TriedGate.loaded
                   THEN missed ELSE IF dialog.reranker THEN "a failure" ELSE "off"
      /\ UNCHANGED <<config, dialog, chosen, phase>>
  BY DEF Retrieve, diskVars
<1>2. /\ gate \in Gates /\ config \in ConfigFiles /\ query \in Queries
      /\ missed \in Misses /\ query.thinking \in BOOLEAN
  BY DEF SettingsInv, SettingTypes, Queries
<1>3. /\ TriedGate \in Gates /\ TriedGate.enabled = gate.enabled
      /\ gate.enabled => TriedGate.attempted
      /\ path = Unset => TriedGate.loaded = gate.loaded
      /\ gate.enabled /\ gate.attempted => TriedGate.loaded = gate.loaded
      /\ gate.loaded => TriedGate.loaded
      /\ (gate.enabled /\ ~gate.attempted /\ path # Unset /\ Loads(path)) =>
           TriedGate.loaded
  BY <1>2, GateIsTried
<1>4. missed # "nothing" <=> gate.enabled /\ gate.attempted /\ ~gate.loaded
  BY DEF SettingsInv, GateFollowsTheSwitch
<1>5. /\ reranked => FALSE \notin chosen.reranker
      /\ (TRUE \in chosen.reranker /\ loadable) => (reranked <=> missed = "nothing")
  <2>1. FALSE \in chosen.reranker => ~(TriedGate.enabled /\ TriedGate.loaded)
    <3> SUFFICES ASSUME FALSE \in chosen.reranker
                 PROVE  ~(TriedGate.enabled /\ TriedGate.loaded)
      OBVIOUS
    <3>1. path = Unset
      BY <1>2, NothingConfigured DEF SettingsInv, ChoicesAreSaved
    <3>2. ~(gate.enabled /\ gate.loaded)
      BY DEF SettingsInv, GateFollowsTheSwitch
    <3>3. QED BY <1>3, <3>1, <3>2
  <2>2. ASSUME TRUE \in chosen.reranker, Loads(path)
        PROVE  (TriedGate.enabled /\ TriedGate.loaded) <=> missed = "nothing"
    <3>1. gate.enabled
      BY <2>2 DEF SettingsInv, GateFollowsTheSwitch
    <3>2. path # Unset
      BY <2>2, LaunchAssumption DEF Loads
    <3>3. CASE missed = "nothing"
      BY <1>3, <1>4, <2>2, <3>1, <3>2, <3>3
    <3>4. CASE missed # "nothing"
      BY <1>3, <1>4, <3>4
    <3>5. QED BY <3>3, <3>4
  <2>3. QED BY <2>1, <2>2
<1>6. /\ query' \in Queries /\ query'.at = stage /\ query'.reasons = reasons
      /\ query'.thinking = query.thinking
      /\ query'.reranked = reranked /\ query'.loadable = loadable
      /\ query'.missed = missed
  <2>1. stage \in Stages
    BY DEF Stages
  <2>2. reasons \in BOOLEAN /\ reranked \in BOOLEAN /\ loadable \in BOOLEAN
    BY <1>2, <1>3 DEF Gates, Loads
  <2>3. PICK q \in Queries : q = query
    BY <1>2
  <2>4. query' = Searches(q, stage, reasons, reranked, loadable, missed)
    BY <1>1, <2>3 DEF Searches
  <2> HIDE DEF stage, reasons, reranked, loadable
  <2>5. QED BY <1>2, <2>1, <2>2, <2>3, <2>4, AQuerySearches
<1>7. missed' \in Misses
  BY <1>1, <1>2 DEF Misses
<1>8. SettingTypes' /\ ChoicesAreSaved' /\ DialogShowsTheFile'
  <2> HIDE DEF stage, reasons, reranked, loadable
  <2>1. QED BY <1>1, <1>3, <1>6, <1>7
              DEF SettingsInv, SettingTypes, ChoicesAreSaved, DialogShowsTheFile
<1>9. GateFollowsTheSwitch'
  <2>1. FALSE \in chosen.reranker => ~(TriedGate.enabled /\ TriedGate.loaded)
    BY <1>5
  <2>2. TRUE \in chosen.reranker => TriedGate.enabled
    BY <1>3 DEF SettingsInv, GateFollowsTheSwitch
  <2>3. missed' # "nothing" <=>
          TriedGate.enabled /\ TriedGate.attempted /\ ~TriedGate.loaded
    <3>1. CASE missed # "nothing"
      BY <1>1, <1>3, <1>4, <3>1
    <3>2. CASE missed = "nothing" /\ (~TriedGate.enabled \/ TriedGate.loaded)
      BY <1>1, <3>2
    <3>3. CASE missed = "nothing" /\ TriedGate.enabled /\ ~TriedGate.loaded
      BY <1>1, <1>3, <3>3
    <3>4. QED BY <3>1, <3>2, <3>3
  <2>4. QED BY <1>1, <2>1, <2>2, <2>3 DEF GateFollowsTheSwitch
<1>10. chosen.thinking \subseteq {query.thinking}
  BY <1>1 DEF SettingsInv, QuestionFollowsTheSwitch
<1>11. QuestionFollowsTheSwitch'
  <2> HIDE DEF stage, reasons, reranked, loadable
  <2>1. QED BY <1>1, <1>6, <1>10 DEF QuestionFollowsTheSwitch
<1>12. SettingsReachTheEngine'
  <2>1. TRUE \in chosen.thinking => query'.reasons
    BY <1>6, <1>10
  <2>2. FALSE \in chosen.thinking /\ query'.reasons => query'.at \in {"chat", "deeper"}
    BY <1>6, <1>10
  <2> HIDE DEF stage, reasons, reranked, loadable
  <2>3. /\ query'.reranked => FALSE \notin chosen.reranker
        /\ TRUE \in chosen.reranker /\ query'.loadable =>
             (query'.reranked <=> query'.missed = "nothing")
    BY <1>5, <1>6
  <2>4. QED BY <1>1, <2>1, <2>2, <2>3 DEF SettingsReachTheEngine
<1>13. QED BY <1>8, <1>9, <1>11, <1>12 DEF SettingsInv

(* The worker is through with the question, and the UI thread has seen it.  *)
LEMMA EndKeepsSettings ==
  ASSUME SettingsInv, EndQuery \/ OnQueryFinished
  PROVE  SettingsInv'
<1>1. /\ query' = [NoQuery EXCEPT !.at = "done"] \/ query' = NoQuery
      /\ UNCHANGED <<config, dialog, gate, chosen, missed, phase>>
  BY DEF EndQuery, OnQueryFinished, diskVars, historyVars
<1>2. query' \in Queries /\ query'.at \in {"idle", "done"}
  <2>1. CASE query' = NoQuery
    BY <2>1, NoQueryIsNone
  <2>2. CASE query' = [NoQuery EXCEPT !.at = "done"]
    <3>1. PICK none \in Queries : none = NoQuery
      BY NoQueryIsNone
    <3>2. query' = [none EXCEPT !.at = "done"]
      BY <2>2, <3>1
    <3>3. query' \in Queries
      BY <3>2 DEF Queries, Stages
    <3>4. query'.at = "done"
      BY <3>2 DEF Queries
    <3>5. QED BY <3>3, <3>4
  <2>3. QED BY <1>1, <2>1, <2>2
<1>3. SettingTypes' /\ ChoicesAreSaved' /\ DialogShowsTheFile' /\ GateFollowsTheSwitch'
  BY <1>1, <1>2 DEF SettingsInv, SettingTypes, ChoicesAreSaved, DialogShowsTheFile,
                    GateFollowsTheSwitch
<1>4. QuestionFollowsTheSwitch' /\ SettingsReachTheEngine'
  BY <1>2 DEF QuestionFollowsTheSwitch, SettingsReachTheEngine, Answering, Searching
<1>5. QED BY <1>3, <1>4 DEF SettingsInv

LEMMA SetThinkingKeepsSettings ==
  ASSUME SettingsInv, SetThinkingEnabled
  PROVE  SettingsInv'
<1>1. /\ phase = "running" /\ phase' = phase /\ query' = query /\ query.at = "idle"
  BY DEF SetThinkingEnabled, Switch, WindowIsOpen, Idle
<1>2. CASE NotSaved
  BY <1>1, <1>2, SettingsUntouched DEF NotSaved
<1>3. ASSUME config' = FileOf(SetThinking(config.lines, ~dialog.thinking)),
             dialog' = [dialog EXCEPT !.thinking = ~@],
             chosen' = [chosen EXCEPT !.thinking = {~dialog.thinking}],
             UNCHANGED <<gate, missed>>
      PROVE  SettingsInv'
  <2>1. PICK on \in BOOLEAN : on = ~dialog.thinking
    BY DEF SettingsInv, SettingTypes, Switches
  <2>2. PICK lines \in Seq(ConfigLine) : lines = config.lines
    BY DEF SettingsInv, SettingTypes, ConfigFiles
  <2> DEFINE new == SetThinking(lines, on)
  <2>3. /\ new \in Seq(ConfigLine) /\ ThinkingEnabled(FileOf(new)) = on
        /\ Active(new, RerankerKey) = Active(lines, RerankerKey)
    BY ThinkingSaved, ThinkingLeavesTheReranker
  <2>4. config' = FileOf(new)
    BY <1>3, <2>1, <2>2
  <2> HIDE DEF new
  <2>5. config' \in ConfigFiles /\ config'.exists = TRUE /\ config'.lines = new
    BY <2>3, <2>4, AConfigFile
  <2>6. /\ dialog' \in Switches /\ dialog'.thinking = on
    <3>1. dialog' = [dialog EXCEPT !.thinking = on]
      BY <1>3, <2>1
    <3>2. QED BY <3>1 DEF SettingsInv, SettingTypes, Switches
  <2>7. /\ chosen' \in [thinking : SUBSET BOOLEAN, reranker : SUBSET BOOLEAN]
        /\ chosen'.thinking = {on} /\ chosen'.reranker = chosen.reranker
    <3>1. chosen' = [chosen EXCEPT !.thinking = {on}]
      BY <1>3, <2>1
    <3>2. QED BY <3>1 DEF SettingsInv, SettingTypes
  <2>8. SettingTypes'
    BY <1>1, <1>3, <2>5, <2>6, <2>7 DEF SettingsInv, SettingTypes
  <2>9. ChoicesAreSaved'
    BY <1>1, <2>2, <2>3, <2>4, <2>5, <2>7 DEF SettingsInv, ChoicesAreSaved
  <2>10. DialogShowsTheFile'
    BY <2>3, <2>4, <2>6 DEF DialogShowsTheFile
  <2>11. GateFollowsTheSwitch'
    BY <1>3, <2>7 DEF SettingsInv, GateFollowsTheSwitch
  <2>12. QuestionFollowsTheSwitch' /\ SettingsReachTheEngine'
    BY <1>1 DEF QuestionFollowsTheSwitch, SettingsReachTheEngine, Answering, Searching
  <2>13. QED BY <2>8, <2>9, <2>10, <2>11, <2>12 DEF SettingsInv
<1>4. QED BY <1>2, <1>3 DEF SetThinkingEnabled

LEMMA SetRerankerKeepsSettings ==
  ASSUME SettingsInv, SetRerankerEnabled
  PROVE  SettingsInv'
<1>1. /\ phase = "running" /\ phase' = phase /\ query' = query /\ query.at = "idle"
  BY DEF SetRerankerEnabled, Switch, WindowIsOpen, Idle
<1>2. CASE NotSaved
  BY <1>1, <1>2, SettingsUntouched DEF NotSaved
<1>3. PICK on \in BOOLEAN : on = ~dialog.reranker
  BY DEF SettingsInv, SettingTypes, Switches
<1>4. ASSUME config' = FileOf(SetReranker(config.lines, on)),
             dialog' = [dialog EXCEPT !.reranker = on],
             gate' = GateSet(on),
             chosen' = [chosen EXCEPT !.reranker = {on}],
             missed' = IF on THEN missed ELSE "nothing"
      PROVE  SettingsInv'
  <2>1. PICK lines \in Seq(ConfigLine) : lines = config.lines
    BY DEF SettingsInv, SettingTypes, ConfigFiles
  <2> DEFINE new == SetReranker(lines, on)
  <2>2. /\ new \in Seq(ConfigLine)
        /\ ThinkingEnabled(FileOf(new)) = ThinkingEnabled(FileOf(lines))
        /\ ~on => Active(new, RerankerKey) = {}
    BY RerankerSaved
  <2>3. config' = FileOf(new)
    BY <1>4, <2>1
  <2> HIDE DEF new
  <2>4. config' \in ConfigFiles /\ config'.exists = TRUE /\ config'.lines = new
    BY <2>2, <2>3, AConfigFile
  <2>5. ThinkingEnabled(config') = ThinkingEnabled(config)
    <3>1. ThinkingEnabled(FileOf(lines)) = ThinkingEnabled(config)
      BY <2>1 DEF ThinkingEnabled, DialogValue, LastKeyLine, FileOf
    <3>2. QED BY <2>2, <2>3, <3>1
  <2>6. dialog' \in Switches /\ dialog'.thinking = dialog.thinking
    BY <1>4 DEF SettingsInv, SettingTypes, Switches
  <2>7. /\ chosen' \in [thinking : SUBSET BOOLEAN, reranker : SUBSET BOOLEAN]
        /\ chosen'.thinking = chosen.thinking /\ chosen'.reranker = {on}
    BY <1>4 DEF SettingsInv, SettingTypes
  <2>8. /\ gate' \in Gates /\ gate'.enabled = on /\ gate'.loaded = gate.loaded
        /\ on => (gate'.attempted <=> gate.attempted /\ gate.enabled)
    <3>1. gate \in Gates
      BY DEF SettingsInv, SettingTypes
    <3>2. PICK a \in BOOLEAN :
            a = IF on /\ ~gate.enabled THEN FALSE ELSE gate.attempted
      BY <3>1 DEF Gates
    <3>3. gate' = [gate EXCEPT !.enabled = on, !.attempted = a]
      BY <1>4, <3>2 DEF GateSet
    <3>4. gate' \in Gates
      BY <3>1, <3>3 DEF Gates
    <3>5. gate'.enabled = on
      BY <3>1, <3>3 DEF Gates
    <3>6. gate'.loaded = gate.loaded
      BY <3>1, <3>3 DEF Gates
    <3>7. gate'.attempted = a
      BY <3>1, <3>3 DEF Gates
    <3>8. on => (a <=> gate.attempted /\ gate.enabled)
      BY <3>2
    <3>9. QED BY <3>4, <3>5, <3>6, <3>7, <3>8
  <2>9. SettingTypes'
    BY <1>1, <1>4, <2>4, <2>6, <2>7, <2>8 DEF SettingsInv, SettingTypes, Misses
  <2>10. ChoicesAreSaved'
    <3>1. (FALSE \in {on}) => ~on
      OBVIOUS
    <3>2. QED
      BY <1>1, <2>2, <2>4, <2>5, <2>7, <3>1 DEF SettingsInv, ChoicesAreSaved
  <2>11. DialogShowsTheFile'
    BY <1>1, <2>5, <2>6 DEF SettingsInv, DialogShowsTheFile
  <2>12. GateFollowsTheSwitch'
    <3>1. CASE on = TRUE
      <4>1. chosen'.reranker = {TRUE} /\ gate'.enabled = TRUE
        BY <2>7, <2>8, <3>1
      <4>2. missed' = missed
        BY <1>4, <3>1
      <4>3. gate'.enabled /\ gate'.attempted /\ ~gate'.loaded <=>
              gate.enabled /\ gate.attempted /\ ~gate.loaded
        BY <2>8, <3>1
      <4>4. missed # "nothing" <=> gate.enabled /\ gate.attempted /\ ~gate.loaded
        BY DEF SettingsInv, GateFollowsTheSwitch
      <4>5. QED BY <4>1, <4>2, <4>3, <4>4 DEF GateFollowsTheSwitch
    <3>2. CASE on = FALSE
      <4>1. /\ chosen'.reranker = {FALSE} /\ gate'.enabled = FALSE
            /\ missed' = "nothing"
        BY <1>4, <2>7, <2>8, <3>2
      <4>2. QED BY <4>1 DEF GateFollowsTheSwitch
    <3>3. QED BY <3>1, <3>2
  <2>13. QuestionFollowsTheSwitch' /\ SettingsReachTheEngine'
    BY <1>1 DEF QuestionFollowsTheSwitch, SettingsReachTheEngine, Answering, Searching
  <2>14. QED BY <2>9, <2>10, <2>11, <2>12, <2>13 DEF SettingsInv
<1>5. QED BY <1>2, <1>3, <1>4 DEF SetRerankerEnabled

LEMMA SettingsStep == SettingsInv /\ [Next]_vars => SettingsInv'
<1> SUFFICES ASSUME SettingsInv, [Next]_vars PROVE SettingsInv'
  OBVIOUS
<1>1. CASE Launch \/ PrepareLayout \/ WriteConfig \/ InitDb \/ StartServer \/ CreateDb
  BY <1>1, StartUpKeepsSettings
<1>2. CASE OpenWindow
  BY <1>2, OpenWindowKeepsSettings
<1>3. CASE \/ Setup \/ FetchModel \/ LoadModel \/ OnModelLoadFinished \/ Quit
           \/ StopServer \/ Reboot \/ UNCHANGED vars
  <2>1. UNCHANGED <<config, dialog, gate, query, chosen, missed>>
    BY <1>3 DEF Setup, FetchModel, LoadModel, OnModelLoadFinished, Quit, StopServer,
                Reboot, vars, diskVars, settingVars, historyVars
  <2>2. \/ phase' = phase \/ phase' = "off"
        \/ phase = "running" /\ phase' = "closing"
    BY <1>3 DEF Setup, FetchModel, LoadModel, OnModelLoadFinished, Quit, StopServer,
                Reboot, vars, Enter
  <2>3. QED BY <2>1, <2>2, SettingsUntouched
<1>4. CASE DestroyControllers \/ Crash
  BY <1>4, ForgetKeepsSettings DEF DestroyControllers, Crash, Enter, diskVars
<1>5. CASE Ask
  BY <1>5, AskKeepsSettings
<1>6. CASE Retrieve
  BY <1>6, RetrieveKeepsSettings
<1>7. CASE EndQuery \/ OnQueryFinished
  BY <1>7, EndKeepsSettings
<1>8. CASE SetThinkingEnabled
  BY <1>8, SetThinkingKeepsSettings
<1>9. CASE SetRerankerEnabled
  BY <1>9, SetRerankerKeepsSettings
<1>10. CASE Converse
  BY <1>10, ConverseKeepsSettings
<1>11. CASE ReadDocuments
  BY <1>11, ReadDocumentsKeepsSettings
<1>12. QED
  BY <1>1, <1>2, <1>3, <1>4, <1>5, <1>6, <1>7, <1>8, <1>9, <1>10, <1>11
     DEF Next, StartUp, UserStep

(* The last choice made in the settings dialog is the one every later       *)
(* answer obeys, through edited files, failed saves, crashes and restarts.  *)
(* Thinking, turned on, is in every answer, and turned off, in none but a   *)
(* chat, a retry and the search after a refusal, which always reason. The   *)
(* reranker is never used once turned off; turned on, with its file whole,  *)
(* every search uses it if and only if its one attempt to load has not been *)
(* spent before, on a file that did not load or on a question asked while   *)
(* the switch the process started with was off (ConfigManager,              *)
(* retrieval_set_reranker_enabled, reranker_ready).                         *)
THEOREM SettingsAlwaysReachTheEngine == Spec => []SettingsReachTheEngine
<1>1. SettingsInv => SettingsReachTheEngine
  BY DEF SettingsInv
<1>2. QED BY <1>1, SettingsInit, SettingsStep, PTL DEF Spec
=============================================================================
