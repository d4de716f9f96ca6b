-------------------------- MODULE ChatSessionProofs --------------------------
(***************************************************************************)
(* Safety of ChatSession for any models, texts, streams and numbers of     *)
(* requests: a session does one thing at a time, what it shows is what was *)
(* read, and every conversation is one of Conversation.                    *)
(***************************************************************************)
EXTENDS ChatSession, SequenceTheorems, TLAPS

\* The call a session is streaming is the newest of its model.
Newest ==
    \A m \in Models : streaming[m] =>
        \A d \in CallIds : calls[d].model = m => d <= abort[m]

\* No more was read than was taken.
ReadsTaken == \A c \in CallIds : calls[c].read <= 2 * Len(calls[c].lines)

IInv == TypeOK /\ OneTask /\ Newest /\ ReadsTaken /\ ReplyIsStream

USE ChatAssumption

-------------------------------------------------------------------------------
(* Types                                                                   *)

\* The page stays on its routes and keeps a list of states.
LEMMA ShowsType ==
  ASSUME TypeOK, NEW r \in Models \cup {Bare}, NEW l \in [Models -> States] \cup {Loading},
         Shows(r, l)
  PROVE  /\ route' \in Models \cup {Away, Bare}
         /\ list' \in [Models -> States] \cup {Loading}
         /\ last' \in Models \cup {NoModel}
<1>1. Redirects(r, l) \subseteq Models \cup {Bare}
  BY DEF Redirects
<1>2. QED
  BY <1>1 DEF Shows, TypeOK

\* A field of a call may be set.
LEMMA CallType ==
  ASSUME NEW c \in 1 .. Len(calls), calls \in Seq(Call), NEW k \in Call
  PROVE  [calls EXCEPT ![c] = k] \in Seq(Call)
BY ExceptSeq

\* What is sent is typed.
LEMMA ContentType ==
  ASSUME TypeOK, NEW m \in Models
  PROVE  Content(m) \in Seq(Piece)
<1>1. images[m] \in Seq({Image}) /\ input[m] \in Texts \cup {NoText}
  BY DEF TypeOK
<1>2. images[m] \in Seq(Piece)
  <2>1. {Image} \subseteq Piece
    BY DEF Piece
  <2>2. QED
    BY <1>1, <2>1, SeqMonotonic
<1>3. (IF input[m] = NoText THEN <<>> ELSE <<input[m]>>) \in Seq(Piece)
  <2>1. input[m] \in Piece
    BY <1>1 DEF Piece
  <2>2. <<>> \in Seq(Piece) /\ <<input[m]>> \in Seq(Piece)
    BY <2>1
  <2>3. QED
    BY <2>2
<1>4. QED
  BY <1>2, <1>3, ConcatProperties DEF Content

\* So is the history it is sent with.
LEMMA HistoryType ==
  ASSUME TypeOK, NEW m \in Models
  PROVE  /\ messages[m] \in Seq(Message)
         /\ History(m) \in Seq(Message)
         /\ Len(History(m)) = Len(messages[m]) + 1
         /\ Append(History(m), EmptyReply) \in Seq(Message)
<1>1. messages[m] \in Seq(Message)
  BY DEF TypeOK
<1>2. UserMessage(Content(m)) \in Message /\ EmptyReply \in Message
  BY ContentType DEF UserMessage, EmptyReply, Message
<1>3. QED
  BY <1>1, <1>2, AppendProperties DEF History

\* Without its reasoning as well.
LEMMA BaredType ==
  ASSUME NEW ms \in Seq(Message)
  PROVE  WithoutReasoning(ms) \in Seq([role: {"user", "assistant"}, content: Seq(Piece)])
<1> DEFINE Sent == [role: {"user", "assistant"}, content: Seq(Piece)]
           f == WithoutReasoning(ms)
<1>1. Len(ms) \in Nat /\ DOMAIN ms = 1 .. Len(ms)
  BY LenProperties
<1>2. \A i \in 1 .. Len(ms) : ms[i] \in Message
  BY ElementOfSeq
<1>3. \A i \in 1 .. Len(ms) : Bared(ms[i]) \in Sent
  BY <1>2 DEF Bared, Message
<1>4. f \in [1 .. Len(ms) -> Sent]
  BY <1>1, <1>3 DEF WithoutReasoning
<1> HIDE DEF f, Sent
<1>5. f \in Seq(Sent)
  BY <1>1, <1>4
<1>6. QED
  BY <1>5 DEF f, Sent

\* A new call.
LEMMA NewCallType ==
  ASSUME TypeOK, NEW m \in Models, NEW ms \in Seq(Message)
  PROVE  NewCall(m, WithoutReasoning(ms)) \in Call
<1>1. system[m] \in BOOLEAN /\ thinking[m] \in BOOLEAN
  BY DEF TypeOK
<1>2. <<>> \in Seq(Kinds)
  OBVIOUS
<1>3. QED
  BY <1>1, <1>2, BaredType DEF NewCall, Call

\* The pieces of any lines are pieces of text, one per line.
LEMMA PiecesType ==
  ASSUME NEW c \in Nat, NEW kinds, NEW kind, NEW i \in Nat, NEW j \in Nat, i <= j
  PROVE  /\ Pieces(c, kinds, kind, i, j) \in Seq(Piece)
         /\ Len(Pieces(c, kinds, kind, i, j)) = j - i
<1> DEFINE f == Pieces(c, kinds, kind, i, j)
<1>1. j - i \in Nat
  OBVIOUS
<1>2. \A n \in 1 .. (j - i) :
        (IF kinds[i + n] \in {kind, "both"} THEN <<c, i + n>> ELSE NoText) \in Piece
  BY DEF Piece
<1>3. f \in [1 .. (j - i) -> Piece]
  BY <1>2 DEF Pieces
<1> HIDE DEF f
<1>4. f \in Seq(Piece) /\ Len(f) = j - i
  BY <1>1, <1>3
<1>5. QED
  BY <1>4 DEF f

-------------------------------------------------------------------------------
(* Steps beside the conversations                                          *)

core == <<messages, reading, streaming, abort, pending, calls>>

\* What happens on the page and on the server leaves the conversations alone.
LEMMA PageSteps ==
  ASSUME TypeOK,
         \/ Navigate \/ PollModels
         \/ \E m \in Models : SelectModel(m) \/ \E s \in States : ModelChanges(m, s)
  PROVE  TypeOK' /\ UNCHANGED core
<1> DEFINE PageOK == /\ route \in Models \cup {Away, Bare}
                     /\ list \in [Models -> States] \cup {Loading}
                     /\ last \in Models \cup {NoModel}
<1>1. CASE Navigate
  <2>1. PageOK'
    <3>1. CASE route' = Away /\ list' = Loading /\ UNCHANGED last
      BY <3>1 DEF TypeOK
    <3>2. CASE \E r \in Models \cup {Bare} : route = Away /\ Shows(r, Loading)
      BY <3>2, ShowsType
    <3>3. CASE route \in Models /\ Shows(Bare, list)
      <4>1. list \in [Models -> States] \cup {Loading}
        BY DEF TypeOK
      <4>2. QED
        BY <3>3, <4>1, ShowsType
    <3>4. QED
      BY <1>1, <3>1, <3>2, <3>3 DEF Navigate
  <2>2. moves' \in Nat
    BY <1>1 DEF Navigate, Moved, TypeOK
  <2>3. QED
    BY <1>1, <2>1, <2>2 DEF Navigate, session, core, TypeOK
<1>2. CASE PollModels
  <2>1. route \in Models \cup {Bare} /\ registry \in [Models -> States] \cup {Loading}
    BY <1>2 DEF PollModels, TypeOK
  <2>2. PageOK'
    BY <1>2, <2>1, ShowsType DEF PollModels
  <2>3. QED
    BY <1>2, <2>2 DEF PollModels, session, core, TypeOK
<1>3. CASE \E m \in Models : SelectModel(m)
  <2>1. PICK m \in Models : SelectModel(m)
    BY <1>3
  <2>2. list \in [Models -> States] \cup {Loading}
    BY DEF TypeOK
  <2>3. PageOK'
    BY <2>1, <2>2, ShowsType DEF SelectModel
  <2>4. moves' \in Nat
    BY <2>1 DEF SelectModel, Moved, TypeOK
  <2>5. QED
    BY <2>1, <2>3, <2>4 DEF SelectModel, session, core, TypeOK
<1>4. CASE \E m \in Models : \E s \in States : ModelChanges(m, s)
  <2>1. PICK m \in Models, s \in States : ModelChanges(m, s)
    BY <1>4
  <2>2. registry' \in [Models -> States] /\ moves' \in Nat
    BY <2>1 DEF ModelChanges, Moved, TypeOK
  <2>3. QED
    BY <2>1, <2>2 DEF ModelChanges, session, page, core, TypeOK
<1>5. QED
  BY <1>1, <1>2, <1>3, <1>4

\* So does the composer, up to sending.
LEMMA ComposerSteps ==
  ASSUME TypeOK, NEW m \in Models,
         \/ \E text \in Texts : TypeText(m, text)
         \/ RemoveImage(m) \/ EditSystem(m) \/ SwitchThinking(m)
  PROVE  TypeOK' /\ UNCHANGED core
<1>1. CASE \E text \in Texts : TypeText(m, text)
  BY <1>1 DEF TypeText, Moved, page, core, TypeOK
<1>2. CASE RemoveImage(m)
  <2>1. images[m] \in Seq({Image}) /\ images[m] # <<>>
    BY <1>2 DEF RemoveImage, TypeOK
  <2>2. Tail(images[m]) \in Seq({Image})
    BY <2>1, HeadTailProperties
  <2>3. images' \in [Models -> Seq({Image})]
    BY <1>2, <2>2 DEF RemoveImage, TypeOK
  <2>4. QED
    BY <1>2, <2>3 DEF RemoveImage, page, core, TypeOK
<1>3. CASE EditSystem(m)
  BY <1>3 DEF EditSystem, Moved, page, core, TypeOK
<1>4. CASE SwitchThinking(m)
  BY <1>4 DEF SwitchThinking, Moved, page, core, TypeOK
<1>5. QED
  BY <1>1, <1>2, <1>3, <1>4

\* Where the conversations are left alone, everything else holds on.
LEMMA CoreUnchanged ==
  ASSUME IInv, TypeOK', UNCHANGED core
  PROVE  IInv'
<1>1. OneTask' /\ Newest' /\ ReadsTaken'
  BY DEF IInv, core, OneTask, Newest, ReadsTaken, CallIds, Open
<1>2. ReplyIsStream'
  BY DEF IInv, core, ReplyIsStream, NewestOf, CallIds, Whole, Pieces
<1>3. QED
  BY <1>1, <1>2 DEF IInv

\* Files are asked for, and read.
LEMMA ImageSteps ==
  ASSUME IInv, NEW m \in Models, AttachImages(m) \/ ImagesRead(m)
  PROVE  IInv' /\ UNCHANGED <<messages, streaming, abort, calls>>
<1>1. UNCHANGED <<messages, streaming, abort, calls>>
  BY DEF AttachImages, ImagesRead
<1>2. TypeOK' /\ OneTask'
  <2>1. CASE AttachImages(m)
    BY <2>1 DEF AttachImages, Moved, page, IInv, TypeOK, OneTask, CallIds, Open
  <2>2. CASE ImagesRead(m)
    <3>1. images' \in [Models -> Seq({Image})]
      <4>1. images[m] \in Seq({Image})
        BY DEF IInv, TypeOK
      <4>2. Append(images[m], Image) \in Seq({Image})
        BY <4>1, AppendProperties
      <4>3. QED
        BY <2>2, <4>2 DEF ImagesRead, IInv, TypeOK
    <3>2. pending[m] > 0 /\ pending[m] = (IF reading[m] THEN 1 ELSE 0) /\ ~(streaming[m] /\ reading[m])
      BY <2>2 DEF ImagesRead, IInv, OneTask
    <3>3. pending[m] = 1 /\ ~streaming[m]
      BY <3>2
    <3>4. pending' = [pending EXCEPT ![m] = 0] /\ reading' = [reading EXCEPT ![m] = FALSE]
      BY <2>2, <3>3 DEF ImagesRead
    <3>5. TypeOK'
      <4>1. pending' \in [Models -> Nat] /\ reading' \in [Models -> BOOLEAN]
        BY <3>4 DEF IInv, TypeOK
      <4>2. QED
        BY <2>2, <3>1, <4>1 DEF ImagesRead, page, IInv, TypeOK
    <3>6. OneTask'
      <4>1. SUFFICES ASSUME NEW n \in Models
                     PROVE  /\ {c \in CallIds' : calls'[c].model = n /\ Open(c)'} =
                                  IF streaming'[n] THEN {abort'[n]} ELSE {}
                            /\ ~streaming'[n] => abort'[n] = NoCall
                            /\ pending'[n] = IF reading'[n] THEN 1 ELSE 0
                            /\ ~(streaming'[n] /\ reading'[n])
        BY DEF OneTask
      <4>2. {c \in CallIds' : calls'[c].model = n /\ Open(c)'}
              = {c \in CallIds : calls[c].model = n /\ Open(c)}
        BY <1>1 DEF CallIds, Open
      <4>3. /\ {c \in CallIds : calls[c].model = n /\ Open(c)} =
                  IF streaming[n] THEN {abort[n]} ELSE {}
            /\ ~streaming[n] => abort[n] = NoCall
            /\ pending[n] = IF reading[n] THEN 1 ELSE 0
            /\ ~(streaming[n] /\ reading[n])
        BY DEF IInv, OneTask
      <4>4. pending'[n] = (IF reading'[n] THEN 1 ELSE 0) /\ ~(streaming'[n] /\ reading'[n])
        BY <1>1, <3>4, <4>3 DEF IInv, TypeOK
      <4>5. QED
        BY <1>1, <4>2, <4>3, <4>4
    <3>7. QED
      BY <3>5, <3>6
  <2>3. QED
    BY <2>1, <2>2
<1>3. Newest' /\ ReadsTaken' /\ ReplyIsStream'
  BY <1>1 DEF IInv, Newest, ReadsTaken, ReplyIsStream, NewestOf, CallIds, Whole, Pieces
<1>4. QED
  BY <1>1, <1>2, <1>3 DEF IInv

\* What a conversation owes its newest call.
ReplyHolds(c, m) ==
    LET reply == messages[m][Len(messages[m])] IN
    /\ reply.role = "assistant"
    /\ reply.content = Pieces(c, calls[c].lines, "content", 0, Whole(calls[c].read))

\* It is still given when neither the conversation nor the call has changed.
LEMMA ReplyKept ==
  ASSUME ReplyIsStream, NEW m \in Models, NEW c \in CallIds, NewestOf(c, m),
         messages[m] # <<>>, messages'[m] = messages[m],
         calls'[c].lines = calls[c].lines, calls'[c].read = calls[c].read
  PROVE  ReplyHolds(c, m)'
BY DEF ReplyIsStream, ReplyHolds, Whole, Pieces

\* Clear empties a conversation that is at rest.
LEMMA ClearStep ==
  ASSUME IInv, NEW m \in Models, Clear(m)
  PROVE  IInv'
<1>1. TypeOK'
  BY DEF Clear, page, IInv, TypeOK
<1>2. OneTask' /\ Newest' /\ ReadsTaken'
  BY DEF Clear, IInv, OneTask, Newest, ReadsTaken, CallIds, Open
<1>3. ReplyIsStream'
  <2>1. SUFFICES ASSUME NEW c \in CallIds', NEW n \in Models, NewestOf(c, n)', messages'[n] # <<>>
                 PROVE  ReplyHolds(c, n)'
    BY DEF ReplyIsStream, ReplyHolds
  <2>2. UNCHANGED calls /\ n # m /\ messages'[n] = messages[n]
    BY <2>1 DEF Clear, IInv, TypeOK
  <2>3. QED
    BY <2>1, <2>2, ReplyKept DEF IInv, CallIds, NewestOf
<1>4. QED
  BY <1>1, <1>2, <1>3 DEF IInv

-------------------------------------------------------------------------------
(* Steps of a completion                                                   *)

\* Stop cancels the session's call and nothing else.
LEMMA StopStep ==
  ASSUME IInv, NEW m \in Models, Stop(m)
  PROVE  IInv'
<1> DEFINE c == abort[m]
           k == [calls[c] EXCEPT !.aborted = TRUE]
<1>1. c \in 1 .. Len(calls) /\ calls \in Seq(Call) /\ calls[c] \in Call
  BY ElementOfSeq DEF Stop, CallIds, IInv, TypeOK
<1>2. k \in Call /\ calls' = [calls EXCEPT ![c] = k]
  BY <1>1 DEF Stop, Call
<1>3. calls' \in Seq(Call) /\ Len(calls') = Len(calls)
      /\ \A d \in 1 .. Len(calls) : calls'[d] = IF d = c THEN k ELSE calls[d]
  BY <1>1, <1>2, ExceptSeq
<1>4. \A d \in 1 .. Len(calls) :
        /\ calls'[d].model = calls[d].model /\ calls'[d].state = calls[d].state
        /\ calls'[d].lines = calls[d].lines /\ calls'[d].read = calls[d].read
  <2>1. /\ k.model = calls[c].model /\ k.state = calls[c].state
        /\ k.lines = calls[c].lines /\ k.read = calls[c].read
    BY <1>1 DEF Call
  <2>2. QED
    BY <1>3, <2>1
<1>5. CallIds' = CallIds /\ CallIds = 1 .. Len(calls)
  BY <1>3 DEF CallIds
<1>6. TypeOK'
  BY <1>3 DEF Stop, session, page, IInv, TypeOK
<1>7. OneTask'
  BY <1>4, <1>5 DEF Stop, session, IInv, OneTask, Open
<1>8. Newest' /\ ReadsTaken'
  BY <1>4, <1>5 DEF Stop, session, IInv, Newest, ReadsTaken
<1>9. ReplyIsStream'
  <2>1. SUFFICES ASSUME NEW d \in CallIds, NEW n \in Models, NewestOf(d, n)', messages[n] # <<>>
                 PROVE  ReplyHolds(d, n)'
    BY <1>5 DEF ReplyIsStream, ReplyHolds, Stop, session
  <2>2. NewestOf(d, n)
    BY <1>4, <1>5, <2>1 DEF NewestOf
  <2>3. QED
    BY <1>4, <1>5, <2>1, <2>2, ReplyKept DEF Stop, session, IInv
<1>10. QED
  BY <1>6, <1>7, <1>8, <1>9 DEF IInv

\* An open call is the one its model's session streams.
LEMMA OpenCall ==
  ASSUME IInv, NEW c \in CallIds, Open(c)
  PROVE  /\ calls[c] \in Call /\ calls[c].model \in Models
         /\ streaming[calls[c].model] /\ abort[calls[c].model] = c
         /\ c \in 1 .. Len(calls) /\ calls \in Seq(Call)
<1>1. c \in 1 .. Len(calls) /\ calls \in Seq(Call)
  BY DEF IInv, TypeOK, CallIds
<1>2. calls[c] \in Call
  BY <1>1, ElementOfSeq
<1>3. calls[c].model \in Models
  BY <1>2 DEF Call
<1>4. c \in {d \in CallIds : calls[d].model = calls[c].model /\ Open(d)}
  OBVIOUS
<1>5. QED
  BY <1>1, <1>2, <1>3, <1>4 DEF IInv, OneTask

\* A call goes on: its session still streams it.
LEMMA StaysOpen ==
  ASSUME IInv, NEW c \in CallIds, Open(c), NEW k \in Call, calls' = [calls EXCEPT ![c] = k],
         k.model = calls[c].model, k.state # "over",
         UNCHANGED <<streaming, abort, pending, reading>>
  PROVE  OneTask' /\ Newest'
<1>1. CallIds' = CallIds /\ \A d \in CallIds : calls'[d] = IF d = c THEN k ELSE calls[d]
  BY OpenCall, ExceptSeq DEF CallIds
<1>2. \A d \in CallIds : calls'[d].model = calls[d].model /\ (Open(d)' <=> Open(d))
  BY <1>1 DEF Open
<1>3. QED
  BY <1>1, <1>2 DEF IInv, OneTask, Newest

\* A call is over, and its session at rest.
LEMMA Settled ==
  ASSUME IInv, NEW c \in CallIds, Open(c), NEW k \in Call, calls' = [calls EXCEPT ![c] = k],
         k.model = calls[c].model, k.state = "over", Settle(c)
  PROVE  OneTask' /\ Newest'
<1> DEFINE m == calls[c].model
<1>1. CallIds' = CallIds /\ \A d \in CallIds : calls'[d] = IF d = c THEN k ELSE calls[d]
  BY OpenCall, ExceptSeq DEF CallIds
<1>2. \A d \in CallIds : /\ calls'[d].model = calls[d].model
                          /\ Open(d)' <=> Open(d) /\ d # c
  BY <1>1 DEF Open
<1>3. m \in Models /\ streaming[m] /\ abort[m] = c
  BY OpenCall
<1>4. /\ streaming' = [streaming EXCEPT ![m] = FALSE]
      /\ abort' = [abort EXCEPT ![m] = NoCall]
      /\ UNCHANGED <<pending, reading>>
  BY DEF Settle
<1> HIDE DEF m
<1>5. ASSUME NEW n \in Models
      PROVE  /\ {d \in CallIds' : calls'[d].model = n /\ Open(d)'} =
                    IF streaming'[n] THEN {abort'[n]} ELSE {}
             /\ ~streaming'[n] => abort'[n] = NoCall
             /\ pending'[n] = IF reading'[n] THEN 1 ELSE 0
             /\ ~(streaming'[n] /\ reading'[n])
  <2>1. /\ {d \in CallIds : calls[d].model = n /\ Open(d)} =
              IF streaming[n] THEN {abort[n]} ELSE {}
        /\ ~streaming[n] => abort[n] = NoCall
        /\ pending[n] = IF reading[n] THEN 1 ELSE 0
        /\ ~(streaming[n] /\ reading[n])
    BY DEF IInv, OneTask
  <2>2. {d \in CallIds' : calls'[d].model = n /\ Open(d)'}
          = {d \in CallIds : calls[d].model = n /\ Open(d)} \ {c}
    BY <1>1, <1>2
  <2>3. CASE n = m
    BY <1>3, <1>4, <2>1, <2>2, <2>3 DEF IInv, TypeOK
  <2>4. CASE n # m
    <3>1. c \notin {d \in CallIds : calls[d].model = n /\ Open(d)}
      BY <2>4 DEF m
    <3>2. streaming'[n] = streaming[n] /\ abort'[n] = abort[n]
      BY <1>4, <2>4 DEF IInv, TypeOK
    <3>3. QED
      BY <1>4, <2>1, <2>2, <3>1, <3>2
  <2>5. QED
    BY <2>3, <2>4
<1>6. OneTask'
  BY <1>5 DEF OneTask
<1>7. Newest'
  BY <1>1, <1>2, <1>3, <1>4 DEF IInv, TypeOK, Newest
<1>8. QED
  BY <1>6, <1>7

\* The server answers.
LEMMA AnsweredStep ==
  ASSUME IInv, NEW c \in CallIds, Answered(c)
  PROVE  IInv'
<1> DEFINE k == [calls[c] EXCEPT !.state = "read"]
<1>1. Open(c)
  BY DEF Answered, Open
<1>2. /\ k \in Call /\ calls' = [calls EXCEPT ![c] = k]
      /\ k.model = calls[c].model /\ k.state # "over"
      /\ k.lines = calls[c].lines /\ k.read = calls[c].read
  <2>1. calls[c] \in Call /\ c \in 1 .. Len(calls) /\ calls \in Seq(Call)
    BY <1>1, OpenCall
  <2>2. QED
    BY <2>1 DEF Answered, Call
<1> HIDE DEF k
<1>3. OneTask' /\ Newest'
  BY <1>1, <1>2, StaysOpen DEF Answered, session
<1>4. CallIds' = CallIds /\ \A d \in CallIds : calls'[d] = IF d = c THEN k ELSE calls[d]
  BY <1>1, <1>2, OpenCall, ExceptSeq DEF CallIds
<1>5. \A d \in CallIds : /\ calls'[d].model = calls[d].model
                          /\ calls'[d].lines = calls[d].lines /\ calls'[d].read = calls[d].read
  BY <1>2, <1>4
<1>6. calls' \in Seq(Call)
  BY <1>1, <1>2, OpenCall, ExceptSeq
<1>7. TypeOK'
  BY <1>6 DEF Answered, session, page, IInv, TypeOK
<1>8. ReadsTaken'
  BY <1>4, <1>5 DEF IInv, ReadsTaken
<1>9. ReplyIsStream'
  <2>1. SUFFICES ASSUME NEW d \in CallIds, NEW n \in Models, NewestOf(d, n)', messages[n] # <<>>
                 PROVE  ReplyHolds(d, n)'
    BY <1>4 DEF ReplyIsStream, ReplyHolds, Answered, session
  <2>2. NewestOf(d, n)
    BY <1>4, <1>5, <2>1 DEF NewestOf
  <2>3. QED
    BY <1>5, <2>1, <2>2, ReplyKept DEF Answered, session, IInv
<1>10. QED
  BY <1>3, <1>7, <1>8, <1>9 DEF IInv

\* A completion ends without another piece.
LEMMA EndsStep ==
  ASSUME IInv, NEW c \in CallIds, Ends(c)
  PROVE  IInv'
<1> DEFINE k == [calls[c] EXCEPT !.state = "over"]
<1>1. Open(c) /\ Settle(c) /\ UNCHANGED messages
  BY DEF Ends
<1>2. /\ k \in Call /\ calls' = [calls EXCEPT ![c] = k]
      /\ k.model = calls[c].model /\ k.state = "over"
      /\ k.lines = calls[c].lines /\ k.read = calls[c].read
  <2>1. calls[c] \in Call /\ c \in 1 .. Len(calls) /\ calls \in Seq(Call)
    BY <1>1, OpenCall
  <2>2. QED
    BY <2>1 DEF Ends, Call
<1> HIDE DEF k
<1>3. OneTask' /\ Newest'
  BY <1>1, <1>2, Settled
<1>4. CallIds' = CallIds /\ \A d \in CallIds : calls'[d] = IF d = c THEN k ELSE calls[d]
  BY <1>1, <1>2, OpenCall, ExceptSeq DEF CallIds
<1>5. \A d \in CallIds : /\ calls'[d].model = calls[d].model
                          /\ calls'[d].lines = calls[d].lines /\ calls'[d].read = calls[d].read
  BY <1>2, <1>4
<1>6. calls' \in Seq(Call)
  BY <1>1, <1>2, OpenCall, ExceptSeq
<1>7. TypeOK'
  BY <1>1, <1>6 DEF Ends, Settle, page, IInv, TypeOK
<1>8. ReadsTaken'
  BY <1>4, <1>5 DEF IInv, ReadsTaken
<1>9. ReplyIsStream'
  <2>1. SUFFICES ASSUME NEW d \in CallIds, NEW n \in Models, NewestOf(d, n)', messages[n] # <<>>
                 PROVE  ReplyHolds(d, n)'
    BY <1>1, <1>4 DEF ReplyIsStream, ReplyHolds
  <2>2. NewestOf(d, n)
    BY <1>4, <1>5, <2>1 DEF NewestOf
  <2>3. QED
    BY <1>1, <1>5, <2>1, <2>2, ReplyKept DEF IInv
<1>10. QED
  BY <1>3, <1>7, <1>8, <1>9 DEF IInv

\* No lines have no pieces.
LEMMA PiecesNone ==
  ASSUME NEW c \in Nat, NEW kinds, NEW kind
  PROVE  Pieces(c, kinds, kind, 0, Whole(0)) = <<>>
<1>1. Whole(0) = 0
  BY DEF Whole
<1>2. Pieces(c, kinds, kind, 0, 0) \in Seq(Piece) /\ Len(Pieces(c, kinds, kind, 0, 0)) = 0
  BY PiecesType
<1>3. QED
  BY <1>1, <1>2, EmptySeq

\* What is sent and shown by send.
LEMMA SendParts ==
  ASSUME IInv, NEW m \in Models, Send(m)
  PROVE  LET k == NewCall(m, WithoutReasoning(History(m)))
             n == Len(calls) + 1
             shown == Append(History(m), EmptyReply)
         IN  /\ k \in Call /\ k.model = m /\ k.state = "fetch" /\ k.lines = <<>> /\ k.read = 0
             /\ calls \in Seq(Call) /\ calls' \in Seq(Call) /\ n \in Nat
             /\ CallIds = 1 .. Len(calls) /\ CallIds' = CallIds \cup {n} /\ n \notin CallIds
             /\ calls'[n] = k /\ \A d \in CallIds : calls'[d] = calls[d] /\ d < n
             /\ shown \in Seq(Message) /\ messages' = [messages EXCEPT ![m] = shown]
             /\ Len(shown) = Len(messages[m]) + 2 /\ shown[Len(shown)] = EmptyReply
             /\ ~streaming[m] /\ ~reading[m]
<1> DEFINE k == NewCall(m, WithoutReasoning(History(m)))
           shown == Append(History(m), EmptyReply)
<1>1. TypeOK /\ calls \in Seq(Call) /\ messages[m] \in Seq(Message)
  BY DEF IInv, TypeOK
<1>2. k \in Call
  BY <1>1, HistoryType, NewCallType
<1>3. k.model = m /\ k.state = "fetch" /\ k.lines = <<>> /\ k.read = 0
  BY DEF NewCall
<1>4. calls' = Append(calls, k) /\ messages' = [messages EXCEPT ![m] = shown]
      /\ ~streaming[m] /\ ~reading[m]
  BY DEF Send
<1>5. History(m) \in Seq(Message) /\ shown \in Seq(Message) /\ EmptyReply \in Message
      /\ Len(History(m)) = Len(messages[m]) + 1
  <2>1. <<>> \in Seq(Piece)
    OBVIOUS
  <2>2. EmptyReply \in Message
    BY <2>1 DEF EmptyReply, Message
  <2>3. QED
    BY <1>1, <2>2, HistoryType
<1> HIDE DEF k
<1>6. /\ calls' \in Seq(Call) /\ Len(calls') = Len(calls) + 1 /\ Len(calls) \in Nat
      /\ \A d \in 1 .. Len(calls) : calls'[d] = calls[d]
      /\ calls'[Len(calls) + 1] = k
  BY <1>1, <1>2, <1>4, AppendProperties, LenProperties
<1>7. /\ Len(calls) + 1 \in Nat /\ CallIds = 1 .. Len(calls) /\ CallIds' = CallIds \cup {Len(calls) + 1}
      /\ Len(calls) + 1 \notin CallIds /\ \A d \in CallIds : d < Len(calls) + 1
  BY <1>6 DEF CallIds
<1>8. Len(shown) = Len(messages[m]) + 2 /\ shown[Len(shown)] = EmptyReply
  <2> DEFINE h == History(m)
             e == EmptyReply
  <2>1. h \in Seq(Message) /\ e \in Message /\ Len(h) \in Nat /\ Len(messages[m]) \in Nat
    BY <1>1, <1>5, LenProperties
  <2> HIDE DEF h, e
  <2>2. Len(Append(h, e)) = Len(h) + 1 /\ Append(h, e)[Len(h) + 1] = e
    BY <2>1, AppendProperties
  <2>3. QED
    BY <1>5, <2>1, <2>2 DEF h, e
<1> HIDE DEF shown
<1>9. QED
  BY <1>1, <1>2, <1>3, <1>4, <1>5, <1>6, <1>7, <1>8 DEF k, shown

\* send begins a completion in a session at rest.
LEMMA SendStep ==
  ASSUME IInv, NEW m \in Models, Send(m)
  PROVE  IInv'
<1> DEFINE k == NewCall(m, WithoutReasoning(History(m)))
           n == Len(calls) + 1
           shown == Append(History(m), EmptyReply)
<1>1. /\ k \in Call /\ k.model = m /\ k.state = "fetch" /\ k.lines = <<>> /\ k.read = 0
      /\ calls \in Seq(Call) /\ calls' \in Seq(Call) /\ n \in Nat
      /\ CallIds = 1 .. Len(calls) /\ CallIds' = CallIds \cup {n} /\ n \notin CallIds
      /\ calls'[n] = k /\ \A d \in CallIds : calls'[d] = calls[d] /\ d < n
      /\ shown \in Seq(Message) /\ messages' = [messages EXCEPT ![m] = shown]
      /\ Len(shown) = Len(messages[m]) + 2 /\ shown[Len(shown)] = EmptyReply
      /\ ~streaming[m] /\ ~reading[m]
  BY SendParts
<1>2. /\ abort' = [abort EXCEPT ![m] = n] /\ streaming' = [streaming EXCEPT ![m] = TRUE]
      /\ input' = [input EXCEPT ![m] = NoText] /\ images' = [images EXCEPT ![m] = <<>>]
      /\ UNCHANGED <<reading, system, thinking, pending, page, registry, moves>>
  BY DEF Send
<1> HIDE DEF k, n, shown
<1>3. TypeOK'
  <2>1. abort' \in [Models -> Nat \cup {NoCall}] /\ streaming' \in [Models -> BOOLEAN]
        /\ input' \in [Models -> Texts \cup {NoText}] /\ images' \in [Models -> Seq({Image})]
        /\ messages' \in [Models -> Seq(Message)]
    <3>1. <<>> \in Seq({Image})
      OBVIOUS
    <3>2. QED
      BY <1>1, <1>2, <3>1 DEF IInv, TypeOK
  <2>2. QED
    BY <1>1, <1>2, <2>1 DEF page, IInv, TypeOK
<1>4. OneTask'
  <2>1. SUFFICES ASSUME NEW x \in Models
                 PROVE  /\ {c \in CallIds' : calls'[c].model = x /\ Open(c)'} =
                              IF streaming'[x] THEN {abort'[x]} ELSE {}
                        /\ ~streaming'[x] => abort'[x] = NoCall
                        /\ pending'[x] = IF reading'[x] THEN 1 ELSE 0
                        /\ ~(streaming'[x] /\ reading'[x])
    BY DEF OneTask
  <2>2. /\ {c \in CallIds : calls[c].model = x /\ Open(c)} =
              IF streaming[x] THEN {abort[x]} ELSE {}
        /\ ~streaming[x] => abort[x] = NoCall
        /\ pending[x] = IF reading[x] THEN 1 ELSE 0
        /\ ~(streaming[x] /\ reading[x])
    BY DEF IInv, OneTask
  <2>3. \A c \in CallIds : calls'[c].model = calls[c].model /\ (Open(c)' <=> Open(c))
    BY <1>1 DEF Open
  <2>4. calls'[n].model = m /\ calls'[n].state # "over"
    BY <1>1
  <2>5. {c \in CallIds' : calls'[c].model = x /\ Open(c)'}
          = {c \in CallIds : calls[c].model = x /\ Open(c)} \cup (IF x = m THEN {n} ELSE {})
    <3> DEFINE after == {c \in CallIds' : calls'[c].model = x /\ Open(c)'}
               before == {c \in CallIds : calls[c].model = x /\ Open(c)}
    <3>1. \A c \in CallIds : c \in after <=> c \in before
      BY <1>1, <2>3
    <3>2. n \in after <=> x = m
      BY <1>1, <2>4 DEF Open
    <3>3. after \subseteq CallIds \cup {n} /\ before \subseteq CallIds
      BY <1>1
    <3> HIDE DEF after, before
    <3>4. after = before \cup (IF x = m THEN {n} ELSE {})
      BY <1>1, <3>1, <3>2, <3>3
    <3>5. QED
      BY <3>4 DEF after, before
  <2>6. CASE x = m
    <3>1. streaming'[x] = TRUE /\ abort'[x] = n
      BY <1>2, <2>6 DEF IInv, TypeOK
    <3>2. {c \in CallIds' : calls'[c].model = x /\ Open(c)'} = {n}
      BY <1>1, <2>2, <2>5, <2>6
    <3>3. reading'[x] = reading[x] /\ pending'[x] = pending[x]
      BY <1>2
    <3>4. QED
      BY <1>1, <2>2, <2>6, <3>1, <3>2, <3>3
  <2>7. CASE x # m
    <3>1. streaming'[x] = streaming[x] /\ abort'[x] = abort[x]
      BY <1>2, <2>7 DEF IInv, TypeOK
    <3>2. QED
      BY <1>2, <2>2, <2>5, <2>7, <3>1
  <2>8. QED
    BY <2>6, <2>7
<1>5. Newest'
  <2>1. SUFFICES ASSUME NEW x \in Models, streaming'[x], NEW d \in CallIds', calls'[d].model = x
                 PROVE  d <= abort'[x]
    BY DEF Newest
  <2>2. CASE x = m
    <3>1. abort'[x] = n
      BY <1>2, <2>2 DEF IInv, TypeOK
    <3>2. QED
      BY <1>1, <3>1
  <2>3. CASE x # m
    <3>1. d \in CallIds /\ calls[d].model = x
      BY <1>1, <2>1, <2>3
    <3>2. streaming[x] /\ abort'[x] = abort[x]
      BY <1>2, <2>1, <2>3 DEF IInv, TypeOK
    <3>3. QED
      BY <3>1, <3>2 DEF IInv, Newest
  <2>4. QED
    BY <2>2, <2>3
<1>6. ReadsTaken'
  <2>1. calls'[n].read <= 2 * Len(calls'[n].lines)
    BY <1>1
  <2>2. QED
    BY <1>1, <2>1 DEF IInv, ReadsTaken
<1>7. ReplyIsStream'
  <2>1. SUFFICES ASSUME NEW d \in CallIds', NEW x \in Models, NewestOf(d, x)', messages'[x] # <<>>
                 PROVE  ReplyHolds(d, x)'
    BY DEF ReplyIsStream, ReplyHolds
  <2>2. CASE x = m
    <3>1. d = n
      BY <1>1, <2>1, <2>2 DEF NewestOf
    <3>2. messages'[x] = shown
      BY <1>1, <2>2 DEF IInv, TypeOK
    <3>3. Pieces(n, <<>>, "content", 0, Whole(0)) = <<>>
      BY <1>1, PiecesNone
    <3>4. EmptyReply.role = "assistant" /\ EmptyReply.content = <<>>
      BY DEF EmptyReply
    <3>5. QED
      BY <1>1, <3>1, <3>2, <3>3, <3>4 DEF ReplyHolds, Whole, Pieces
  <2>3. CASE x # m
    <3>1. d \in CallIds /\ d # n
      BY <1>1, <2>1, <2>3 DEF NewestOf
    <3>2. NewestOf(d, x)
      BY <1>1, <2>1, <3>1 DEF NewestOf
    <3>3. messages'[x] = messages[x] /\ calls'[d] = calls[d]
      BY <1>1, <2>3, <3>1 DEF IInv, TypeOK
    <3>4. QED
      BY <2>1, <3>1, <3>2, <3>3, ReplyKept DEF IInv
  <2>4. QED
    BY <2>2, <2>3
<1>8. QED
  BY <1>3, <1>4, <1>5, <1>6, <1>7 DEF IInv

\* Two sequences, one after the other.
Joined(s, t) == s \o t

\* What a reply is with these lines.
LEMMA HeardParts ==
  ASSUME NEW c \in Nat, NEW reply \in Message, NEW kinds, NEW i \in Nat, NEW j \in Nat, i <= j
  PROVE  /\ Heard(c, reply, kinds, i, j) \in Message
         /\ Heard(c, reply, kinds, i, j).role = reply.role
         /\ Heard(c, reply, kinds, i, j).content
              = Joined(reply.content, Pieces(c, kinds, "content", i, j))
         /\ Heard(c, reply, kinds, i, j).reasoning
              = Joined(reply.reasoning, Pieces(c, kinds, "reasoning", i, j))
<1> DEFINE P == Pieces(c, kinds, "content", i, j)
           Q == Pieces(c, kinds, "reasoning", i, j)
           h == [reply EXCEPT !.content = @ \o P, !.reasoning = @ \o Q]
<1>1. P \in Seq(Piece) /\ Q \in Seq(Piece)
  BY PiecesType
<1>2. Heard(c, reply, kinds, i, j) = h
  BY DEF Heard
<1> HIDE DEF P, Q
<1>3. reply.content \o P \in Seq(Piece) /\ reply.reasoning \o Q \in Seq(Piece)
  BY <1>1, ConcatProperties DEF Message
<1>4. /\ h \in Message /\ h.role = reply.role
      /\ h.content = reply.content \o P /\ h.reasoning = reply.reasoning \o Q
  BY <1>3 DEF Message
<1> HIDE DEF h
<1>5. QED
  BY <1>2, <1>4 DEF P, Q, Joined

\* One read of the body takes call c to k, with the lines it completes.
Reading(c, new, m, kinds, taken, i, j, k) ==
    /\ m = calls[c].model /\ i = Whole(calls[c].read) /\ j = Whole(taken) /\ i <= j
    /\ calls[c].lines \in Seq(Kinds) /\ i <= Len(calls[c].lines)
    /\ kinds = calls[c].lines \o new /\ new \in Seq(Kinds) /\ taken <= 2 * Len(kinds)
    /\ k.model = m /\ k.lines = kinds /\ k.read = taken /\ k.messages = calls[c].messages
    /\ calls' = [calls EXCEPT ![c] = k]
    /\ \/ k.state = "over" /\ Settle(c)
       \/ k.state # "over" /\ UNCHANGED <<input, images, reading, streaming, system,
                                          thinking, abort, pending>>
    /\ UNCHANGED <<page, registry, moves>>
    /\ messages' = IF messages[m] = <<>> THEN messages
                   ELSE [messages EXCEPT ![m][Len(messages[m])] = Heard(c, @, kinds, i, j)]

\* Every read is one of these.
LEMMA ReadParts ==
  ASSUME IInv, NEW c \in CallIds, NEW x \in Nat, NEW new \in [1 .. x -> Kinds], NEW cut \in {0, 1},
         ReadBody(c, new, cut)
  PROVE  \E m \in Models, kinds \in Seq(Kinds), taken \in Nat, i \in Nat, j \in Nat, k \in Call :
           Reading(c, new, m, kinds, taken, i, j, k)
<1> DEFINE m     == calls[c].model
           kinds == calls[c].lines \o new
           taken == 2 * Len(kinds) - cut
           i     == Handled(c)
           j     == Whole(taken)
           over  == j > i /\ kinds[j] = "done"
           k     == [calls[c] EXCEPT !.lines = kinds, !.read = taken,
                                     !.state = IF over THEN "over" ELSE "read"]
<1>1. /\ taken > calls[c].read
      /\ messages' = IF messages[m] = <<>> THEN messages
                     ELSE [messages EXCEPT ![m][Len(messages[m])] = Heard(c, @, kinds, i, j)]
      /\ calls' = [calls EXCEPT ![c].lines = kinds, ![c].read = taken,
                                ![c].state = IF over THEN "over" ELSE "read"]
      /\ IF over THEN Settle(c)
         ELSE UNCHANGED <<input, images, reading, streaming, system, thinking, abort, pending>>
      /\ UNCHANGED <<page, registry, moves>>
      /\ Open(c)
  BY DEF ReadBody, Open
<1>2. /\ calls[c] \in Call /\ m \in Models /\ calls \in Seq(Call) /\ c \in 1 .. Len(calls)
  BY <1>1, OpenCall
<1>3. calls[c].lines \in Seq(Kinds) /\ calls[c].read \in Nat
  BY <1>2 DEF Call
<1>4. new \in Seq(Kinds)
  OBVIOUS
<1>5. kinds \in Seq(Kinds) /\ Len(kinds) \in Nat /\ Len(calls[c].lines) \in Nat
  BY <1>3, <1>4, ConcatProperties, LenProperties
<1>6. calls[c].read <= 2 * Len(calls[c].lines)
  BY DEF IInv, ReadsTaken
<1> HIDE DEF kinds
<1>7. taken \in Int /\ taken <= 2 * Len(kinds) /\ j = Whole(taken) /\ i = Whole(calls[c].read)
  BY <1>5 DEF Handled
<1> HIDE DEF taken, i, j, over
<1>8. taken > calls[c].read
  BY <1>1
<1>9. taken \in Nat
  BY <1>3, <1>7, <1>8
<1>10. i \in Nat /\ j \in Nat /\ i <= j /\ i <= Len(calls[c].lines)
  <2> DEFINE r == calls[c].read
             n == Len(calls[c].lines)
  <2>1. r \in Nat /\ taken \in Nat /\ r < taken /\ n \in Nat /\ r <= 2 * n
    BY <1>3, <1>5, <1>6, <1>8, <1>9
  <2>2. j = taken \div 2 /\ i = r \div 2
    BY <1>7 DEF Whole
  <2> HIDE DEF r, n
  <2>3. /\ r \div 2 \in Nat /\ taken \div 2 \in Nat /\ r \div 2 <= taken \div 2 /\ r \div 2 <= n
    BY <2>1
  <2>4. QED
    BY <2>2, <2>3 DEF n
<1>11. calls' = [calls EXCEPT ![c].lines = kinds, ![c].read = taken,
                              ![c].state = IF over THEN "over" ELSE "read"]
  BY <1>1
<1>12. k \in Call /\ calls' = [calls EXCEPT ![c] = k]
       /\ k.model = m /\ k.lines = kinds /\ k.read = taken /\ k.messages = calls[c].messages
       /\ k.state = IF over THEN "over" ELSE "read"
  BY <1>2, <1>5, <1>9, <1>11 DEF Call
<1> HIDE DEF k
<1>13. \/ k.state = "over" /\ Settle(c)
       \/ k.state # "over" /\ UNCHANGED <<input, images, reading, streaming, system,
                                          thinking, abort, pending>>
  BY <1>1, <1>12
<1>14. kinds = calls[c].lines \o new
  BY DEF kinds
<1>15. Reading(c, new, m, kinds, taken, i, j, k)
  BY <1>1, <1>3, <1>4, <1>7, <1>10, <1>12, <1>13, <1>14 DEF Reading
<1> HIDE DEF m
<1>16. QED
  BY <1>2, <1>5, <1>9, <1>10, <1>12, <1>15 DEF m

\* The last message of a session has grown by the pieces of these lines, and
\* nothing else has changed there.
HeardMore(c, m, kinds, i, j) ==
    LET len == Len(messages[m])
        old == messages[m][len]
        h == messages'[m][len]
    IN  /\ len \in 1 .. Len(messages[m]) /\ old \in Message /\ h \in Message
        /\ Len(messages'[m]) = len
        /\ \A n \in 1 .. (len - 1) : messages'[m][n] = messages[m][n]
        /\ h.role = old.role
        /\ h.content = Joined(old.content, Pieces(c, kinds, "content", i, j))
        /\ h.reasoning = Joined(old.reasoning, Pieces(c, kinds, "reasoning", i, j))

\* A read changes the last message so.
LEMMA LastHeard ==
  ASSUME IInv, NEW c \in Nat, NEW new, NEW m \in Models, NEW kinds \in Seq(Kinds),
         NEW taken \in Nat, NEW i \in Nat, NEW j \in Nat, NEW k \in Call,
         Reading(c, new, m, kinds, taken, i, j, k), messages[m] # <<>>
  PROVE  /\ messages' \in [Models -> Seq(Message)]
         /\ HeardMore(c, m, kinds, i, j)
<1> DEFINE len == Len(messages[m])
           old == messages[m][len]
           h == Heard(c, old, kinds, i, j)
<1>1. messages[m] \in Seq(Message)
  BY DEF IInv, TypeOK
<1>2. len \in 1 .. Len(messages[m])
  BY <1>1, EmptySeq
<1>3. old \in Message
  BY <1>1, <1>2, ElementOfSeq
<1>4. i <= j
  BY DEF Reading
<1>5. /\ h \in Message /\ h.role = old.role
      /\ h.content = Joined(old.content, Pieces(c, kinds, "content", i, j))
      /\ h.reasoning = Joined(old.reasoning, Pieces(c, kinds, "reasoning", i, j))
  <2> HIDE DEF old
  <2>1. QED
    BY <1>3, <1>4, HeardParts
<1>6. messages' = [messages EXCEPT ![m] = [messages[m] EXCEPT ![len] = h]]
  BY DEF Reading
<1> HIDE DEF h
<1>7. /\ [messages[m] EXCEPT ![len] = h] \in Seq(Message)
      /\ Len([messages[m] EXCEPT ![len] = h]) = len
      /\ [messages[m] EXCEPT ![len] = h][len] = h
      /\ \A n \in 1 .. (len - 1) : [messages[m] EXCEPT ![len] = h][n] = messages[m][n]
  BY <1>1, <1>2, <1>5, ExceptSeq
<1>8. /\ messages' \in [Models -> Seq(Message)]
      /\ messages'[m] = [messages[m] EXCEPT ![len] = h]
  BY <1>6, <1>7 DEF IInv, TypeOK
<1>9. QED
  BY <1>2, <1>3, <1>5, <1>7, <1>8 DEF HeardMore

\* The pieces up to line i and those from there to line j are the pieces up to
\* line j, also of a stream that has grown.
LEMMA PiecesJoin ==
  ASSUME NEW c \in Nat, NEW lines \in Seq(Kinds), NEW new \in Seq(Kinds), NEW kind,
         NEW i \in Nat, NEW j \in Nat, i <= j, i <= Len(lines)
  PROVE  Pieces(c, lines, kind, 0, i) \o Pieces(c, lines \o new, kind, i, j)
           = Pieces(c, lines \o new, kind, 0, j)
<1> DEFINE kinds == lines \o new
           A == Pieces(c, lines, kind, 0, i)
           B == Pieces(c, kinds, kind, i, j)
           C == Pieces(c, kinds, kind, 0, j)
<1>1. /\ A \in Seq(Piece) /\ Len(A) = i /\ B \in Seq(Piece) /\ Len(B) = j - i
      /\ C \in Seq(Piece) /\ Len(C) = j
  BY PiecesType
<1>2. \A n \in 1 .. i : kinds[n] = lines[n]
  BY ConcatProperties, LenProperties
<1> HIDE DEF kinds
<1>3. \A n \in 1 .. i : A[n] = C[n]
  BY <1>2 DEF Pieces
<1>4. \A n \in 1 .. j : n > i => B[n - i] = C[n]
  <2>1. SUFFICES ASSUME NEW n \in 1 .. j, n > i
                 PROVE  B[n - i] = C[n]
    OBVIOUS
  <2>2. n - i \in 1 .. (j - i) /\ n \in 1 .. (j - 0) /\ i + (n - i) = n /\ 0 + n = n
    BY <2>1
  <2>3. QED
    BY <2>2 DEF Pieces
<1> HIDE DEF A, B, C
<1> DEFINE D == A \o B
<1>5. /\ D \in Seq(Piece) /\ Len(D) = Len(A) + Len(B)
      /\ \A n \in 1 .. Len(A) + Len(B) : D[n] = IF n <= Len(A) THEN A[n] ELSE B[n - Len(A)]
  <2>1. A \in Seq(Piece) /\ B \in Seq(Piece)
    BY <1>1
  <2>2. QED
    BY <2>1, ConcatProperties, Zenon
<1> HIDE DEF D
<1>6. Len(D) = j /\ \A n \in 1 .. j : D[n] = IF n <= i THEN A[n] ELSE B[n - i]
  <2>1. Len(A) = i /\ Len(B) = j - i /\ i + (j - i) = j
    BY <1>1
  <2>2. QED
    BY <1>5, <2>1
<1>7. ASSUME NEW n \in 1 .. j
      PROVE  D[n] = C[n]
  <2>1. CASE n <= i
    <3>1. n \in 1 .. i
      BY <2>1
    <3>2. QED
      BY <1>3, <1>6, <2>1, <3>1
  <2>2. CASE n > i
    <3>1. ~(n <= i)
      BY <2>2
    <3>2. QED
      BY <1>4, <1>6, <2>2, <3>1
  <2>3. QED
    BY <2>1, <2>2
<1>8. D = C
  BY <1>1, <1>5, <1>6, <1>7, SeqEqual
<1>9. QED
  BY <1>8 DEF A, B, C, D, kinds

\* A read goes on with its reply or ends it.
LEMMA ReadStep ==
  ASSUME IInv, NEW c \in CallIds, NEW x \in Nat, NEW new \in [1 .. x -> Kinds], NEW cut \in {0, 1},
         ReadBody(c, new, cut)
  PROVE  IInv'
<1>1. PICK m \in Models, kinds \in Seq(Kinds), taken \in Nat, i \in Nat, j \in Nat, k \in Call :
         Reading(c, new, m, kinds, taken, i, j, k)
  BY ReadParts
<1>2. Open(c)
  BY DEF ReadBody, Open
<1>3. /\ calls[c] \in Call /\ calls \in Seq(Call) /\ c \in 1 .. Len(calls) /\ c \in Nat
      /\ streaming[m] /\ abort[m] = c
  BY <1>1, <1>2, OpenCall DEF Reading
<1>4. /\ calls' \in Seq(Call) /\ CallIds' = CallIds /\ CallIds = 1 .. Len(calls)
      /\ \A d \in CallIds : calls'[d] = IF d = c THEN k ELSE calls[d]
  <2>1. calls' = [calls EXCEPT ![c] = k]
    BY <1>1 DEF Reading
  <2>2. /\ [calls EXCEPT ![c] = k] \in Seq(Call) /\ Len([calls EXCEPT ![c] = k]) = Len(calls)
        /\ \A d \in 1 .. Len(calls) : [calls EXCEPT ![c] = k][d] = IF d = c THEN k ELSE calls[d]
    BY <1>3, ExceptSeq
  <2>3. QED
    BY <2>1, <2>2 DEF CallIds
<1>5. \A d \in CallIds : calls'[d].model = calls[d].model
  BY <1>1, <1>4 DEF Reading
<1>6. OneTask' /\ Newest'
  <2>1. k.model = calls[c].model /\ calls' = [calls EXCEPT ![c] = k]
    BY <1>1 DEF Reading
  <2>2. CASE k.state = "over" /\ Settle(c)
    BY <1>2, <2>1, <2>2, Settled
  <2>3. CASE k.state # "over" /\ UNCHANGED <<input, images, reading, streaming, system,
                                             thinking, abort, pending>>
    BY <1>2, <2>1, <2>3, StaysOpen
  <2>4. QED
    BY <1>1, <2>2, <2>3 DEF Reading
<1>7. messages \in [Models -> Seq(Message)] /\ messages[m] \in Seq(Message)
  BY DEF IInv, TypeOK
<1>8. ASSUME messages[m] # <<>>
      PROVE  messages' \in [Models -> Seq(Message)] /\ HeardMore(c, m, kinds, i, j)
  BY <1>1, <1>3, <1>8, LastHeard
<1>9. messages' \in [Models -> Seq(Message)]
  <2>1. CASE messages[m] = <<>>
    BY <1>1, <1>7, <2>1 DEF Reading
  <2>2. CASE messages[m] # <<>>
    BY <1>8, <2>2
  <2>3. QED
    BY <2>1, <2>2
<1>10. TypeOK'
  <2>1. CASE Settle(c)
    BY <1>1, <1>4, <1>9, <2>1 DEF Reading, Settle, page, IInv, TypeOK
  <2>2. CASE UNCHANGED <<input, images, reading, streaming, system, thinking, abort, pending>>
    BY <1>1, <1>4, <1>9, <2>2 DEF Reading, page, IInv, TypeOK
  <2>3. QED
    BY <1>1, <2>1, <2>2 DEF Reading
<1>11. ReadsTaken'
  BY <1>1, <1>4 DEF Reading, IInv, ReadsTaken
<1>12. ReplyIsStream'
  <2>1. SUFFICES ASSUME NEW d \in CallIds, NEW n \in Models, NewestOf(d, n)', messages'[n] # <<>>
                 PROVE  ReplyHolds(d, n)'
    BY <1>4 DEF ReplyIsStream, ReplyHolds
  <2>2. NewestOf(d, n)
    BY <1>4, <1>5, <2>1 DEF NewestOf
  <2>3. CASE n = m
    <3>1. calls[c].model = m
      BY <1>1 DEF Reading
    <3>2. c <= d
      BY <2>2, <2>3, <3>1 DEF NewestOf
    <3>3. d <= c
      BY <1>3, <2>2, <2>3 DEF NewestOf, IInv, Newest
    <3>4. d = c
      BY <1>4, <3>2, <3>3
    <3>5. messages[m] # <<>>
      BY <1>1, <2>1, <2>3 DEF Reading
    <3>6. ReplyHolds(c, m)
      BY <2>2, <2>3, <3>4, <3>5 DEF IInv, ReplyIsStream, ReplyHolds
    <3> DEFINE len == Len(messages[m])
               old == messages[m][len]
               h == messages'[m][len]
    <3>7. HeardMore(c, m, kinds, i, j)
      BY <1>8, <3>5
    <3>8. /\ h.role = "assistant" /\ Len(messages'[m]) = len
          /\ h.content = Joined(old.content, Pieces(c, kinds, "content", i, j))
          /\ old.content = Pieces(c, calls[c].lines, "content", 0, i)
      BY <1>1, <3>6, <3>7 DEF HeardMore, ReplyHolds, Reading
    <3>9. h.content = Pieces(c, kinds, "content", 0, j)
      <4>1. h.content = Joined(Pieces(c, calls[c].lines, "content", 0, i),
                               Pieces(c, kinds, "content", i, j))
        BY <3>8
      <4>2. /\ calls[c].lines \in Seq(Kinds) /\ new \in Seq(Kinds) /\ kinds = calls[c].lines \o new
            /\ i <= j /\ i <= Len(calls[c].lines)
        BY <1>1 DEF Reading
      <4> DEFINE L == calls[c].lines
      <4> HIDE DEF h, L
      <4>3. c \in Nat /\ L \in Seq(Kinds) /\ i <= Len(L)
        BY <1>3, <4>2 DEF L
      <4>4. Pieces(c, L, "content", 0, i) \o Pieces(c, L \o new, "content", i, j)
              = Pieces(c, L \o new, "content", 0, j)
        BY <4>2, <4>3, PiecesJoin
      <4>5. QED
        BY <4>1, <4>2, <4>4 DEF L, Joined
    <3> HIDE DEF h
    <3>10. messages'[m][Len(messages'[m])] = h /\ calls'[c].lines = kinds /\ calls'[c].read = taken
           /\ j = taken \div 2
      BY <1>1, <1>4, <3>8 DEF Reading, Whole, h
    <3>11. QED
      BY <2>3, <3>4, <3>8, <3>9, <3>10 DEF ReplyHolds, Whole
  <2>4. CASE n # m
    <3>1. d # c
      BY <1>1, <2>2, <2>4 DEF Reading, NewestOf
    <3>2. messages'[n] = messages[n]
      BY <1>1, <1>7, <2>4 DEF Reading
    <3>3. QED
      BY <1>4, <2>1, <2>2, <3>1, <3>2, ReplyKept DEF IInv
  <2>5. QED
    BY <2>3, <2>4
<1>13. QED
  BY <1>6, <1>10, <1>11, <1>12 DEF IInv

------------------------------------------------------------------------------
(* The invariant                                                           *)

\* Nothing changes in a stutter.
LEMMA Stutter ==
  ASSUME IInv, UNCHANGED vars
  PROVE  IInv'
<1>1. TypeOK'
  BY DEF IInv, TypeOK, vars, session, page
<1>2. UNCHANGED core
  BY DEF core, vars, session
<1>3. QED
  BY <1>1, <1>2, CoreUnchanged

LEMMA InitInv ==
  ASSUME Init
  PROVE  IInv
<1>1. calls = <<>> /\ Len(calls) = 0 /\ CallIds = {} /\ calls \in Seq(Call)
  BY EmptySeq DEF Init, CallIds
<1>2. TypeOK
  <2>1. <<>> \in Seq(Message) /\ <<>> \in Seq({Image})
    BY EmptySeq
  <2>2. registry \in [Models -> States]
    BY DEF Init, States
  <2>3. /\ messages \in [Models -> Seq(Message)] /\ images \in [Models -> Seq({Image})]
        /\ input \in [Models -> Texts \cup {NoText}] /\ abort \in [Models -> Nat \cup {NoCall}]
        /\ pending \in [Models -> Nat] /\ moves \in Nat
    BY <2>1 DEF Init
  <2>4. /\ reading \in [Models -> BOOLEAN] /\ streaming \in [Models -> BOOLEAN]
        /\ system \in [Models -> BOOLEAN] /\ thinking \in [Models -> BOOLEAN]
    BY DEF Init
  <2>5. route \in Models \cup {Away, Bare} /\ list = Loading /\ last = NoModel
    BY DEF Init
  <2>6. QED
    BY <1>1, <2>2, <2>3, <2>4, <2>5 DEF TypeOK
<1>3. OneTask /\ Newest /\ ReadsTaken /\ ReplyIsStream
  BY <1>1 DEF Init, OneTask, Newest, ReadsTaken, ReplyIsStream
<1>4. QED
  BY <1>2, <1>3 DEF IInv

LEMMA NextInv ==
  ASSUME IInv, [Next]_vars
  PROVE  IInv'
<1>1. CASE Navigate \/ PollModels
  BY <1>1, PageSteps, CoreUnchanged DEF IInv
<1>2. ASSUME NEW m \in Models, SelectModel(m) \/ \E s \in States : ModelChanges(m, s)
      PROVE  IInv'
  BY <1>2, PageSteps, CoreUnchanged DEF IInv
<1>3. ASSUME NEW m \in Models, User(m)
      PROVE  IInv'
  <2>1. CASE \E text \in Texts : TypeText(m, text)
    BY <2>1, ComposerSteps, CoreUnchanged DEF IInv
  <2>2. CASE RemoveImage(m) \/ EditSystem(m) \/ SwitchThinking(m)
    BY <2>2, ComposerSteps, CoreUnchanged DEF IInv
  <2>3. CASE AttachImages(m)
    BY <2>3, ImageSteps
  <2>4. CASE Clear(m)
    BY <2>4, ClearStep
  <2>5. CASE Send(m)
    BY <2>5, SendStep
  <2>6. CASE Stop(m)
    BY <2>6, StopStep
  <2>7. QED
    BY <1>3, <2>1, <2>2, <2>3, <2>4, <2>5, <2>6 DEF User
<1>4. ASSUME NEW m \in Models, ImagesRead(m)
      PROVE  IInv'
  BY <1>4, ImageSteps
<1>5. ASSUME NEW c \in CallIds, Reply(c)
      PROVE  IInv'
  BY <1>5, AnsweredStep, EndsStep, ReadStep DEF Reply, ChatAssumption
<1>6. CASE UNCHANGED vars
  BY <1>6, Stutter
<1>7. QED
  BY <1>1, <1>2, <1>3, <1>4, <1>5, <1>6 DEF Next

THEOREM Invariant == Spec => []IInv
<1>1. Init => IInv
  BY InitInv
<1>2. IInv /\ [Next]_vars => IInv'
  BY NextInv
<1>3. QED
  BY <1>1, <1>2, PTL DEF Spec

\* The sessions, the requests and the page have their types (playgroundSessions.ts,
\* streamChat, Playground).
THEOREM TypeCorrect == Spec => []TypeOK
<1>1. IInv => TypeOK
  BY DEF IInv
<1>2. QED
  BY <1>1, Invariant, PTL

\* At any number of models, completions and images a session does one thing at
\* a time and Stop cancels its own completion (send, attachImages, Stop).
THEOREM OneTaskAtATime == Spec => []OneTask
<1>1. IInv => OneTask
  BY DEF IInv
<1>2. QED
  BY <1>1, Invariant, PTL

\* However the network cuts the answers, the last message of a session holds
\* the text of the lines read, once each and in order (the buffer of streamChat).
THEOREM RepliesComplete == Spec => []ReplyIsStream
<1>1. IInv => ReplyIsStream
  BY DEF IInv
<1>2. QED
  BY <1>1, Invariant, PTL

------------------------------------------------------------------------------
(* The conversations                                                       *)

\* Every conversation makes a step of Conversation or none.
ConvStep == \A m \in Models : [Conv(m)!Next]_(Conv(m)!vars)

\* A streaming session has a completion of its own.
LEMMA StreamingCall ==
  ASSUME IInv, NEW m \in Models, streaming[m]
  PROVE  abort[m] \in CallIds /\ calls[abort[m]].model = m
BY DEF IInv, OneTask

\* A conversation whose messages, flag and request stay makes no step.
LEMMA Quiet ==
  ASSUME NEW m \in Models, messages'[m] = messages[m], streaming'[m] = streaming[m],
         streaming[m] => calls'[abort'[m]].messages = calls[abort[m]].messages
  PROVE  [Conv(m)!Next]_(Conv(m)!vars)
BY DEF Conv!vars

\* When one call changes and keeps what was asked, the conversations that keep
\* their messages, flag and controller make no step.
LEMMA QuietCalls ==
  ASSUME IInv, NEW c \in CallIds, NEW k, calls' = [calls EXCEPT ![c] = k],
         k.messages = calls[c].messages,
         NEW m \in Models, messages'[m] = messages[m], streaming'[m] = streaming[m],
         abort'[m] = abort[m]
  PROVE  [Conv(m)!Next]_(Conv(m)!vars)
<1>1. ASSUME streaming[m]
      PROVE  calls'[abort[m]].messages = calls[abort[m]].messages
  <2>1. abort[m] \in DOMAIN calls
    BY <1>1, StreamingCall DEF CallIds, IInv, TypeOK
  <2>2. calls'[abort[m]] = IF abort[m] = c THEN k ELSE calls[abort[m]]
    BY <2>1
  <2>3. QED
    BY <2>2
<1>2. QED
  BY <1>1, Quiet

\* A question puts the user's message and an empty answer after what is shown.
LEMMA SendAsks ==
  ASSUME IInv, NEW m \in Models, Send(m)
  PROVE  Conv(m)!Ask
<1> DEFINE H == History(m)
           shown == Append(H, EmptyReply)
           n == Len(messages[m])
           k == NewCall(m, WithoutReasoning(H))
<1>1. /\ messages[m] \in Seq(Message) /\ H \in Seq(Message) /\ Len(H) = n + 1 /\ n \in Nat
      /\ \A i \in 1 .. n : H[i] = messages[m][i]
      /\ H[n + 1] = UserMessage(Content(m)) /\ EmptyReply \in Message
  <2>1. UserMessage(Content(m)) \in Message /\ EmptyReply \in Message
    BY ContentType DEF UserMessage, EmptyReply, Message, IInv
  <2>2. messages[m] \in Seq(Message)
    BY DEF IInv, TypeOK
  <2>3. QED
    BY <2>1, <2>2, AppendProperties DEF History
<1> HIDE DEF H
<1>2. /\ shown \in Seq(Message) /\ Len(shown) = n + 2 /\ shown[n + 2] = EmptyReply
      /\ \A i \in 1 .. (n + 1) : shown[i] = H[i]
  BY <1>1, AppendProperties
<1>3. shown[n + 1].role = "user"
  BY <1>1, <1>2 DEF UserMessage
<1>4. /\ messages' = [messages EXCEPT ![m] = shown] /\ ~streaming[m]
      /\ streaming' = [streaming EXCEPT ![m] = TRUE]
      /\ abort' = [abort EXCEPT ![m] = Len(calls) + 1]
      /\ calls' = Append(calls, k)
  BY DEF Send, H
<1> HIDE DEF shown
<1>5. SubSeq(shown, 1, n + 1) = H
  <2>1. \A i \in 1 .. (n + 1) : shown[i] \in Message
    BY <1>1, <1>2, ElementOfSeq
  <2>2. /\ SubSeq(shown, 1, n + 1) \in Seq(Message) /\ Len(SubSeq(shown, 1, n + 1)) = n + 1
        /\ \A i \in 1 .. (n + 1) : SubSeq(shown, 1, n + 1)[i] = shown[i]
    BY <1>1, <2>1, SubSeqProperties
  <2>3. QED
    BY <1>1, <1>2, <2>2, SeqEqual
<1>6. calls'[Len(calls) + 1].messages = WithoutReasoning(H)
  <2>1. k \in Call /\ calls \in Seq(Call)
    BY SendParts DEF H
  <2> HIDE DEF k
  <2>2. calls'[Len(calls) + 1] = k
    BY <1>4, <2>1, AppendProperties
  <2>3. QED
    BY <2>2 DEF k, NewCall
<1>7. messages'[m] = shown /\ streaming'[m] = TRUE /\ abort'[m] = Len(calls) + 1
  BY <1>4 DEF IInv, TypeOK
<1> DEFINE old == messages[m]
<1> HIDE DEF old
<1>8. DOMAIN old = 1 .. Len(old) /\ \A i \in 1 .. Len(old) : shown[i] = old[i]
  <2>1. old \in Seq(Message) /\ Len(old) \in Nat
    BY <1>1 DEF old
  <2>2. \A i \in 1 .. Len(old) : shown[i] = old[i]
    BY <1>1, <1>2 DEF old
  <2>3. QED
    BY <2>1, <2>2
<1>9. Len(shown) = Len(old) + 2 /\ shown[Len(old) + 1].role = "user"
      /\ shown[Len(old) + 2] = EmptyReply /\ Len(old) <= Len(shown)
  BY <1>1, <1>2, <1>3 DEF old
<1>10. Conv(m)!Grows(old, shown)
  BY <1>8, <1>9 DEF Conv!Grows
<1>11. WithoutReasoning(H) = Conv(m)!BareAll(SubSeq(shown, 1, Len(old) + 1))
  BY <1>5 DEF old, WithoutReasoning, Bared, Conv!BareAll, Conv!BareMessage
<1>12. EmptyReply = Conv(m)!EmptyReply
  BY DEF EmptyReply, Conv!EmptyReply
<1>13. QED
  BY <1>4, <1>6, <1>7, <1>9, <1>10, <1>11, <1>12 DEF Conv!Ask, old

\* The other conversations do not notice.
LEMMA SendConv ==
  ASSUME IInv, NEW m \in Models, Send(m)
  PROVE  ConvStep
<1>1. ASSUME NEW o \in Models, o # m
      PROVE  [Conv(o)!Next]_(Conv(o)!vars)
  <2>1. messages'[o] = messages[o] /\ streaming'[o] = streaming[o] /\ abort'[o] = abort[o]
    BY <1>1 DEF Send, IInv, TypeOK
  <2>2. streaming[o] => calls'[abort[o]] = calls[abort[o]]
    BY SendParts, StreamingCall
  <2>3. QED
    BY <2>1, <2>2, Quiet
<1>2. Conv(m)!Next
  BY SendAsks DEF Conv!Next
<1>3. QED
  BY <1>1, <1>2 DEF ConvStep

LEMMA ClearConv ==
  ASSUME IInv, NEW m \in Models, Clear(m)
  PROVE  ConvStep
<1>1. ASSUME NEW o \in Models, o # m
      PROVE  [Conv(o)!Next]_(Conv(o)!vars)
  <2>1. /\ messages'[o] = messages[o] /\ streaming' = streaming
        /\ abort' = abort /\ calls' = calls
    BY <1>1 DEF Clear, IInv, TypeOK
  <2>2. QED
    BY <2>1, Quiet
<1>2. Conv(m)!Clear
  <2>1. /\ messages'[m] = <<>> /\ ~streaming[m] /\ streaming' = streaming
        /\ abort' = abort /\ calls' = calls
    BY DEF Clear, IInv, TypeOK
  <2>2. QED
    BY <2>1 DEF Conv!Clear
<1>3. QED
  BY <1>1, <1>2 DEF ConvStep, Conv!Next

\* An answer that ends, in whatever way, closes its conversation.
LEMMA EndsConv ==
  ASSUME IInv, NEW c \in CallIds, Ends(c)
  PROVE  ConvStep
<1>1. PICK m \in Models : m = calls[c].model /\ streaming[m] /\ calls[c] \in Call
  BY OpenCall DEF Ends
<1>2. PICK k : calls' = [calls EXCEPT ![c] = k] /\ k.messages = calls[c].messages
  <2> DEFINE k == [calls[c] EXCEPT !.state = "over"]
  <2>1. calls' = [calls EXCEPT ![c] = k] /\ k.messages = calls[c].messages
    BY <1>1 DEF Ends, Call
  <2>2. QED
    BY <2>1
<1>3. /\ messages' = messages /\ streaming' = [streaming EXCEPT ![m] = FALSE]
      /\ abort' = [abort EXCEPT ![m] = NoCall]
  BY <1>1 DEF Ends, Settle
<1>4. ASSUME NEW o \in Models, o # m
      PROVE  [Conv(o)!Next]_(Conv(o)!vars)
  <2>1. messages'[o] = messages[o] /\ streaming'[o] = streaming[o] /\ abort'[o] = abort[o]
    BY <1>3, <1>4 DEF IInv, TypeOK
  <2>2. QED
    BY <1>2, <2>1, QuietCalls
<1>5. Conv(m)!Close
  <2>1. messages'[m] = messages[m] /\ streaming'[m] = FALSE
    BY <1>1, <1>3 DEF IInv, TypeOK
  <2>2. QED
    BY <1>1, <2>1 DEF Conv!Close
<1>6. QED
  BY <1>4, <1>5 DEF ConvStep, Conv!Next

\* Stop and the arrival of an answer are no step of a conversation.
LEMMA CallConv ==
  ASSUME IInv, \/ \E m \in Models : Stop(m)
               \/ \E c \in CallIds : Answered(c)
  PROVE  ConvStep
<1>1. PICK c \in CallIds : /\ \/ calls' = [calls EXCEPT ![c].aborted = TRUE]
                              \/ calls' = [calls EXCEPT ![c].state = "read"]
                           /\ UNCHANGED <<messages, streaming, abort>>
  BY DEF Stop, Answered, session
<1>2. calls[c] \in Call
  BY ElementOfSeq DEF IInv, TypeOK, CallIds
<1>3. \E k : calls' = [calls EXCEPT ![c] = k] /\ k.messages = calls[c].messages
  <2>1. CASE calls' = [calls EXCEPT ![c].aborted = TRUE]
    <3> DEFINE k == [calls[c] EXCEPT !.aborted = TRUE]
    <3>1. calls' = [calls EXCEPT ![c] = k] /\ k.messages = calls[c].messages
      BY <1>2, <2>1 DEF Call
    <3>2. QED
      BY <3>1
  <2>2. CASE calls' = [calls EXCEPT ![c].state = "read"]
    <3> DEFINE k == [calls[c] EXCEPT !.state = "read"]
    <3>1. calls' = [calls EXCEPT ![c] = k] /\ k.messages = calls[c].messages
      BY <1>2, <2>2 DEF Call
    <3>2. QED
      BY <3>1
  <2>3. QED
    BY <1>1, <2>1, <2>2
<1>4. QED
  BY <1>1, <1>3, QuietCalls DEF ConvStep

\* The text that was there is the beginning of the text that is there.
LEMMA JoinedGrows ==
  ASSUME NEW m \in Models, NEW s \in Seq(Piece), NEW t \in Seq(Piece)
  PROVE  Conv(m)!Grows(s, Joined(s, t))
<1>1. Len(s \o t) = Len(s) + Len(t) /\ \A i \in 1 .. Len(s) : (s \o t)[i] = s[i]
  BY ConcatProperties
<1>2. DOMAIN s = 1 .. Len(s) /\ Len(s) \in Nat /\ Len(t) \in Nat
  OBVIOUS
<1>3. Len(s) <= Len(s \o t)
  BY <1>1, <1>2
<1>4. QED
  BY <1>1, <1>2, <1>3 DEF Conv!Grows, Joined

\* A read lets a conversation hear more of its open answer, possibly the end;
\* of a cleared one it may be the end.
LEMMA ReadConv ==
  ASSUME IInv, NEW c \in CallIds, NEW x \in Nat, NEW new \in [1 .. x -> Kinds], NEW cut \in {0, 1},
         ReadBody(c, new, cut)
  PROVE  ConvStep
<1>1. PICK m \in Models, kinds \in Seq(Kinds), taken \in Nat, i \in Nat, j \in Nat, k \in Call :
         Reading(c, new, m, kinds, taken, i, j, k)
  BY ReadParts
<1>2. Open(c)
  BY DEF ReadBody, Open
<1>3. c \in Nat /\ streaming[m] /\ abort[m] = c /\ m = calls[c].model
  BY <1>1, <1>2, OpenCall DEF Reading
<1>4. calls' = [calls EXCEPT ![c] = k] /\ k.messages = calls[c].messages
  BY <1>1 DEF Reading
<1>5. /\ \A o \in Models : o # m => messages'[o] = messages[o]
      /\ messages[m] = <<>> => messages' = messages
  BY <1>1 DEF Reading, IInv, TypeOK
<1>6. \/ /\ streaming' = [streaming EXCEPT ![m] = FALSE]
         /\ abort' = [abort EXCEPT ![m] = NoCall]
      \/ streaming' = streaming /\ abort' = abort
  BY <1>1, <1>3 DEF Reading, Settle
<1>7. ASSUME NEW o \in Models, o # m
      PROVE  [Conv(o)!Next]_(Conv(o)!vars)
  <2>1. messages'[o] = messages[o] /\ streaming'[o] = streaming[o] /\ abort'[o] = abort[o]
    BY <1>5, <1>6, <1>7 DEF IInv, TypeOK
  <2>2. QED
    BY <1>4, <2>1, QuietCalls
<1>8. \/ streaming'[m] = FALSE
      \/ streaming'[m] = streaming[m] /\ abort'[m] = abort[m]
  BY <1>6 DEF IInv, TypeOK
<1>9. calls'[c].messages = calls[c].messages
  BY <1>4 DEF IInv, TypeOK, CallIds
<1>10. CASE messages[m] = <<>>
  <2>1. messages'[m] = messages[m]
    BY <1>5, <1>10
  <2>2. CASE streaming'[m] = FALSE
    <3>1. Conv(m)!Close
      BY <1>3, <2>1, <2>2 DEF Conv!Close
    <3>2. QED
      BY <1>7, <3>1 DEF ConvStep, Conv!Next
  <2>3. CASE streaming'[m] = streaming[m] /\ abort'[m] = abort[m]
    <3>1. [Conv(m)!Next]_(Conv(m)!vars)
      BY <1>3, <1>9, <2>1, <2>3, Quiet
    <3>2. QED
      BY <1>7, <3>1 DEF ConvStep
  <2>4. QED
    BY <1>8, <2>2, <2>3
<1>11. CASE messages[m] # <<>>
  <2>1. HeardMore(c, m, kinds, i, j)
    BY <1>1, <1>3, <1>11, LastHeard
  <2> DEFINE len == Len(messages[m])
             old == messages[m][len]
             h == messages'[m][len]
  <2>2. Conv(m)!Grows(old.content, h.content) /\ Conv(m)!Grows(old.reasoning, h.reasoning)
    <3>1. /\ Pieces(c, kinds, "content", i, j) \in Seq(Piece)
          /\ Pieces(c, kinds, "reasoning", i, j) \in Seq(Piece)
      BY <1>1, <1>3, PiecesType DEF Reading
    <3>2. old.content \in Seq(Piece) /\ old.reasoning \in Seq(Piece)
      BY <2>1 DEF HeardMore, Message
    <3>3. /\ h.content = Joined(old.content, Pieces(c, kinds, "content", i, j))
          /\ h.reasoning = Joined(old.reasoning, Pieces(c, kinds, "reasoning", i, j))
      BY <2>1 DEF HeardMore
    <3> HIDE DEF old, h
    <3>4. QED
      BY <3>1, <3>2, <3>3, JoinedGrows
  <2>3. /\ Len(messages'[m]) = len /\ h.role = old.role
        /\ \A n \in 1 .. (len - 1) : messages'[m][n] = messages[m][n]
    BY <2>1 DEF HeardMore
  <2>4. \/ streaming'[m] = streaming[m]
           /\ calls'[abort'[m]].messages = calls[abort[m]].messages
        \/ streaming'[m] = FALSE
    BY <1>3, <1>8, <1>9
  <2>5. Conv(m)!Hear
    BY <1>3, <2>2, <2>3, <2>4 DEF Conv!Hear
  <2>6. QED
    BY <1>7, <2>5 DEF ConvStep, Conv!Next
<1>12. QED
  BY <1>10, <1>11

LEMMA NextConv ==
  ASSUME IInv, [Next]_vars
  PROVE  ConvStep
<1>1. ASSUME UNCHANGED <<messages, streaming, abort, calls>>
      PROVE  ConvStep
  BY <1>1, Quiet DEF ConvStep
<1>2. CASE Navigate \/ PollModels
  BY <1>1, <1>2, PageSteps DEF IInv, core
<1>3. ASSUME NEW m \in Models, SelectModel(m) \/ \E s \in States : ModelChanges(m, s)
      PROVE  ConvStep
  BY <1>1, <1>3, PageSteps DEF IInv, core
<1>4. ASSUME NEW m \in Models, User(m)
      PROVE  ConvStep
  <2>1. CASE \/ \E text \in Texts : TypeText(m, text)
             \/ RemoveImage(m) \/ EditSystem(m) \/ SwitchThinking(m)
    BY <1>1, <2>1, ComposerSteps DEF IInv, core
  <2>2. CASE AttachImages(m)
    BY <1>1, <2>2, ImageSteps
  <2>3. CASE Clear(m)
    BY <2>3, ClearConv
  <2>4. CASE Send(m)
    BY <2>4, SendConv
  <2>5. CASE Stop(m)
    BY <2>5, CallConv
  <2>6. QED
    BY <1>4, <2>1, <2>2, <2>3, <2>4, <2>5 DEF User
<1>5. ASSUME NEW m \in Models, ImagesRead(m)
      PROVE  ConvStep
  BY <1>1, <1>5, ImageSteps
<1>6. ASSUME NEW c \in CallIds, Reply(c)
      PROVE  ConvStep
  BY <1>6, CallConv, EndsConv, ReadConv DEF Reply, ChatAssumption
<1>7. CASE UNCHANGED vars
  BY <1>1, <1>7 DEF vars, session
<1>8. QED
  BY <1>2, <1>3, <1>4, <1>5, <1>6, <1>7 DEF Next

\* Every conversation of the playground behaves as Conversation says: a question
\* is put with everything said before it, only the open answer grows, and nothing
\* is cleared under it (send, streamChat, Clear).
THEOREM ConversationImplemented == Spec => ImplementsConversation
<1>1. Init => \A m \in Models : Conv(m)!Init
  BY DEF Init, Conv!Init
<1>2. IInv /\ [Next]_vars => [ConvStep]_vars
  BY NextConv
<1>3. Spec => (\A m \in Models : Conv(m)!Init) /\ [][ConvStep]_vars
  BY <1>1, <1>2, Invariant, PTL DEF Spec
<1>4. QED
  BY <1>3 DEF ImplementsConversation, ConvStep
=============================================================================
