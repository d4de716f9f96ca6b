----------------------------- MODULE ChatSession -----------------------------
(***************************************************************************)
(* The playground of the dashboard: one chat session per model, kept in    *)
(* the browser tab and not in the page (src/web/src/lib/                   *)
(* playgroundSessions.ts), the page that shows the panel of one of them    *)
(* (pages/Playground.tsx) and the reader of a streamed completion          *)
(* (lib/api.ts).  Every action is one turn of the browser's event loop: a  *)
(* handler, or what runs between two awaits.  Several sessions may be      *)
(* streaming at a time and the user may be on any page.  What the server   *)
(* answers, in which pieces, and whether it breaks off is arbitrary.       *)
(***************************************************************************)
EXTENDS Naturals, Sequences, FiniteSets

CONSTANTS
  Models,      \* the registered chat models, by id
  Texts,       \* what a user may type
  Kinds,       \* the kinds of lines a server may stream
  BodyLimit,   \* images that fit in a request (the 32 MiB limit)
  MaxImages,   \* bound: images waiting in one composer
  MaxCalls,    \* bound: completions asked for
  MaxLines,    \* bound: lines of all completions
  MaxMoves,    \* bound: navigations, edits, attachments, changes of models
  FirstStates, \* what the models may be at first
  FirstRoutes, \* the pages the tab may be opened on
  Away, Bare,  \* the routes: another page, /playground without a model
  Loading,     \* the model list before its first answer
  Image,       \* an attached image
  NoModel, NoCall, NoText

ASSUME ChatAssumption ==
    /\ Kinds \subseteq {"content", "reasoning", "both", "other", "done"}
    /\ BodyLimit \in Nat /\ MaxImages \in Nat /\ MaxCalls \in Nat
    /\ MaxLines \in Nat /\ MaxMoves \in Nat
    /\ FirstRoutes \subseteq Models \cup {Away, Bare}
    /\ FirstStates \subseteq {"gone", "stopped", "running", "vision"}
    /\ NoText \notin Texts /\ NoModel \notin Models
    /\ Away \notin Models /\ Bare \notin Models /\ Away # Bare
    /\ NoCall \notin Nat
    /\ Image \notin Texts

VARIABLES
  messages, input, images, reading, streaming,  \* per model: ChatSessionState
  system, thinking,                             \* per model: its settings
  abort,       \* per model: the call the session's AbortController cancels
  pending,     \* per model: attachImages calls that wait for their files
  calls,       \* the completions asked for, oldest first
  route, list, \* what the browser shows: the page, its answer of /api/models
  last,        \* lastModelId
  registry,    \* the models on the server
  moves        \* moves of the environment so far, for the bound

session == <<messages, input, images, reading, streaming, system, thinking, abort, pending>>
page    == <<route, list, last>>
vars    == <<session, calls, page, registry, moves>>

States == {"gone", "stopped", "running", "vision"}
Up     == {"running", "vision"}

------------------------------------------------------------------------------
\* Messages and requests.

Bared(message) == [role |-> message.role, content |-> message.content]
\* Mutant: what was displayed is sent back.
WithReasoning(ms) == ms

WithoutReasoning(ms) == [i \in DOMAIN ms |-> Bared(ms[i])]

UserMessage(content) == [role |-> "user", content |-> content, reasoning |-> <<>>]
EmptyReply == [role |-> "assistant", content |-> <<>>, reasoning |-> <<>>]

Content(m) == (IF input[m] = NoText THEN <<>> ELSE <<input[m]>>) \o images[m]
History(m) == Append(messages[m], UserMessage(Content(m)))

\* The size of a request: text is small, its images are what counts.
Size(ms) == Cardinality({p \in (1..Len(ms)) \X (1..(MaxImages + 1)) :
                            /\ p[2] <= Len(ms[p[1]].content)
                            /\ ms[p[1]].content[p[2]] = Image})

NewCall(m, ms) ==
    [model |-> m, messages |-> ms, system |-> system[m], thinking |-> thinking[m],
     state |-> "fetch",     \* where streamChat is suspended: fetch, read, or over
     aborted |-> FALSE,     \* the signal
     lines |-> <<>>,        \* the kinds of the lines the browser took
     read |-> 0]            \* in halves: one less than two per line when the
                            \* last one is cut and waits in the buffer

CallIds == 1..Len(calls)
Open(c) == calls[c].state # "over"

------------------------------------------------------------------------------
\* The page.

\* The panel of a model is on the screen: its route, and it runs in the list.
Panel(m) == route = m /\ list # Loading /\ list[m] \in Up
Vision(m) == list[m] = "vision"

\* Where the page goes when it has a list but no model in its route: to the
\* model selected last if there is one, otherwise to a running one.
Redirects(r, l) ==
    IF r # Bare \/ l = Loading THEN {r}
    ELSE IF last \in Models /\ l[last] # "gone" THEN {last}
    ELSE LET running == {m \in Models : l[m] \in Up}
         IN  IF running = {} THEN {Bare} ELSE running

\* The page renders with a route and a list and its effect runs: the selected
\* model is remembered.
Shows(r, l) ==
    /\ list' = l
    /\ route' \in Redirects(r, l)
    /\ last' = IF route' \in Models /\ l # Loading /\ l[route'] # "gone"
                 THEN route' ELSE last

Moved == moves < MaxMoves /\ moves' = moves + 1

\* Through a link on another page, or away; the sidebar leads to the playground
\* without a model, also from within it, where the page keeps its list.
Navigate ==
    /\ Moved
    /\ \/ route # Away /\ route' = Away /\ list' = Loading /\ UNCHANGED last
       \/ \E r \in Models \cup {Bare} : route = Away /\ Shows(r, Loading)
       \/ route \in Models /\ Shows(Bare, list)
    /\ UNCHANGED <<session, calls, registry>>

\* The select offers the running models of the list.
SelectModel(m) ==
    /\ Moved
    /\ route # Away /\ list # Loading /\ list[m] \in Up
    /\ Shows(m, list)
    /\ UNCHANGED <<session, calls, registry>>

\* An answer of the poll reaches the page.
PollModels ==
    /\ route # Away /\ list # registry
    /\ Shows(route, registry)
    /\ UNCHANGED <<session, calls, registry, moves>>

\* Somebody loads, unloads, deletes or registers a model.
ModelChanges(m, s) ==
    /\ Moved
    /\ registry[m] # s
    /\ registry' = [registry EXCEPT ![m] = s]
    /\ UNCHANGED <<session, calls, page>>

------------------------------------------------------------------------------
\* The composer and the inspector.

TypeText(m, text) ==
    /\ Moved /\ Panel(m) /\ input[m] # text
    /\ input' = [input EXCEPT ![m] = text]
    /\ UNCHANGED <<messages, images, reading, streaming, system, thinking, abort,
                   pending, calls, page, registry>>

RemoveImage(m) ==
    /\ Panel(m) /\ images[m] # <<>>
    /\ images' = [images EXCEPT ![m] = Tail(@)]
    /\ UNCHANGED <<messages, input, reading, streaming, system, thinking, abort,
                   pending, calls, page, registry, moves>>

\* The system prompt may be edited at any time, the reasoning switch only
\* between replies; both count for the next one.
EditSystem(m) ==
    /\ Moved /\ Panel(m)
    /\ system' = [system EXCEPT ![m] = ~@]
    /\ UNCHANGED <<messages, input, images, reading, streaming, thinking, abort,
                   pending, calls, page, registry>>

SwitchThinking(m) ==
    /\ Moved /\ Panel(m) /\ ~streaming[m]
    /\ thinking' = [thinking EXCEPT ![m] = ~@]
    /\ UNCHANGED <<messages, input, images, reading, streaming, system, abort,
                   pending, calls, page, registry>>

\* attachImages: up to the await for the files.
AttachImages(m) ==
    /\ Moved /\ Panel(m) /\ Vision(m) /\ ~streaming[m] /\ ~reading[m]
    /\ Len(images[m]) < MaxImages
    /\ reading' = [reading EXCEPT ![m] = TRUE]
    /\ pending' = [pending EXCEPT ![m] = @ + 1]
    /\ UNCHANGED <<messages, input, images, streaming, system, thinking, abort,
                   calls, page, registry>>

\* The files are read, or one is refused or unreadable and none is attached.
ImagesRead(m) ==
    /\ pending[m] > 0
    /\ images' \in {images, [images EXCEPT ![m] = Append(@, Image)]}
    /\ reading' = [reading EXCEPT ![m] = FALSE]
    /\ pending' = [pending EXCEPT ![m] = @ - 1]
    /\ UNCHANGED <<messages, input, streaming, system, thinking, abort,
                   calls, page, registry, moves>>

\* Clear, whose button is off while the session is busy.
Clear(m) ==
    /\ Panel(m) /\ ~streaming[m] /\ ~reading[m]
    /\ messages[m] # <<>> \/ images[m] # <<>>
    /\ messages' = [messages EXCEPT ![m] = <<>>]
    /\ images' = [images EXCEPT ![m] = <<>>]
    /\ UNCHANGED <<input, reading, streaming, system, thinking, abort, pending,
                   calls, page, registry, moves>>

------------------------------------------------------------------------------
\* One completion.

\* Mutant: two Enters in a row are two requests.
SendAgain(m) ==
    /\ Len(calls) < MaxCalls
    /\ Panel(m) /\ ~reading[m]
    /\ Content(m) # <<>>
    /\ images[m] # <<>> => Vision(m)
    /\ Size(History(m)) <= BodyLimit
    /\ calls' = Append(calls, NewCall(m, WithoutReasoning(History(m))))
    /\ abort' = [abort EXCEPT ![m] = Len(calls) + 1]
    /\ streaming' = [streaming EXCEPT ![m] = TRUE]
    /\ messages' = [messages EXCEPT ![m] = Append(History(m), EmptyReply)]
    /\ input' = [input EXCEPT ![m] = NoText]
    /\ images' = [images EXCEPT ![m] = <<>>]
    /\ UNCHANGED <<reading, system, thinking, pending, page, registry, moves>>

\* send, by Enter or by its button, up to the await of streamChat's fetch.
Send(m) ==
    /\ Len(calls) < MaxCalls
    /\ Panel(m) /\ ~streaming[m] /\ ~reading[m]
    /\ Content(m) # <<>>
    /\ images[m] # <<>> => Vision(m)
    /\ Size(History(m)) <= BodyLimit
    /\ calls' = Append(calls, NewCall(m, WithoutReasoning(History(m))))
    /\ abort' = [abort EXCEPT ![m] = Len(calls) + 1]
    /\ streaming' = [streaming EXCEPT ![m] = TRUE]
    /\ messages' = [messages EXCEPT ![m] = Append(History(m), EmptyReply)]
    /\ input' = [input EXCEPT ![m] = NoText]
    /\ images' = [images EXCEPT ![m] = <<>>]
    /\ UNCHANGED <<reading, system, thinking, pending, page, registry, moves>>

\* The Stop button is there while the session streams.
Stop(m) ==
    /\ Panel(m) /\ streaming[m] /\ abort[m] \in CallIds
    /\ ~calls[abort[m]].aborted
    /\ calls' = [calls EXCEPT ![abort[m]].aborted = TRUE]
    /\ UNCHANGED <<session, page, registry, moves>>

\* Mutant: the state belongs to the panel, and a finished reply finds it gone.
SettleIfShown(c) ==
    LET m == calls[c].model IN
    /\ streaming' = IF Panel(m) THEN [streaming EXCEPT ![m] = FALSE] ELSE streaming
    /\ abort' = [abort EXCEPT ![m] = NoCall]
    /\ UNCHANGED <<input, images, reading, system, thinking, pending>>

\* The finally of send: the reply is over, however it ended.
Settle(c) ==
    LET m == calls[c].model IN
    /\ streaming' = [streaming EXCEPT ![m] = FALSE]
    /\ abort' = [abort EXCEPT ![m] = NoCall]
    /\ UNCHANGED <<input, images, reading, system, thinking, pending>>

\* The server answers with a stream of events.
Answered(c) ==
    /\ calls[c].state = "fetch" /\ ~calls[c].aborted
    /\ calls' = [calls EXCEPT ![c].state = "read"]
    /\ UNCHANGED <<session, page, registry, moves>>

\* The body ends without [DONE], perhaps within a line, which is dropped; or
\* the connection fails, the server answers with an error, or the stream
\* breaks off.  The same finally runs when the signal has cancelled the request.
Ends(c) ==
    /\ Open(c)
    /\ calls' = [calls EXCEPT ![c].state = "over"]
    /\ Settle(c)
    /\ UNCHANGED <<messages, page, registry, moves>>

\* What the lines after line i, up to line j, add to the content or the
\* reasoning: a piece is known by its request and its line, and a line that has
\* none of that kind, or does not parse, adds the empty text.
Pieces(c, kinds, kind, i, j) ==
    [n \in 1..(j - i) |-> IF kinds[i + n] \in {kind, "both"} THEN <<c, i + n>> ELSE NoText]

\* The updates of the last message for these lines.
Heard(c, reply, kinds, i, j) ==
    [reply EXCEPT !.content = @ \o Pieces(c, kinds, "content", i, j),
                  !.reasoning = @ \o Pieces(c, kinds, "reasoning", i, j)]

\* The lines that are complete after so many halves.
Whole(halves) == halves \div 2

\* Mutant: the half line in the buffer is lost with the next read.
HandledOrCut(c) == Whole(calls[c].read + 1)

\* The last line that was dealt with before the next read.
Handled(c) == Whole(calls[c].read)

LinesSoFar == Cardinality({p \in CallIds \X (1..MaxLines) : p[2] <= Len(calls[p[1]].lines)})

\* One read of the body: what the server wrote of its lines, cut anywhere, so
\* that the last line taken may be half there.  A line begun in an earlier
\* read is in the buffer and its rest completes it.  [DONE] ends the reply.
ReadBody(c, new, cut) ==
    /\ calls[c].state = "read" /\ ~calls[c].aborted
    /\ LinesSoFar + Len(new) <= MaxLines
    /\ LET m     == calls[c].model
           kinds == calls[c].lines \o new
           taken == 2 * Len(kinds) - cut
           i     == Handled(c)
           j     == Whole(taken)
           over  == j > i /\ kinds[j] = "done"
       IN  /\ taken > calls[c].read
           /\ \A n \in 1..(Len(kinds) - 1) : kinds[n] # "done"
           /\ messages' = IF messages[m] = <<>> THEN messages
                          ELSE [messages EXCEPT ![m][Len(messages[m])] = Heard(c, @, kinds, i, j)]
           /\ calls' = [calls EXCEPT ![c].lines = kinds, ![c].read = taken,
                                     ![c].state = IF over THEN "over" ELSE "read"]
           /\ IF over THEN Settle(c)
              ELSE UNCHANGED <<input, images, reading, streaming, system, thinking,
                               abort, pending>>
    /\ UNCHANGED <<page, registry, moves>>

------------------------------------------------------------------------------
Init ==
    /\ messages = [m \in Models |-> <<>>]
    /\ input = [m \in Models |-> NoText]
    /\ images = [m \in Models |-> <<>>]
    /\ reading = [m \in Models |-> FALSE]
    /\ streaming = [m \in Models |-> FALSE]
    /\ system = [m \in Models |-> FALSE]
    /\ thinking = [m \in Models |-> FALSE]
    /\ abort = [m \in Models |-> NoCall]
    /\ pending = [m \in Models |-> 0]
    /\ calls = <<>>
    /\ route \in FirstRoutes
    /\ list = Loading /\ last = NoModel
    /\ registry \in [Models -> FirstStates]
    /\ moves = 0

User(m) ==
    \/ \E text \in Texts : TypeText(m, text)
    \/ RemoveImage(m)
    \/ EditSystem(m)
    \/ SwitchThinking(m)
    \/ AttachImages(m)
    \/ Clear(m)
    \/ Send(m)
    \/ Stop(m)

\* What runs once the browser has something to hand over: an answer, a piece or
\* the end of the body, an error, the rejection after an abort.
Reply(c) ==
    \/ Answered(c)
    \/ Ends(c)
    \/ \E n \in 0..MaxLines : \E new \in [1..n -> Kinds], cut \in {0, 1} : ReadBody(c, new, cut)

Next ==
    \/ Navigate
    \/ PollModels
    \/ \E m \in Models : \/ SelectModel(m)
                         \/ \E s \in States : ModelChanges(m, s)
                         \/ User(m)
                         \/ ImagesRead(m)
    \/ \E c \in CallIds : Reply(c)

Spec == Init /\ [][Next]_vars

\* Files are read in the end, a server does not fall silent within a reply, and
\* what the browser waits for is handed to it.  Nothing is assumed of the
\* user, nor that the panel is on the screen.
Fairness ==
    /\ \A m \in Models : WF_vars(ImagesRead(m))
    /\ \A c \in 1..MaxCalls : WF_vars(c \in CallIds /\ Reply(c))

LiveSpec == Spec /\ Fairness

------------------------------------------------------------------------------
\* Properties.

Piece   == Texts \cup {Image, NoText} \cup (Nat \X Nat)
Message == [role: {"user", "assistant"},
            content: Seq(Piece), reasoning: Seq(Piece)]
Call == [model: Models, messages: Seq([role: {"user", "assistant"}, content: Seq(Piece)]),
         system: BOOLEAN, thinking: BOOLEAN,
         state: {"fetch", "read", "over"}, aborted: BOOLEAN,
         lines: Seq(Kinds), read: Nat]

\* The types of the sessions of playgroundSessions.ts, of the requests of
\* streamChat and of the page.
TypeOK ==
    /\ messages \in [Models -> Seq(Message)]
    /\ input \in [Models -> Texts \cup {NoText}]
    /\ images \in [Models -> Seq({Image})]
    /\ reading \in [Models -> BOOLEAN]
    /\ streaming \in [Models -> BOOLEAN]
    /\ system \in [Models -> BOOLEAN]
    /\ thinking \in [Models -> BOOLEAN]
    /\ abort \in [Models -> Nat \cup {NoCall}]
    /\ pending \in [Models -> Nat]
    /\ calls \in Seq(Call)
    /\ route \in Models \cup {Away, Bare}
    /\ list \in [Models -> States] \cup {Loading}
    /\ last \in Models \cup {NoModel}
    /\ registry \in [Models -> States]
    /\ moves \in Nat

\* A session does one thing at a time, wherever its panel was left and found
\* again: while it streams exactly one of its completions is open and Stop
\* cancels that one and no other session's; otherwise none is open and no
\* controller is left; it reads files or streams but not both, and the flag
\* that says so is down exactly when no files are awaited (the guards of send
\* and attachImages, the disabled buttons, and the two finally blocks).
OneTask ==
    \A m \in Models :
      /\ {c \in CallIds : calls[c].model = m /\ Open(c)} =
            IF streaming[m] THEN {abort[m]} ELSE {}
      /\ ~streaming[m] => abort[m] = NoCall
      /\ pending[m] = IF reading[m] THEN 1 ELSE 0
      /\ ~(streaming[m] /\ reading[m])

\* The newest completion of a model.
NewestOf(c, m) == calls[c].model = m /\ \A d \in CallIds : calls[d].model = m => d <= c

\* The text of an answer does not depend on how the network cut it: at any
\* time the last message of a session holds exactly the text of the lines of
\* its newest completion that were completely read, in their order and once
\* each, including those whose halves came with different reads (the buffer
\* of streamChat, the updates of the last message in send).
ReplyIsStream ==
    \A c \in CallIds, m \in Models :
      NewestOf(c, m) /\ messages[m] # <<>> =>
        LET reply == messages[m][Len(messages[m])] IN
        /\ reply.role = "assistant"
        /\ reply.content = Pieces(c, calls[c].lines, "content", 0, Whole(calls[c].read))

\* What the conversation with one model is meant to be, when the answers are
\* cut into reads, the panel comes and goes and other models answer too.
Conv(m) == INSTANCE Conversation WITH
    shown <- messages[m],
    open  <- streaming[m],
    asked <- IF streaming[m] THEN calls[abort[m]].messages ELSE <<>>

\* Every conversation behaves as Conversation says: a question is put with
\* all that is on the screen, nothing but the open answer changes under it,
\* and it is not cleared while an answer is open.
ImplementsConversation ==
    /\ \A m \in Models : Conv(m)!Init
    /\ [][\A m \in Models : [Conv(m)!Next]_(Conv(m)!vars)]_vars

\* Every reply and every reading of files is over in the end, also when the
\* user has left the page, and a stopped one without the server's help.
OperationsEnd ==
    \A m \in Models : /\ (streaming[m] ~> ~streaming[m])
                       /\ (reading[m] ~> ~reading[m])
=============================================================================
