---------------------------- MODULE Conversation ----------------------------
(***************************************************************************)
(* What the playground promises of the conversation with one model, apart  *)
(* from streams, panels and abort controllers: a question is put only when *)
(* no answer is open, it is put together with everything said before,      *)
(* without the reasoning that was displayed, and only the open answer      *)
(* grows.  ChatSession implements this for every model.                    *)
(***************************************************************************)
EXTENDS Sequences, Naturals

VARIABLES shown,       \* the messages on the screen
          open,        \* whether an answer is being given
          asked        \* the messages the open answer was asked with

vars == <<shown, open, asked>>

\* A message as it is sent: reasoning is display-only.
BareMessage(message) == [role |-> message.role, content |-> message.content]
BareAll(messages) == [i \in DOMAIN messages |-> BareMessage(messages[i])]

EmptyReply == [role |-> "assistant", content |-> <<>>, reasoning |-> <<>>]

\* t begins with s.
Grows(s, t) == Len(s) <= Len(t) /\ \A i \in DOMAIN s : t[i] = s[i]

Init == shown = <<>> /\ open = FALSE /\ asked = <<>>

\* A user message is put after what is shown; an empty answer is opened.
Ask ==
    /\ ~open /\ open' = TRUE
    /\ Len(shown') = Len(shown) + 2
    /\ Grows(shown, shown')
    /\ shown'[Len(shown) + 1].role = "user"
    /\ shown'[Len(shown) + 2] = EmptyReply
    /\ asked' = BareAll(SubSeq(shown', 1, Len(shown) + 1))

\* Some of the answer arrives, possibly its end.
Hear ==
    /\ open
    /\ LET n == Len(shown) IN
       /\ Len(shown') = n
       /\ \A i \in 1..(n - 1) : shown'[i] = shown[i]
       /\ shown'[n].role = shown[n].role
       /\ Grows(shown[n].content, shown'[n].content)
       /\ Grows(shown[n].reasoning, shown'[n].reasoning)
    /\ \/ UNCHANGED <<open, asked>>
       \/ open' = FALSE /\ asked' = <<>>

\* The answer fails or is stopped.
Close ==
    /\ open
    /\ open' = FALSE /\ asked' = <<>>
    /\ UNCHANGED shown

Clear ==
    /\ ~open
    /\ shown' = <<>>
    /\ UNCHANGED <<open, asked>>

Next == Ask \/ Hear \/ Close \/ Clear

Spec == Init /\ [][Next]_vars
=============================================================================
