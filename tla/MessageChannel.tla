--------------------------- MODULE MessageChannel ---------------------------
(***************************************************************************)
(* What the chunk stream promises to the coroutine that reads it: the      *)
(* messages of the peer, each once and as it was sent, in the order in     *)
(* which the peer finished them, as long as the connection is in order.    *)
(***************************************************************************)
EXTENDS Naturals, Sequences, SequencesExt

VARIABLES
  sent,      \* messages the peer has sent in full
  received,  \* messages the reader was given
  ok         \* the connection is in order

vars == <<sent, received, ok>>

Init == sent = <<>> /\ received = <<>> /\ ok = TRUE

\* The peer finishes a message.
Send ==
  /\ ok /\ ok' = ok
  /\ sent' # sent /\ sent' = Append(sent, Last(sent'))
  /\ UNCHANGED received

\* The reader is given the oldest message it has not seen.
Receive ==
  /\ ok /\ ok' = ok
  /\ Len(received) < Len(sent)
  /\ received' = Append(received, sent[Len(received) + 1])
  /\ UNCHANGED sent

\* The connection breaks, and nothing is promised from there on.
Break == ~ok'

Next == Send \/ Receive \/ Break

Spec == Init /\ [][Next]_vars /\ WF_vars(Receive)
==============================================================================
