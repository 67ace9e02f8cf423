---------------------------- MODULE ReplyChannel ----------------------------
(***************************************************************************)
(* What a client may rely on: its requests are taken one at a time and in  *)
(* order, each is answered by a stream of replies that ends with the first *)
(* one not flagged moreToCome, the replies are delivered in order and all  *)
(* of them before the next request is taken, until the channel closes.     *)
(***************************************************************************)
EXTENDS Integers, Sequences

CONSTANTS
  Kinds,          \* what a client may send
  Silent,         \* the kinds that are not answered
  Reply(_, _, _), \* the reply to a request, given its number and its more flag
  Shown(_, _)     \* the form in which a reply to a request of a kind is delivered

VARIABLES
  sent,       \* what the client sent
  taken,      \* how many of it were taken
  answers,    \* every reply of the server
  delivered,  \* every reply the client was given
  open        \* the channel is not closed

vars == <<sent, taken, answers, delivered, open>>

Init == sent = <<>> /\ taken = 0 /\ answers = <<>> /\ delivered = <<>> /\ open = TRUE

\* The request taken last has been answered to the end, and delivered.
Last == answers[Len(answers)]
Begun == answers # <<>> /\ Last.to = taken
Settled ==
  /\ Len(delivered) = Len(answers)
  /\ taken = 0 \/ sent[taken] \in Silent \/ (Begun /\ ~Last.more)

Send ==
  /\ \E k \in Kinds : sent' = Append(sent, k)
  /\ UNCHANGED <<taken, answers, delivered, open>>

Take ==
  /\ open /\ Settled
  /\ taken < Len(sent) /\ taken' = taken + 1
  /\ UNCHANGED <<sent, answers, delivered, open>>

Answer ==
  /\ open /\ taken > 0
  /\ sent[taken] \notin Silent
  /\ ~Begun \/ Last.more
  /\ \E more \in BOOLEAN :
       answers' = Append(answers, Reply(taken, Len(answers) + 1, more))
  /\ UNCHANGED <<sent, taken, delivered, open>>

Deliver ==
  /\ open /\ Len(delivered) < Len(answers)
  /\ delivered' = Append(delivered, Shown(sent[taken], answers[Len(delivered) + 1]))
  /\ UNCHANGED <<sent, taken, answers, open>>

\* Either side is gone, or the request taken cannot be read.
Close ==
  /\ open /\ open' = FALSE
  /\ taken' = taken \/ (Settled /\ taken < Len(sent) /\ taken' = taken + 1)
  /\ UNCHANGED <<sent, answers, delivered>>

Next == Send \/ Take \/ Answer \/ Deliver \/ Close

Spec == Init /\ [][Next]_vars
=============================================================================
