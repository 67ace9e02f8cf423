----------------------------- MODULE FrameQueue -----------------------------
(***************************************************************************)
(* What a framed connection promises its owner, without bytes, buffers or  *)
(* cached headers: the frames the peer sent are taken one by one and in    *)
(* order; a frame that parses is delivered as the message it is, a frame   *)
(* that does not is reported; a failure without a bad frame needs a peer   *)
(* that closed inside one, or a transport that broke, which costs no       *)
(* frame; and the stream ends quietly only between two frames.             *)
(***************************************************************************)
EXTENDS Naturals, Sequences

CONSTANTS
  Good,      \* the frames that parse
  Parsed,    \* the message each of them is
  Dropped    \* the frames that do not, and are taken off the stream all the same

VARIABLES
  sent,       \* the frames the peer sends, in order
  next,       \* the position of the first frame not taken yet
  held,       \* some bytes of frames not taken yet have been received
  closed,     \* the peer's end of file has been seen
  delivered,  \* the messages given to the owner, in order
  told        \* the last thing the owner was told: "open", "failed", "broken" or "ended"

queueVars == <<sent, next, held, closed, delivered, told>>

QueueInit ==
  /\ next = 1
  /\ held = FALSE
  /\ closed = FALSE
  /\ delivered = <<>>
  /\ told = "open"

\* Bytes arrive, or the end of the stream is seen.
Receive ==
  /\ \/ held' = TRUE /\ closed' = closed
     \/ held' = held /\ closed' = TRUE
  /\ UNCHANGED <<sent, next, delivered, told>>

\* The frame at the head is well formed and becomes a message.
Deliver ==
  /\ held
  /\ next <= Len(sent)
  /\ sent[next] \in Good
  /\ delivered' = Append(delivered, Parsed[sent[next]])
  /\ next' = next + 1
  /\ held' \in BOOLEAN
  /\ told' = "open"
  /\ UNCHANGED <<sent, closed>>

\* The frame at the head is not: a bad body is dropped with its frame, a bad
\* header leaves the reader where it is.
Reject ==
  /\ held
  /\ next <= Len(sent)
  /\ sent[next] \notin Good
  /\ next' = IF sent[next] \in Dropped THEN next + 1 ELSE next
  /\ held' \in BOOLEAN
  /\ told' = "failed"
  /\ UNCHANGED <<sent, closed, delivered>>

\* The peer closed inside a frame.
Truncated ==
  /\ closed
  /\ held
  /\ told' = "failed"
  /\ UNCHANGED <<sent, next, held, closed, delivered>>

\* The transport fails before the peer has closed.
Break ==
  /\ ~closed
  /\ told' = "broken"
  /\ UNCHANGED <<sent, next, held, closed, delivered>>

\* The end of the stream: after a failure, or with no byte left over.
End ==
  /\ told \in {"failed", "broken"} \/ (closed /\ ~held)
  /\ told' = "ended"
  /\ UNCHANGED <<sent, next, held, closed, delivered>>

QueueNext == Receive \/ Deliver \/ Reject \/ Truncated \/ Break \/ End

QueueSpec == QueueInit /\ [][QueueNext]_queueVars
=============================================================================
