----------------------------- MODULE ChatWindow -----------------------------
(***************************************************************************)
(* The chat window of the client (src/client/main.cpp:347): main() reads   *)
(* the newest messages with size() and at(), each of which locks           *)
(* chat_messages for itself, while the packet thread appends.  A message   *)
(* is its index, so arrived stands for the whole deque: it is never        *)
(* shortened.  Bounds: Rows is 5 in the code; MaxMessages may arrive.      *)
(***************************************************************************)
EXTENDS Naturals, Sequences

CONSTANTS Rows, MaxMessages

ASSUME ChatWindowAssumption == Rows \in Nat /\ MaxMessages \in Nat

VARIABLES
  arrived,  \* chat_messages: messages 0 .. arrived - 1
  size,     \* how many rows main() draws in this frame
  pc,       \* where main() is
  index,    \* what it will call at() with
  shown,    \* the messages drawn in this frame, from the lowest row upwards
  before    \* history: how many messages there were when the frame began

vars == <<arrived, size, pc, index, shown, before>>

TypeOK ==
  /\ arrived \in 0 .. MaxMessages
  /\ size \in 0 .. Rows
  /\ pc \in {"frame", "size", "at"}
  /\ index \in Nat
  /\ shown \in Seq(Nat)
  /\ before \in 0 .. arrived

Init ==
  /\ arrived = 0 /\ size = 0 /\ pc = "frame"
  /\ index = 0 /\ shown = <<>> /\ before = 0

-----------------------------------------------------------------------------
(* Steps with a plausible bug. *)

\* The messages are drawn oldest first.
index_size_oldest ==
  /\ pc = "size" /\ Len(shown) < size
  /\ index' = Len(shown)
  /\ pc' = "at"
  /\ UNCHANGED <<arrived, size, shown, before>>

\* Only the lowest row is drawn with the current size.
index_size_cached ==
  /\ pc = "size" /\ Len(shown) < size
  /\ index' = (IF shown = <<>> THEN arrived ELSE before) - 1 - Len(shown)
  /\ pc' = "at"
  /\ UNCHANGED <<arrived, size, shown, before>>

\* All messages are drawn.
frame_size_unlimited ==
  /\ pc = "frame"
  /\ size' = arrived
  /\ shown' = <<>>
  /\ before' = arrived
  /\ pc' = "size"
  /\ UNCHANGED <<arrived, index>>

-----------------------------------------------------------------------------
\* The packet thread: chat_messages.emplace_back.
emplace_back ==
  /\ arrived < MaxMessages
  /\ arrived' = arrived + 1
  /\ UNCHANGED <<size, pc, index, shown, before>>

\* size = min(messages.size(), 5)
frame_size ==
  /\ pc = "frame"
  /\ size' = IF arrived < Rows THEN arrived ELSE Rows
  /\ shown' = <<>>
  /\ before' = arrived
  /\ pc' = "size"
  /\ UNCHANGED <<arrived, index>>

\* messages.size() - 1 - i
index_size ==
  /\ pc = "size" /\ Len(shown) < size
  /\ index' = arrived - 1 - Len(shown)
  /\ pc' = "at"
  /\ UNCHANGED <<arrived, size, shown, before>>

\* messages.at(index)
row_at ==
  /\ pc = "at"
  /\ shown' = Append(shown, index)
  /\ pc' = "size"
  /\ UNCHANGED <<arrived, size, index, before>>

frame_end ==
  /\ pc = "size" /\ Len(shown) = size
  /\ pc' = "frame"
  /\ UNCHANGED <<arrived, size, index, shown, before>>

Next == emplace_back \/ frame_size \/ index_size \/ row_at \/ frame_end

Spec == Init /\ [][Next]_vars

-----------------------------------------------------------------------------
\* at() never throws: the message main() is about to read exists, although
\* chat_messages may have grown since its size was read.
AtInRange == pc = "at" => index \in 0 .. arrived - 1

\* Each row shows a message that was the newest but so many at some moment of
\* the frame; with no message arriving meanwhile, exactly the newest ones.
RowsAreCurrent ==
  \A i \in DOMAIN shown : pc # "frame" =>
    shown[i] \in before - i .. arrived - i

\* Each row that is drawn is there to be read, and current.
WindowIsCurrent == AtInRange /\ RowsAreCurrent

\* A row may repeat the message below it when one arrives in between, but the
\* window never leaves a message out on the way to an older one.
NoMessageSkipped ==
  \A i \in 1 .. Len(shown) - 1 : shown[i + 1] + 1 >= shown[i]

\* What makes the properties inductive: the rows still to be drawn are no more
\* than the messages there were when the frame began, and the index main() holds
\* was right when it was computed.
FrameInv ==
  /\ pc # "frame" => size <= before /\ Len(shown) <= size
  /\ pc = "at" =>
       /\ Len(shown) < size
       /\ index \in before - 1 - Len(shown) .. arrived - 1 - Len(shown)
       /\ \A i \in DOMAIN shown : i = Len(shown) => index + 1 >= shown[i]

IInv == TypeOK /\ FrameInv /\ RowsAreCurrent /\ NoMessageSkipped
=============================================================================
