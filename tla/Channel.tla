------------------------------ MODULE Channel ------------------------------
(***************************************************************************)
(* An unbounded crossbeam channel with one sender and one receiver, as     *)
(* hprof-slurp uses it: a FIFO queue of messages, and for each end whether *)
(* its handle is still alive or has been dropped by its owner.             *)
(*  - recv takes the oldest message; on an empty queue it blocks while the *)
(*    sender lives and fails once the sender is gone;                      *)
(*  - send never blocks; it fails once the receiver is gone, and the       *)
(*    messages that were still queued go with the receiver.                *)
(***************************************************************************)
EXTENDS Sequences

\* The two conditions of a channel end.
Ends == {"live", "dropped"}

\* The channels that carry messages from M.
Channels(M) == [q : Seq(M), tx : Ends, rx : Ends]

\* A fresh channel in which the messages of q are already queued.
Open(q) == [q |-> q, tx |-> "live", rx |-> "live"]

\* recv() can return a message.
Ready(c) == c.q # << >>

\* recv() returns an error: nothing is queued and nothing ever will be.
Disconnected(c) == c.q = << >> /\ c.tx = "dropped"

\* send(m) succeeds.
Accepts(c) == c.rx = "live"

\* The channel after a successful recv() and after a successful send(m).
Taken(c)   == [c EXCEPT !.q = Tail(@)]
Sent(c, m) == [c EXCEPT !.q = Append(@, m)]

\* send(m).unwrap_or_default(): the error of a dead receiver is swallowed.
SentOrLost(c, m) == IF Accepts(c) THEN Sent(c, m) ELSE c

\* The owner of an end drops it.
DropSender(c)   == [c EXCEPT !.tx = "dropped"]
DropReceiver(c) == [q |-> << >>, tx |-> c.tx, rx |-> "dropped"]
=============================================================================
