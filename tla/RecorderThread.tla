--------------------------- MODULE RecorderThread ---------------------------
(***************************************************************************)
(* The "hprof-recorder" thread seen from the pipeline: it records the      *)
(* vectors of records in the order they arrive, gives each vector back     *)
(* empty, and renders the result when the parser is gone.                  *)
(***************************************************************************)
EXTENDS PipelineChannels

VARIABLES
  recorder,  \* where the thread is
  batch,     \* the vector being recorded
  recorded   \* the records recorded so far, in order

recorderVars == <<recorder, batch, recorded>>

TypeOKRecorder ==
  /\ recorder \in {"unborn", "recv", "recording", "rendering", "done", "panicked", "dropped"}
  /\ batch \in Seq(Nat)
  /\ recorded \in Seq(Nat)

InitRecorder ==
  /\ recorder = "unborn"
  /\ batch = << >>
  /\ recorded = << >>

\* The thread ends, in one way or another, and drops its ends of the channels.
RecorderDrops(how, answer) ==
  /\ recorder' = how
  /\ records' = DropReceiver(records)
  /\ vecs' = DropSender(vecs)
  /\ result' = DropSender(answer)
  /\ UNCHANGED <<input, batch, recorded>>

\* A vector of records arrives.
ReceiveBatch ==
  /\ recorder = "recv"
  /\ Ready(records)
  /\ batch' = Head(records.q)
  /\ records' = Taken(records)
  /\ recorder' = "recording"
  /\ UNCHANGED <<input, recorded, vecs, result>>

\* Mutant: the vector is given back with its records.
RecordBatch_NOT_CLEARED ==
  /\ recorder = "recording"
  /\ recorded' = recorded \o batch
  /\ batch' = << >>
  /\ vecs' = SentOrLost(vecs, batch)
  /\ recorder' = "recv"
  /\ UNCHANGED <<input, records, result>>

\* Mutant: the vector is not given back.
RecordBatch_KEEPS_VECTOR ==
  /\ recorder = "recording"
  /\ recorded' = recorded \o batch
  /\ batch' = << >>
  /\ vecs' = vecs
  /\ recorder' = "recv"
  /\ UNCHANGED <<input, records, result>>

\* record_records, clear, and the vector back to the parser if it still listens.
RecordBatch ==
  /\ recorder = "recording"
  /\ recorded' = recorded \o batch
  /\ batch' = << >>
  /\ vecs' = SentOrLost(vecs, << >>)
  /\ recorder' = "recv"
  /\ UNCHANGED <<input, records, result>>

\* No more records to pull.
StartRendering ==
  /\ recorder = "recv"
  /\ Disconnected(records)
  /\ recorder' = "rendering"
  /\ UNCHANGED <<input, batch, recorded, records, vecs, result>>

\* The result is rendered and sent to main.
SendResult ==
  /\ recorder = "rendering"
  /\ Accepts(result)
  /\ RecorderDrops("done", Sent(result, recorded))

\* Rendering panics on the content of the dump (a class name that is cut within
\* a character, or is shorter than what is cut off), or main no longer listens.
RenderPanics ==
  /\ recorder = "rendering"
  /\ "render" \in Faults \/ ~Accepts(result)
  /\ RecorderDrops("panicked", result)

RecorderNext ==
  \/ ReceiveBatch
  \/ RecordBatch
  \/ StartRendering
  \/ SendResult
  \/ RenderPanics
=============================================================================
