------------------------------ MODULE AiStream ------------------------------
(***************************************************************************)
(* GET /ai/jobs/{id}/stream (stream_job in requests.py): a generator polls *)
(* the row of a job and sends what its text has grown by as "token"        *)
(* events, until the status is terminal.  The row is AiJobQueue's, which   *)
(* counts its payloads; this module adds what they say.                    *)
(*                                                                         *)
(* A poll reads the row in one statement and yields in order; the client   *)
(* appends the tokens.  A client that connects again starts with nothing.  *)
(***************************************************************************)
EXTENDS AiJobQueue, SequencesExt

CONSTANTS
  Payloads,      \* what one payload of a generation may say
  Streamed       \* the job whose stream is read

VARIABLES
  text,          \* per job, what output_text says
  buffer,        \* per process, the local output_text of process_one
  stream         \* the generator's previous, and what its client has

streamVars == <<text, buffer, stream>>

\* dropped (history): text that was sent is no longer in the row, because of
\* another attempt or a write of a worker whose lease had expired.
\* shown: output_text in the last "status" or "complete" event.
Connected == [open |-> TRUE, previous |-> << >>, received |-> << >>, shown |-> << >>,
              dropped |-> FALSE]

StreamInit ==
  /\ Init
  /\ text = [j \in Jobs |-> << >>]
  /\ buffer = [w \in Workers |-> << >>]
  /\ stream = [Connected EXCEPT !.open = FALSE]

-----------------------------------------------------------------------------
(* What the steps of the worker do to the text *)

Watched ==
  stream' = [stream EXCEPT !.dropped = @ \/ ~IsPrefix(stream.previous, text'[Streamed])]

\* A claim empties output_text.
ClaimText(w) ==
  /\ Claim(w)
  /\ text' = [j \in Jobs |-> IF ai_jobs'[j].attempts # ai_jobs[j].attempts THEN << >> ELSE text[j]]
  /\ Watched
  /\ UNCHANGED buffer

LoadText(w) ==
  /\ Load(w)
  /\ buffer' = [buffer EXCEPT ![w] = IF worker'[w].pc = "stream" THEN text[worker[w].job] ELSE << >>]
  /\ UNCHANGED <<text, stream>>

ReceiveText(w) ==
  /\ ReceiveChunk(w)
  /\ \E p \in Payloads : buffer' = [buffer EXCEPT ![w] = Append(@, p)]
  /\ UNCHANGED <<text, stream>>

FlushText(w) ==
  /\ FlushCommit(w)
  /\ text' = [text EXCEPT ![worker[w].job] = buffer[w]]
  /\ Watched
  /\ UNCHANGED buffer

OtherStep(w) ==
  \/ StreamEnds(w) \/ StreamFails(w) \/ FlushRead(w)
  \/ CompleteRead(w) \/ CompleteCommit(w)
  \/ CancelRead(w) \/ CancelCommit(w)
  \/ FailRead(w) \/ FailCommit(w)
  \/ Crash(w) \/ DatabaseError(w)

-----------------------------------------------------------------------------
(* stream_job *)

Connect ==
  /\ ai_jobs[Streamed].status # "absent"
  /\ ~stream.open
  /\ stream' = Connected
  /\ UNCHANGED <<vars, text, buffer>>

\* Mutant: the text is taken to have grown whatever it was.
DeltaUnchecked(previous, output) == SubSeq(output, Len(previous) + 1, Len(output))

Delta(previous, output) ==
  IF IsPrefix(previous, output) THEN SubSeq(output, Len(previous) + 1, Len(output)) ELSE output

\* previous keeps what was sent when there is nothing to send.
Poll ==
  LET output == text[Streamed]
      delta  == Delta(stream.previous, output) IN
  /\ stream.open
  /\ stream' = [stream EXCEPT
       !.open     = ai_jobs[Streamed].status \notin Terminal,
       !.previous = IF delta = << >> THEN @ ELSE output,
       !.received = @ \o delta,
       !.shown    = output]
  /\ UNCHANGED <<vars, text, buffer>>

-----------------------------------------------------------------------------

StreamNext ==
  \/ \E j \in Jobs :
       /\ Enqueue(j) \/ CancelRequest(j) \/ BackoffElapses(j) \/ LeaseExpires(j)
       /\ UNCHANGED streamVars
  \/ \E w \in Workers : \/ ClaimText(w) \/ LoadText(w) \/ ReceiveText(w) \/ FlushText(w)
                        \/ OtherStep(w) /\ UNCHANGED streamVars
  \/ Connect
  \/ Poll

StreamSpec == StreamInit /\ [][StreamNext]_<<vars, streamVars>>

-----------------------------------------------------------------------------
(* Properties *)

(* With every status event, "complete" included, the tokens the client appended
   end with the output the event shows, whichever attempts wrote it and whatever
   was emptied or overwritten between two polls; and they are that output, if no
   text that was sent was dropped.  After a retry the client may hold more: it is
   not told to forget the text of the attempt before. *)
TokensEndWithOutput ==
  /\ IsSuffix(stream.shown, stream.received)
  /\ ~stream.dropped => stream.received = stream.shown

=============================================================================
