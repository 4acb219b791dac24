----------------------------- MODULE AudioQueue -----------------------------
(***************************************************************************)
(* The queue between the thread that supplies audio and the media thread   *)
(* that takes it (app-unimrcp/audio_queue.c): a flat buffer whose bytes    *)
(* are moved to the front after each read, one mutex, and one condition    *)
(* variable for the one reader.  Each function is one critical section,    *)
(* but for the read that may block, which is two.                          *)
(*                                                                         *)
(* The applications read without blocking (speech_channel_read with block  *)
(* 0); the blocking read is part of what the queue offers.                 *)
(***************************************************************************)
EXTENDS Naturals, Sequences

CONSTANTS
  Byte,      \* the values of a byte
  Capacity,  \* AUDIO_QUEUE_SIZE
  MaxLen     \* bound: the longest chunk written, the most bytes asked for

ASSUME SizeAssumption == Capacity \in Nat \ {0} /\ MaxLen \in Nat \ {0}

VARIABLES
  data,       \* buffer->data
  used,       \* buffer->used
  waiting,    \* queue->waiting
  reader,     \* "idle", or "blocked" in apr_thread_cond_timedwait
  want,       \* what the blocked reader asked for
  signalled,  \* the blocked reader was signalled and did not run yet
  got,        \* the bytes the last read returned, none if it returned -1
  status      \* what the last write returned

vars == <<data, used, waiting, reader, want, signalled, got, status>>

\* What a writer may pass: speech_channel_write passes on no empty chunk.
Chunks == UNION {[1..n -> Byte] : n \in 1..MaxLen}

QueueOK ==
  /\ data \in [1..Capacity -> Byte]
  /\ used \in 0..Capacity
  /\ waiting \in 0..MaxLen /\ want \in 0..MaxLen
  /\ reader \in {"idle", "blocked"}
  /\ got \in Seq(Byte) /\ Len(got) <= MaxLen
  /\ status \in {"ok", "overflow"}

TypeOK == QueueOK /\ signalled \in BOOLEAN

\* The memory is not initialized.
Init ==
  /\ data \in [1..Capacity -> Byte]
  /\ used = 0 /\ waiting = 0 /\ want = 0
  /\ reader = "idle" /\ signalled = FALSE
  /\ got = <<>> /\ status = "ok"

-----------------------------------------------------------------------------
\* apr_thread_cond_signal: lost when nobody waits.
Signal == signalled' = (reader = "blocked")

\* audio_buffer_write itself.
Store(chunk) ==
  /\ data' = [i \in 1..Capacity |->
                IF i \in used + 1 .. used + Len(chunk) THEN chunk[i - used]
                                                       ELSE data[i]]
  /\ used' = used + Len(chunk)

\* Mutant of Write: the free space is not looked at.
WriteUnchecked(chunk) ==
  /\ Store(chunk)
  /\ IF waiting <= used' THEN Signal ELSE UNCHANGED signalled
  /\ status' = "ok"
  /\ UNCHANGED <<waiting, reader, want, got>>

\* Mutant of Write: the reader's need is compared with the bytes before it.
WriteSignalsLate(chunk) ==
  /\ Len(chunk) <= Capacity - used
  /\ Store(chunk)
  /\ IF waiting <= used THEN Signal ELSE UNCHANGED signalled
  /\ status' = "ok"
  /\ UNCHANGED <<waiting, reader, want, got>>

\* audio_buffer_write, and the signal if the reader can have what it waits for.
Write(chunk) ==
  /\ Len(chunk) <= Capacity - used
  /\ Store(chunk)
  /\ IF waiting <= used' THEN Signal ELSE UNCHANGED signalled
  /\ status' = "ok"
  /\ UNCHANGED <<waiting, reader, want, got>>

Overflow(chunk) ==
  /\ Len(chunk) > Capacity - used
  /\ status' = "overflow"
  /\ UNCHANGED <<data, used, waiting, reader, want, signalled, got>>

Clear ==
  /\ used' = 0
  /\ Signal
  /\ UNCHANGED <<data, waiting, reader, want, got, status>>

\* Mutant of Take: the rest is not moved to the front.
TakeUnmoved(n) ==
  LET reading == IF used < n THEN used ELSE n
  IN  /\ got' = [i \in 1..reading |-> data[i]]
      /\ used' = used - reading
      /\ UNCHANGED data

\* The end of audio_queue_read, and audio_buffer_read: take n bytes or as many
\* as there are, and move the rest to the front of the buffer.
Take(n) ==
  LET reading == IF used < n THEN used ELSE n
  IN  /\ got' = [i \in 1..reading |-> data[i]]
      /\ used' = used - reading
      /\ data' = [i \in 1..Capacity |->
                    IF i \in 1..used - reading THEN data[i + reading] ELSE data[i]]

\* block = 0: waiting is left as it is.
ReadNow(n) ==
  /\ reader = "idle"
  /\ Take(n)
  /\ UNCHANGED <<waiting, reader, want, signalled, status>>

\* block # 0, and there is enough.
ReadEnough(n) ==
  /\ reader = "idle" /\ n <= used
  /\ waiting' = 0
  /\ Take(n)
  /\ UNCHANGED <<reader, want, signalled, status>>

Block(n) ==
  /\ reader = "idle" /\ used < n
  /\ waiting' = n /\ want' = n
  /\ reader' = "blocked" /\ signalled' = FALSE
  /\ UNCHANGED <<data, used, got, status>>

\* A signal, the timeout or a spurious wakeup: the read goes on with what
\* there is.
Wake ==
  /\ reader = "blocked"
  /\ reader' = "idle" /\ waiting' = 0 /\ signalled' = FALSE
  /\ Take(want)
  /\ UNCHANGED <<want, status>>

Next ==
  \/ \E chunk \in Chunks : Write(chunk) \/ Overflow(chunk)
  \/ \E n \in 1..MaxLen : ReadNow(n) \/ ReadEnough(n) \/ Block(n)
  \/ Clear \/ Wake

Spec == Init /\ [][Next]_vars

-----------------------------------------------------------------------------
(* What the queue promises.                                                *)

\* No wakeup is lost: a reader that still sleeps has not got enough to read.
\* The writer compares `waiting', set in an earlier critical section, with the
\* bytes in use after its write.
NoLostWakeup == reader = "blocked" /\ ~signalled => used < want

\* The bytes in use, as a sequence.
content == [i \in 1..used |-> data[i]]

Fifo == INSTANCE ByteFifo WITH content <- content

\* The queue implements the FIFO: no byte is lost, repeated or reordered by
\* moving the rest of the buffer, and no write is taken in part.
FifoImplemented == Fifo!Spec
=============================================================================
