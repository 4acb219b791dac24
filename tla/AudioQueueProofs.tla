-------------------------- MODULE AudioQueueProofs --------------------------
(***************************************************************************)
(* Theorems of AudioQueue, for every size of the queue and every set of    *)
(* bytes.                                                                  *)
(***************************************************************************)
EXTENDS AudioQueue, SequenceTheorems, TLAPS

\* What is recorded of the sleeping reader: it is what it asked for, and it
\* was more than there was unless it has been signalled since.
Sleeping ==
  reader = "blocked" =>
    want # 0 /\ waiting = want /\ (~signalled => used < want)

\* A chunk is a short sequence of bytes.
LEMMA ChunkIsSeq ==
  ASSUME NEW chunk \in Chunks
  PROVE  chunk \in Seq(Byte) /\ Len(chunk) \in 1..MaxLen
         /\ \A i \in 1..Len(chunk) : chunk[i] \in Byte
  <1>1. PICK n \in 1..MaxLen : chunk \in [1..n -> Byte]
    BY DEF Chunks
  <1>2. n \in Nat /\ chunk \in Seq(Byte) /\ Len(chunk) = n
    BY <1>1, SizeAssumption DEF SizeAssumption
  <1>3. QED
    BY <1>1, <1>2

\* audio_buffer_read moves the rest to the front and stays within the buffer.
LEMMA TakeBuffer ==
  ASSUME data \in [1..Capacity -> Byte], used \in 0..Capacity,
         NEW n \in 0..MaxLen, Take(n)
  PROVE  /\ data' \in [1..Capacity -> Byte]
         /\ used' \in 0..Capacity
         /\ got' \in Seq(Byte) /\ Len(got') <= MaxLen
  <1> USE SizeAssumption DEF SizeAssumption
  <1> DEFINE reading == IF used < n THEN used ELSE n
  <1>1. reading \in 0..MaxLen /\ reading \in 0..used
    OBVIOUS
  <1>2. /\ got' = [i \in 1..reading |-> data[i]]
        /\ used' = used - reading
        /\ data' = [i \in 1..Capacity |->
                      IF i \in 1..used - reading THEN data[i + reading] ELSE data[i]]
    BY DEF Take
  <1>3. \A i \in 1..used - reading : i + reading \in 1..Capacity
    BY <1>1
  <1>4. data' \in [1..Capacity -> Byte]
    BY <1>2, <1>3
  <1>5. got' \in [1..reading -> Byte]
    BY <1>1, <1>2
  <1>6. got' \in Seq(Byte) /\ Len(got') = reading
    BY <1>1, <1>5
  <1>7. QED
    BY <1>1, <1>2, <1>4, <1>6

LEMMA InitInv == Init => TypeOK /\ Sleeping
  <1>1. Init => QueueOK /\ Sleeping
    BY SizeAssumption DEF SizeAssumption, Init, QueueOK, Sleeping
  <1>2. Init => signalled \in BOOLEAN
    BY Zenon DEF Init
  <1>3. QED
    BY <1>1, <1>2 DEF TypeOK

\* The flag is assigned nothing but truth values.
LEMMA NextFlag ==
  ASSUME signalled \in BOOLEAN, [Next]_vars PROVE signalled' \in BOOLEAN
  BY Zenon DEF Next, Write, Store, Overflow, ReadNow, ReadEnough, Block, Clear, Wake,
     Signal, vars

\* Reader and writer preserve the invariant.
LEMMA NextQueue ==
  ASSUME QueueOK, Sleeping, [Next]_vars PROVE QueueOK' /\ Sleeping'
  <1> USE SizeAssumption DEF SizeAssumption, QueueOK, Sleeping
  <1>1. CASE \E chunk \in Chunks : Write(chunk)
    <2>1. PICK chunk \in Chunks : Write(chunk)
      BY <1>1
    <2>2. /\ Len(chunk) \in 1..MaxLen
          /\ \A i \in 1..Len(chunk) : chunk[i] \in Byte
      BY ChunkIsSeq
    <2>3. used' \in 0..Capacity
      BY <2>1, <2>2 DEF Write, Store
    <2>4. \A i \in used + 1 .. used + Len(chunk) : chunk[i - used] \in Byte
      BY <2>2
    <2>5. data' \in [1..Capacity -> Byte]
      BY <2>1, <2>2, <2>4 DEF Write, Store
    <2>6. Sleeping'
      <3>1. CASE waiting <= used'
        BY <2>1, <3>1, <2>3 DEF Write, Store, Signal
      <3>2. CASE ~(waiting <= used')
        BY <2>1, <2>2, <3>2 DEF Write, Store
      <3>3. QED
        BY <3>1, <3>2
    <2>7. QED
      BY <2>1, <2>3, <2>5, <2>6 DEF Write, Store
  <1>2. CASE \E chunk \in Chunks : Overflow(chunk)
    BY <1>2 DEF Overflow
  <1>3. CASE \E n \in 1..MaxLen : ReadNow(n)
    <2>1. PICK n \in 1..MaxLen : ReadNow(n)
      BY <1>3
    <2>2. QED
      BY <2>1, TakeBuffer DEF ReadNow
  <1>4. CASE \E n \in 1..MaxLen : ReadEnough(n)
    <2>1. PICK n \in 1..MaxLen : ReadEnough(n)
      BY <1>4
    <2>2. QED
      BY <2>1, TakeBuffer DEF ReadEnough
  <1>5. CASE \E n \in 1..MaxLen : Block(n)
    BY <1>5 DEF Block
  <1>6. CASE Clear
    <2>1. QueueOK'
      BY <1>6 DEF Clear
    <2>2. Sleeping'
      BY <1>6 DEF Clear, Signal
    <2>3. QED
      BY <2>1, <2>2
  <1>7. CASE Wake
    <2>1. want \in 0..MaxLen /\ Take(want)
      BY <1>7 DEF Wake
    <2>2. /\ data' \in [1..Capacity -> Byte]
          /\ used' \in 0..Capacity
          /\ got' \in Seq(Byte) /\ Len(got') <= MaxLen
      BY <2>1, TakeBuffer
    <2>3. QED
      BY <1>7, <2>2 DEF Wake
  <1>8. CASE UNCHANGED vars
    BY <1>8 DEF vars
  <1>9. QED
    BY <1>1, <1>2, <1>3, <1>4, <1>5, <1>6, <1>7, <1>8 DEF Next

LEMMA AlwaysInv == Spec => [](TypeOK /\ Sleeping)
  <1>1. TypeOK /\ Sleeping /\ [Next]_vars => TypeOK' /\ Sleeping'
    BY NextFlag, NextQueue DEF TypeOK
  <1>2. QED
    BY <1>1, InitInv, PTL DEF Spec

\* The buffer is never overrun: the bytes in use stay within AUDIO_QUEUE_SIZE
\* whatever is written, read and cleared (audio_buffer_write).
THEOREM QueueTypeCorrect == Spec => []TypeOK
  BY AlwaysInv, PTL

\* No wakeup of the blocked reader is lost (audio_queue_write signals as soon as
\* the bytes in use reach queue->waiting).
THEOREM WakeupsAreKept == Spec => []NoLostWakeup
  <1>1. TypeOK /\ Sleeping => NoLostWakeup
    BY DEF Sleeping, NoLostWakeup
  <1>2. QED
    BY <1>1, AlwaysInv, PTL

-----------------------------------------------------------------------------
\* The bytes in use are a sequence.
LEMMA ContentIsSeq ==
  ASSUME QueueOK
  PROVE  /\ content \in Seq(Byte)
         /\ Len(content) = used
         /\ \A i \in 1..used : content[i] = data[i]
  <1>1. used \in Nat /\ \A i \in 1..used : data[i] \in Byte
    BY SizeAssumption DEF SizeAssumption, QueueOK
  <1>2. content \in [1..used -> Byte]
    BY <1>1 DEF content
  <1>3. QED
    BY <1>1, <1>2 DEF content

LEMMA ContentIsSeqNext ==
  ASSUME QueueOK'
  PROVE  /\ content' \in Seq(Byte)
         /\ Len(content') = used'
         /\ \A i \in 1..used' : content'[i] = data'[i]
  <1>1. used' \in Nat /\ \A i \in 1..used' : data'[i] \in Byte
    BY SizeAssumption DEF SizeAssumption, QueueOK
  <1>2. content' \in [1..used' -> Byte]
    BY <1>1 DEF content
  <1>3. QED
    BY <1>1, <1>2 DEF content

\* Appending behind the bytes in use appends to the sequence.
LEMMA WriteContent ==
  ASSUME QueueOK, QueueOK', NEW chunk \in Chunks, Write(chunk)
  PROVE  Fifo!Write(chunk)
  <1>1. /\ content \in Seq(Byte) /\ Len(content) = used
        /\ \A i \in 1..used : content[i] = data[i]
    BY ContentIsSeq
  <1>2. /\ content' \in Seq(Byte) /\ Len(content') = used'
        /\ \A i \in 1..used' : content'[i] = data'[i]
    BY ContentIsSeqNext
  <1>3. chunk \in Seq(Byte) /\ Len(chunk) \in Nat
    BY ChunkIsSeq
  <1>4. used' = used + Len(chunk) /\ used \in Nat /\ used' \in 0..Capacity
        /\ Capacity \in Nat
    BY SizeAssumption DEF SizeAssumption, Write, Store, QueueOK
  <1>5. /\ content \o chunk \in Seq(Byte)
        /\ Len(content \o chunk) = used'
        /\ \A i \in 1..used' : (content \o chunk)[i] =
              IF i <= used THEN content[i] ELSE chunk[i - used]
    BY <1>1, <1>3, <1>4, ConcatProperties
  <1>6. \A i \in 1..used' : data'[i] = IF i <= used THEN data[i] ELSE chunk[i - used]
    BY <1>3, <1>4 DEF Write, Store
  <1>7. \A i \in 1..used' : content'[i] = (content \o chunk)[i]
    BY <1>1, <1>2, <1>4, <1>5, <1>6
  <1>8. content' = content \o chunk
    BY <1>2, <1>5, <1>7, SeqEqual
  <1>9. Len(content) + Len(chunk) <= Capacity
    BY <1>1, <1>3, <1>4
  <1>10. got' = got
    BY DEF Write, Store
  <1>11. QED
    BY <1>8, <1>9, <1>10 DEF Fifo!Write

\* Moving the rest to the front drops from the sequence what was read.
LEMMA TakeContent ==
  ASSUME QueueOK, QueueOK', NEW n \in 0..MaxLen, Take(n)
  PROVE  Fifo!Read(n)
  <1> DEFINE reading == IF used < n THEN used ELSE n
             rest == SubSeq(content, reading + 1, used)
             first == SubSeq(content, 1, reading)
  <1>1. /\ content \in Seq(Byte) /\ Len(content) = used
        /\ \A i \in 1..used : content[i] = data[i]
    BY ContentIsSeq
  <1>2. /\ content' \in Seq(Byte) /\ Len(content') = used'
        /\ \A i \in 1..used' : content'[i] = data'[i]
    BY ContentIsSeqNext
  <1>3. used \in 0..Capacity /\ Capacity \in Nat /\ reading \in 0..used
    BY SizeAssumption DEF SizeAssumption, QueueOK
  <1>4. /\ used' = used - reading
        /\ got' = [i \in 1..reading |-> data[i]]
        /\ \A i \in 1..used' : data'[i] = data[i + reading]
    BY <1>3 DEF Take
  <1>5. \A i \in 1..used : content[i] \in Byte
    BY <1>1, ElementOfSeq
  <1> HIDE DEF reading
  <1>6. /\ rest \in Seq(Byte) /\ Len(rest) = used'
        /\ \A i \in 1..used' : rest[i] = content[i + reading]
    <2>1. \A i \in reading + 1 .. used : content[i] \in Byte
      BY <1>3, <1>5
    <2>2. /\ rest \in Seq(Byte)
          /\ Len(rest) = IF reading + 1 <= used THEN used - (reading + 1) + 1 ELSE 0
          /\ \A i \in 1 .. used - (reading + 1) + 1 :
               rest[i] = content[(reading + 1) + i - 1]
      BY <1>3, <2>1, SubSeqProperties
    <2>3. used - (reading + 1) + 1 = used' /\ used' \in Nat
      BY <1>3, <1>4
    <2>4. ASSUME NEW i \in 1..used' PROVE rest[i] = content[i + reading]
      <3>1. (reading + 1) + i - 1 = i + reading
        BY <1>3, <2>3
      <3>2. QED
        BY <2>2, <2>3, <3>1
    <2>5. Len(rest) = used'
      BY <1>3, <2>2, <2>3
    <2>6. QED
      BY <2>2, <2>4, <2>5
  <1>7. /\ first \in Seq(Byte) /\ Len(first) = reading
        /\ \A i \in 1..reading : first[i] = content[i]
    <2>1. \A i \in 1..reading : content[i] \in Byte
      BY <1>3, <1>5
    <2>2. /\ first \in Seq(Byte)
          /\ Len(first) = IF 1 <= reading THEN reading - 1 + 1 ELSE 0
          /\ \A i \in 1 .. reading - 1 + 1 : first[i] = content[1 + i - 1]
      BY <1>3, <2>1, SubSeqProperties
    <2>3. QED
      BY <1>3, <2>2
  <1>8. content' = rest
    <2>1. ASSUME NEW i \in 1..used' PROVE content'[i] = rest[i]
      <3>1. i + reading \in 1..used
        BY <1>3, <1>4
      <3>2. QED
        BY <1>1, <1>2, <1>4, <1>6, <3>1
    <2>2. QED
      BY <1>2, <1>6, <2>1, SeqEqual
  <1>9. got' = first
    <2>1. got' \in Seq(Byte) /\ Len(got') = reading
          /\ \A i \in 1..reading : got'[i] = first[i]
      BY <1>1, <1>3, <1>4, <1>7 DEF QueueOK
    <2>2. QED
      BY <1>7, <2>1, SeqEqual
  <1>10. reading = IF n < Len(content) THEN n ELSE Len(content)
    BY <1>1, <1>3 DEF reading
  <1>11. QED
    BY <1>1, <1>8, <1>9, <1>10 DEF Fifo!Read

\* The flat buffer implements the FIFO (audio_buffer_read, audio_buffer_write):
\* bytes leave in the order they came, each once, whatever the sizes.
THEOREM QueueIsFifo == Spec => FifoImplemented
  <1>1. Init => Fifo!Init
    BY DEF Init, Fifo!Init, content
  <1>2. TypeOK /\ TypeOK' /\ Sleeping /\ [Next]_vars => [Fifo!Next]_(Fifo!vars)
    <2> SUFFICES ASSUME QueueOK, QueueOK', Sleeping, [Next]_vars
                 PROVE  [Fifo!Next]_(Fifo!vars)
      BY DEF TypeOK
    <2>1. CASE \E chunk \in Chunks : Write(chunk)
      BY <2>1, WriteContent DEF Fifo!Next
    <2>2. CASE \E chunk \in Chunks : Overflow(chunk)
      BY <2>2 DEF Overflow, content, Fifo!vars
    <2>3. CASE \E n \in 1..MaxLen : ReadNow(n) \/ ReadEnough(n)
      <3>1. PICK n \in 1..MaxLen : Take(n)
        BY <2>3 DEF ReadNow, ReadEnough
      <3>2. n \in 0..MaxLen
        BY SizeAssumption DEF SizeAssumption
      <3>3. QED
        BY <3>1, <3>2, TakeContent DEF Fifo!Next
    <2>4. CASE \E n \in 1..MaxLen : Block(n)
      BY <2>4 DEF Block, content, Fifo!vars
    <2>5. CASE Clear
      BY <2>5 DEF Clear, content, Fifo!Next, Fifo!Clear
    <2>6. CASE Wake
      <3>1. want \in 1..MaxLen /\ want \in 0..MaxLen /\ Take(want)
        BY <2>6, SizeAssumption DEF SizeAssumption, Wake, QueueOK, Sleeping
      <3>2. QED
        BY <3>1, TakeContent DEF Fifo!Next
    <2>7. CASE UNCHANGED vars
      BY <2>7 DEF vars, content, Fifo!vars
    <2>8. QED
      BY <2>1, <2>2, <2>3, <2>4, <2>5, <2>6, <2>7 DEF Next
  <1>3. QED
    BY <1>1, <1>2, AlwaysInv, PTL DEF Spec, FifoImplemented, Fifo!Spec
=============================================================================
