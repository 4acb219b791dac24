------------------------------ MODULE ByteFifo ------------------------------
(***************************************************************************)
(* What an audio queue promises: the bytes come out in the order they went *)
(* in, each once; a write is taken whole or not at all; a read takes as    *)
(* many as were asked for, or all there are.                               *)
(***************************************************************************)
EXTENDS Naturals, Sequences

CONSTANTS
  Capacity,  \* how many bytes the queue holds
  Chunks,    \* the sequences of bytes a writer may pass
  MaxLen     \* the most bytes a reader asks for

VARIABLES
  content,  \* the bytes in the queue, oldest first
  got       \* the bytes the last read returned

vars == <<content, got>>

Init == content = <<>> /\ got = <<>>

Write(chunk) ==
  /\ Len(content) + Len(chunk) <= Capacity
  /\ content' = content \o chunk
  /\ UNCHANGED got

Read(n) ==
  LET count == IF n < Len(content) THEN n ELSE Len(content)
  IN  /\ got' = SubSeq(content, 1, count)
      /\ content' = SubSeq(content, count + 1, Len(content))

Clear == content' = <<>> /\ UNCHANGED got

Next ==
  \/ \E chunk \in Chunks : Write(chunk)
  \/ \E n \in 1..MaxLen : Read(n)
  \/ Clear

Spec == Init /\ [][Next]_vars
=============================================================================
