----------------------------- MODULE FileBytes ------------------------------
(* A file as a sequence of bytes with holes.                                *)
EXTENDS Integers, Sequences, SequencesExt, FiniteSetsExt

CONSTANTS Zero,     \* the byte a hole is filled with
          NL        \* the byte '\n'

ASSUME ByteAssumption == NL # Zero

\* A byte of a file, a hole or the void behind the end reading as Zero.
At(c, i) == IF i \in DOMAIN c THEN c[i] ELSE Zero

\* c with the bytes of d at offset off.
Overlay(c, off, d) ==
  IF d = <<>> THEN c
  ELSE [i \in 1..Max({Len(c), off + Len(d)}) |->
          IF i \in off+1..off+Len(d) THEN d[i - off] ELSE At(c, i)]

\* c cut, or filled with zeros, to n bytes.
Resize(c, n) == [i \in 1..n |-> At(c, i)]

Rest(c, at) == SubSeq(c, at + 1, Len(c))
=============================================================================
