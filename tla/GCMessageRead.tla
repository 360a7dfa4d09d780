---------------------------- MODULE GCMessageRead ----------------------------
(***************************************************************************)
(* GCMessageRead (src/csgo_gc/gc_message.cpp): a message's bytes and how   *)
(* far they have been read.                                                *)
(***************************************************************************)
EXTENDS Naturals, Sequences

CONSTANT SizeLimit   \* 2^32: sizes and offsets are kept in 32 bits

VARIABLES
  buffer,    \* m_data and m_size
  offset,    \* m_offset
  error,     \* m_error
  got        \* what the reads have returned

\* ReadData's check, of a sum that the shipped builds keep in 32 bits.  What a build reads
\* when the sum wraps around is not modelled: SizeAssumption keeps the sizes below it.
Fits(n) == (offset + n) % SizeLimit <= Len(buffer)

NextBytes(n) == SubSeq(buffer, offset + 1, offset + n)

\* ReadData, whose caller keeps the bytes, or what it has of them if there is nothing
\* to read.
ReadData(n, instead) ==
  IF ~error /\ Fits(n)
    THEN /\ offset' = (offset + n) % SizeLimit
         /\ got' = Append(got, NextBytes(n))
         /\ error' = error
    ELSE /\ error' = TRUE
         /\ got' = Append(got, instead)
         /\ offset' = offset

\* ReadData, whose caller does not look at the bytes.
PassOver(n) ==
  /\ error' = (error \/ ~Fits(n))
  /\ offset' = IF error' THEN offset ELSE (offset + n) % SizeLimit
  /\ got' = got

\* ReadString: up to the first zero there is, which is skipped.
Zeros == {i \in DOMAIN buffer : i > offset /\ buffer[i] = 0}

ReadToZero ==
  \/ /\ ~error
     /\ \E z \in Zeros :
          /\ \A j \in Zeros : z <= j
          /\ offset' = z
          /\ got' = Append(got, SubSeq(buffer, offset + 1, z - 1))
     /\ error' = error
  \/ /\ error \/ Zeros = {}
     /\ error' = TRUE
     /\ got' = Append(got, <<>>)
     /\ offset' = offset
=============================================================================
