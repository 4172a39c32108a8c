------------------------------ MODULE MCBmpOut ------------------------------
(* Instances of BmpOut for TLC. *)
EXTENDS BmpOut

SX == INSTANCE SequencesExt
FX == INSTANCE FiniteSetsExt

BytesOf(s) == LET add(u, n) == shallow_bytes(u) + n IN SX!FoldRight(add, s, 0)

\* The counters behind the buffer cap agree with what is buffered: per client
\* and in the process-wide gauge, also after an aborted dump, an update that is
\* buffered into a client already discarded, and the drop of a client.
BufferAccounting ==
    /\ \A c \in Clients : /\ buffered_bytes[c] = BytesOf(dump_buffer[c])
                          /\ buffered_bytes[c] <= MaxBufferBytes
                          /\ Len(dump_buffer[c]) <= MaxBufferEntries
    /\ gauge = FX!MapThenSumSet(LAMBDA c : buffered_bytes[c], Clients)
=============================================================================
