------------------------------- MODULE Chunks -------------------------------
(***************************************************************************)
(* How the active cores of a parallel test share a segment of the window   *)
(* (calculate_chunk, tests/test_helper.c) and how a core walks over its    *)
(* chunk in blocks, with a tick after each (the loops of all tests).       *)
(*                                                                         *)
(* Addresses count test words.  A segment is an entry of vm_map: its first *)
(* and its last word and the proximity domain it belongs to.               *)
(***************************************************************************)
EXTENDS Integers, Sequences, FiniteSets

\* round_down, round_up
RoundDown(value, align) == value - (value % align)
RoundUp(value, align) == RoundDown(value + align - 1, align)

\* The chunk of the core with chunk_index k among n cores.
Share(seg, n, k, align) ==
  LET size == RoundDown((seg.end - seg.start + 1) \div n, align)
      start == seg.start + size * k
      end == start + size - 1
  IN [start |-> start, end |-> IF end > seg.end THEN seg.end ELSE end]

\* What a core of another proximity domain gets: no word.
NoChunk == [start |-> 1, end |-> 0]

Empty(chunk) == chunk.end < chunk.start

Words(chunk) == chunk.start .. chunk.end

-----------------------------------------------------------------------------
(***************************************************************************)
(* domains[k] is the proximity domain of the k-th enabled core.            *)
(***************************************************************************)
Cores(domains) == 1 .. Len(domains)

Used(domains, d) == {k \in Cores(domains) : domains[k] = d}

\* chunk_index as global_init sets it: the number of the core among those of
\* its domain, or among all.
ChunkIndex(domains, numa, c) ==
  Cardinality({k \in Cores(domains) :
                 k < c /\ (numa => domains[k] = domains[c])})

\* calculate_chunk
CalculateChunk(domains, numa, c, seg, align) ==
  IF Len(domains) = 1 THEN [start |-> seg.start, end |-> seg.end]
  ELSE IF ~numa
  THEN Share(seg, Len(domains), ChunkIndex(domains, numa, c), align)
  ELSE IF domains[c] = seg.domain
  THEN Share(seg, Cardinality(Used(domains, seg.domain)),
             ChunkIndex(domains, numa, c), align)
  ELSE NoChunk

-----------------------------------------------------------------------------
(***************************************************************************)
(* The walk over a chunk: the last word of the block that begins at p when *)
(* going up, the first word of the block that ends at p when going down.   *)
(***************************************************************************)
BlockEnd(p, end, spin) == IF end - p >= spin THEN p + spin - 1 ELSE end

BlockStart(p, start, spin) == IF p - start >= spin THEN p - spin + 1 ELSE start

=============================================================================
