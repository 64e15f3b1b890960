------------------------------ MODULE Chunking -------------------------------
(***************************************************************************)
(* pipeline/chunking.py: pack_chunks puts the changed files of a pull      *)
(* request into the chunks that become LLM prompts, first fit, largest     *)
(* file first, under three limits.  One step is one turn of its loop.  A   *)
(* file is its position in the list, and all that matters of it is the     *)
(* length of its patch.                                                    *)
(***************************************************************************)
EXTENDS Naturals, Sequences, FiniteSets

CONSTANTS
  FileLists,      \* the lists pack_chunks may be called with: patch lengths
  MaxFiles,       \* pipeline.max_files
  MaxChunks,      \* pipeline.max_chunks
  MaxChunkChars   \* pipeline.max_chunk_chars

ASSUME FileListsAssumption == FileLists \subseteq Seq(Nat)
\* PipelineConfig: ge=1
ASSUME PackLimitsAssumption ==
  MaxFiles \in Nat \ {0} /\ MaxChunks \in Nat \ {0} /\ MaxChunkChars \in Nat \ {0}

VARIABLES
  size,          \* the length of each file's patch
  waiting,       \* files the loop has not reached
  chunks_files,  \* the files of each chunk
  chunks_sizes,  \* what the code takes for the size of each chunk
  skipped,       \* files left out of the review
  placed_count

packVars == <<size, waiting, chunks_files, chunks_sizes, skipped, placed_count>>

PackInit ==
  /\ size \in FileLists
  /\ waiting = DOMAIN size
  /\ chunks_files = <<>>
  /\ chunks_sizes = <<>>
  /\ skipped = {}
  /\ placed_count = 0

-----------------------------------------------------------------------------
\* sorted(files, key=_file_size, reverse=True), which is stable.
TriedBefore(f, g) == size[f] > size[g] \/ (size[f] = size[g] /\ f < g)

IsNext(f) ==
  /\ f \in waiting
  /\ \A g \in waiting \ {f} : TriedBefore(f, g)

\* Mutants of Room: a chunk may not be filled to the brim; only the latest
\* chunk is looked at.
Mutant_StrictRoom(f) ==
  {i \in DOMAIN chunks_sizes : chunks_sizes[i] + size[f] < MaxChunkChars}
Mutant_LastChunkOnly(f) ==
  {i \in DOMAIN chunks_sizes : /\ i = Len(chunks_sizes)
                               /\ chunks_sizes[i] + size[f] <= MaxChunkChars}

\* The chunks that file f still fits into.
Room(f) ==
  {i \in DOMAIN chunks_sizes : chunks_sizes[i] + size[f] <= MaxChunkChars}

\* Mutant of AtFileLimit: off by one.
Mutant_OneFileTooMany == placed_count > MaxFiles

\* placed_count >= max_files
AtFileLimit == placed_count >= MaxFiles

\* Mutant of TooLarge: a file that fills a chunk by itself is left out.
Mutant_FillsChunk(f) == size[f] >= MaxChunkChars

\* size > max_chunk_chars
TooLarge(f) == size[f] > MaxChunkChars

\* Mutant of SkipFile: the name is not kept for the "Not reviewed" section.
Mutant_ForgetSkipped(f) ==
  /\ AtFileLimit \/ TooLarge(f) \/ (Room(f) = {} /\ Len(chunks_files) >= MaxChunks)
  /\ UNCHANGED <<skipped, chunks_files, chunks_sizes, placed_count>>

\* The three ways of leaving a file out.
SkipFile(f) ==
  /\ AtFileLimit \/ TooLarge(f) \/ (Room(f) = {} /\ Len(chunks_files) >= MaxChunks)
  /\ skipped' = skipped \cup {f}
  /\ UNCHANGED <<chunks_files, chunks_sizes, placed_count>>

OpenChunk(f) ==
  /\ ~AtFileLimit /\ ~TooLarge(f) /\ Room(f) = {}
  /\ Len(chunks_files) < MaxChunks
  /\ chunks_files' = Append(chunks_files, {f})
  /\ chunks_sizes' = Append(chunks_sizes, size[f])
  /\ placed_count' = placed_count + 1
  /\ UNCHANGED skipped

\* Mutant of AddToChunk: the size of the chunk is not brought up to date.
Mutant_StaleSize(f) ==
  /\ ~AtFileLimit /\ ~TooLarge(f)
  /\ \E i \in Room(f) :
       /\ \A k \in Room(f) : i <= k
       /\ chunks_files' = [chunks_files EXCEPT ![i] = @ \cup {f}]
  /\ placed_count' = placed_count + 1
  /\ UNCHANGED <<chunks_sizes, skipped>>

\* The first chunk with room takes the file.
AddToChunk(f) ==
  /\ ~AtFileLimit /\ ~TooLarge(f)
  /\ \E i \in Room(f) :
       /\ \A k \in Room(f) : i <= k
       /\ chunks_files' = [chunks_files EXCEPT ![i] = @ \cup {f}]
       /\ chunks_sizes' = [chunks_sizes EXCEPT ![i] = @ + size[f]]
  /\ placed_count' = placed_count + 1
  /\ UNCHANGED skipped

Turn(f) ==
  /\ IsNext(f)
  /\ waiting' = waiting \ {f}
  /\ SkipFile(f) \/ OpenChunk(f) \/ AddToChunk(f)
  /\ UNCHANGED size

Packed == waiting = {} /\ UNCHANGED packVars

PackNext == (\E f \in waiting : Turn(f)) \/ Packed

PackSpec == PackInit /\ [][PackNext]_packVars

-----------------------------------------------------------------------------
(* Correctness.                                                            *)

Files == DOMAIN size
Chunks == DOMAIN chunks_sizes

PackTypeOK ==
  /\ size \in Seq(Nat)
  /\ waiting \subseteq Files
  /\ chunks_files \in Seq(SUBSET Files)
  /\ chunks_sizes \in Seq(Nat)
  /\ Len(chunks_sizes) = Len(chunks_files)
  /\ skipped \subseteq Files
  /\ placed_count \in Nat

\* No prompt outgrows the limits the operator sets for the model.
WithinLimits ==
  /\ Len(chunks_files) <= MaxChunks
  /\ placed_count <= MaxFiles
  /\ \A i \in Chunks : chunks_sizes[i] <= MaxChunkChars

\* The numbers of the list ns at the positions in S, added up from the front.
AddedUp(ns, S) ==
  LET upto[k \in 0 .. Len(ns)] ==
        IF k = 0 THEN 0 ELSE upto[k - 1] + (IF k \in S THEN ns[k] ELSE 0)
  IN upto
TotalOf(S) == AddedUp(size, S)[Len(size)]

\* The running totals are what they stand for: the patches in a chunk, and
\* the files in all chunks.
TotalsAreTrue ==
  /\ \A i \in Chunks : chunks_sizes[i] = TotalOf(chunks_files[i])
  /\ placed_count = Cardinality(UNION {chunks_files[i] : i \in Chunks})

\* No file is lost or reviewed twice: it waits, is skipped, and so named under
\* "Not reviewed due to size", or is in exactly one chunk.
PlacedIn(f) == {i \in Chunks : f \in chunks_files[i]}
EveryFileAccountedFor ==
  \A f \in Files :
    \/ f \in waiting /\ f \notin skipped /\ PlacedIn(f) = {}
    \/ f \notin waiting /\ f \in skipped /\ PlacedIn(f) = {}
    \/ /\ f \notin waiting /\ f \notin skipped
       /\ \E i \in Chunks : PlacedIn(f) = {i}

\* A file is skipped only for want of room: at the end there is still no
\* chunk it could join and none to be opened for it.
SkippedForAReason ==
  \A f \in skipped :
    \/ size[f] > MaxChunkChars
    \/ placed_count = MaxFiles
    \/ /\ Len(chunks_files) = MaxChunks
       /\ \A i \in Chunks : chunks_sizes[i] + size[f] > MaxChunkChars

\* No LLM request is wasted: no two chunks would fit into one, so at most one
\* of them is half empty.
NoTwoChunksFitInOne ==
  \A i, k \in Chunks :
    i # k => chunks_sizes[i] + chunks_sizes[k] > MaxChunkChars

\* prepare gives up on a pull request without chunks as not reviewable.  That
\* happens only if each of its files exceeds a chunk.
NothingPackedNothingFits ==
  waiting = {} /\ chunks_files = <<>> =>
    \A f \in Files : size[f] > MaxChunkChars

\* What makes the invariants inductive, together with TotalsAreTrue.
PackInv ==
  /\ PackTypeOK
  /\ WithinLimits
  /\ placed_count > 0 => chunks_files # <<>>
  /\ EveryFileAccountedFor
  /\ SkippedForAReason
  /\ NoTwoChunksFitInOne

=============================================================================
