-------------------------------- MODULE Arena --------------------------------
(* The arena in which a memtable has its entries and the nodes of its skip  *)
(* list (leveldb-library/util/arena.h, arena.cc): pieces of blocks, freed   *)
(* all at once.  A pointer is a block and an offset in it.                  *)
EXTENDS Naturals, SequencesExt, FiniteSets

CONSTANTS ArenaBlockSize,  \* kBlockSize
          Align,           \* of a pointer
          PointerSize,     \* sizeof(char*)
          Requests,        \* bytes that are asked for
          MaxPieces        \* bound on the allocations

VARIABLES arena,  \* [blocks (their sizes), ptr, remaining, usage]
          pieces  \* what was handed out: [block, from, bytes, aligned]

vars == <<arena, pieces>>

\* alloc_ptr_ begins as nullptr.
Nowhere == [block |-> 0, offset |-> 0]
Init ==
  /\ arena = [blocks |-> <<>>, ptr |-> Nowhere, remaining |-> 0, usage |-> 0]
  /\ pieces = <<>>

AllocateNewBlock(a, bytes) ==
  [a EXCEPT !.blocks = Append(@, bytes), !.usage = @ + bytes + PointerSize]
Bump(a, bytes) == [a EXCEPT !.ptr.offset = @ + bytes, !.remaining = @ - bytes]

\* Something large gets a block of its own, the current one goes on being used;
\* for anything else the rest of the current block is given up.
Large(bytes) == bytes > ArenaBlockSize \div 4
FreshBlock(a) ==
  [AllocateNewBlock(a, ArenaBlockSize)
     EXCEPT !.ptr = [block |-> Len(a.blocks) + 1, offset |-> 0], !.remaining = ArenaBlockSize]
AllocateFallback(bytes) ==
  [arena |-> IF Large(bytes) THEN AllocateNewBlock(arena, bytes) ELSE Bump(FreshBlock(arena), bytes),
   at |-> [block |-> Len(arena.blocks) + 1, offset |-> 0]]

\* The current block, slop bytes further on, or the fallback.
Slop == (Align - (arena.ptr.offset % Align)) % Align
Obtained(bytes, slop) ==
  IF bytes + slop <= arena.remaining
  THEN [arena |-> Bump(arena, bytes + slop), at |-> [arena.ptr EXCEPT !.offset = @ + slop]]
  ELSE AllocateFallback(bytes)
Handed(got, bytes, aligned) ==
  /\ Len(pieces) < MaxPieces
  /\ arena' = got.arena
  /\ pieces' = Append(pieces, [block |-> got.at.block, from |-> got.at.offset, bytes |-> bytes,
                               aligned |-> aligned])
Allocate(bytes) == Handed(Obtained(bytes, 0), bytes, FALSE)
AllocateAligned(bytes) == Handed(Obtained(bytes, Slop), bytes, TRUE)
Next == \E bytes \in Requests : Allocate(bytes) \/ AllocateAligned(bytes)
----------------------------------------------------------------------------
Within(p) == p.block \in DOMAIN arena.blocks /\ p.from + p.bytes <= arena.blocks[p.block]
Apart(p, q) == p.block # q.block \/ p.from + p.bytes <= q.from \/ q.from + q.bytes <= p.from

\* What is handed out lies within a block and shares no byte with anything else
\* nor with what is still to be handed out, is aligned if asked for, and the
\* memory is accounted for.
PiecesApart ==
  /\ \A i \in DOMAIN pieces :
       /\ Within(pieces[i])
       /\ pieces[i].aligned => pieces[i].from % Align = 0
       /\ \A j \in 1..(i - 1) : Apart(pieces[i], pieces[j])
       /\ Apart(pieces[i], [block |-> arena.ptr.block, from |-> arena.ptr.offset,
                            bytes |-> arena.remaining])
  /\ arena.usage = FoldLeft(LAMBDA sum, size : sum + size + PointerSize, 0, arena.blocks)
=============================================================================
