---------------------------- MODULE BufferCache ----------------------------
(***************************************************************************)
(* cache::simple over traits::shared: a bounded FIFO of buffers kept for     *)
(* reuse.  A buffer is a number, the heap a sequence of contents indexed by  *)
(* it; a cache is the sequence of the numbers it keeps.  With the dummy      *)
(* mutex or a real one, each operation is one step of its caller.            *)
(***************************************************************************)
EXTENDS Naturals, Sequences

\* ValueTrait::create: a buffer nobody else has.
CacheCreate(heap) == Len(heap) + 1

\* Mutant: the buffer that is given out stays in the cache.
MutantCacheRest(cache) == cache

\* get(): the oldest buffer kept, or a new one; and what is left.
CacheGet(cache, heap) == IF cache = <<>> THEN CacheCreate(heap) ELSE Head(cache)
CacheRest(cache)      == IF cache = <<>> THEN cache ELSE Tail(cache)

\* push(): one buffer too many is dropped, and so is every buffer of a cache
\* that keeps none.
CachePush(cache, b, maximum) ==
    IF maximum > 0 /\ Len(cache) < maximum THEN Append(cache, b) ELSE cache

\* The heap once content has been assigned to buffer b.
Assigned(heap, b, content) ==
    IF b > Len(heap) THEN Append(heap, content) ELSE [heap EXCEPT ![b] = content]
=============================================================================
