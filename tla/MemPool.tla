------------------------------ MODULE MemPool ------------------------------
(***************************************************************************)
(* kernel/mempool.c: a pool of fixed-size blocks, as a value.  Blocks are  *)
(* numbered by their position in the pool's storage; free_list is the      *)
(* linked list through the free blocks, head first.                        *)
(***************************************************************************)
EXTENDS Integers, Sequences

\* The list is built by pushing the blocks in address order: last block first.
os_mempool_init(block_count) ==
    [block_count |-> block_count,
     free_list   |-> [i \in 1 .. block_count |-> block_count - i],
     free_count  |-> block_count]

\* The block handed out, if any, and the pool after the call.
\* Mutant: the head is read but not unlinked.
os_mempool_alloc_peek(pool, null) ==
    [ptr |-> IF pool.free_list = << >> THEN null ELSE Head(pool.free_list), pool |-> pool]

os_mempool_alloc(pool, null) ==
    IF pool.free_list = << >>
      THEN [ptr |-> null, pool |-> pool]
      ELSE [ptr  |-> Head(pool.free_list),
            pool |-> [pool EXCEPT !.free_list = Tail(@), !.free_count = @ - 1]]

\* A pointer that is not the start of a block of the pool is refused; one to
\* a block that is free already is not.
os_mempool_free(pool, ptr) ==
    IF ptr \notin 0 .. pool.block_count - 1
      THEN pool
      ELSE [pool EXCEPT !.free_list = <<ptr>> \o @, !.free_count = @ + 1]
=============================================================================
