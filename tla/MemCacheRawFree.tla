--------------------------- MODULE MemCacheRawFree ---------------------------
(***************************************************************************)
(* MemCache with the one kind of caller that goes around it: compiler.c    *)
(* gives the message of get_last_error, a block of the namespace "I/O"     *)
(* (src/src/io/files.c:336-338), to free of the C library as soon as it    *)
(* has printed it, in setup_target_environment and print_ast_to_file.      *)
(***************************************************************************)
EXTENDS MemCache

\* free(message): the heap loses the block, the table of the cache keeps it,
\* and the caller returns.
LibcFree(r) ==
  /\ phase = "running"
  /\ Reallocatable(r)
  /\ heap' = [heap EXCEPT ![refs[r].ptr] = Free]
  /\ refs' = [refs EXCEPT ![r] = Null]
  /\ UNCHANGED <<phase, nsState, blocks, statistic, allocated, faults>>

NextRaw == Next \/ \E r \in Ref : LibcFree(r)
SpecRaw == Init /\ [][NextRaw]_vars /\ Fairness

\* src/src/mem/cache.h:33: "Must only be freed with mem_free() or
\* mem_free_from()", so that the cache, which purges the namespace or cleans
\* up at exit, frees no block a second time.
NothingFreedTwice == "double_free" \notin faults
=============================================================================
