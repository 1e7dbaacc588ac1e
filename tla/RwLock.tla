------------------------------- MODULE RwLock -------------------------------
(***************************************************************************)
(* ReadWriteLockBase: one atomic word that holds a bit for the writer that    *)
(* writes, a bit for writers that wait, and the number of readers.  A          *)
(* thread that cannot go on spins, so that an operation is its successful       *)
(* compare-and-swap.                                                            *)
(***************************************************************************)
EXTENDS Naturals

VARIABLE word       \* state_

InitLock == word = [writing |-> FALSE, waiting |-> FALSE, readers |-> 0]

\* A reader stays out while a writer writes or waits.
ReadLock ==
    /\ ~word.writing /\ ~word.waiting
    /\ word' = [word EXCEPT !.readers = @ + 1]

ReadUnlock == word' = [word EXCEPT !.readers = @ - 1]

\* writeLock announces the writer, then waits until nobody is in.
MarkWaiting == word' = [word EXCEPT !.waiting = TRUE]

\* A mutant of NobodyIn: readers are not waited for.
NoWriterIn == ~word.writing
NobodyIn == ~word.writing /\ word.readers = 0

\* It takes the waiting bit away, which may have been another writer's.
WriteLock ==
    /\ NobodyIn
    /\ word' = [word EXCEPT !.writing = TRUE, !.waiting = FALSE]

WriteUnlock == word' = [word EXCEPT !.writing = FALSE]
=============================================================================
