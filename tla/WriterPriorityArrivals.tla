------------------------ MODULE WriterPriorityArrivals -----------------------
(***************************************************************************)
(* WriterPriorityLock with a history variable that remembers which readers *)
(* called readLock after a writer had joined the queue.                    *)
(***************************************************************************)
EXTENDS WriterPriorityLock

VARIABLE behind   \* behind[w]: the readers that called readLock while w was queued

\* A writer is queued once ++writeCount_ has counted it, until it gets in.
Queued(w) == pc[w] \in {"WL_wait_rsem", "WL_post_mutex2", "WL_wait_wrt"}

HInit == Init /\ behind = [w \in Writers |-> {}]

HNext ==
    /\ Next
    /\ behind' = [w \in Writers |->
                    IF Queued(w)
                    THEN behind[w] \cup {r \in Readers : pc[r] = "idle" /\ pc'[r] # "idle"}
                    ELSE {}]

HSpec == HInit /\ [][HNext]_<<vars, behind>>

\* "a queued writer blocks all new readers" (config.hpp): a reader whose
\* request came after the writer was queued does not get in before it.
QueuedWriterBlocksNewReaders ==
    \A w \in Writers : Queued(w) => \A r \in behind[w] : Mode(r) # "in"
=============================================================================
