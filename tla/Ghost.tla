-------------------------------- MODULE Ghost --------------------------------
(***************************************************************************)
(* The primitives of libghost the SDK is built on, as src/ uses them: only *)
(* their headers and object files are in the repository                    *)
(* (component/aispeech/ghost/include/gh_ringbuf.h, gh_queue.h).            *)
(*                                                                         *)
(* A ring buffer is abstracted to the condition of its flags; the audio in *)
(* it is not represented.  "closed" is a buffer on which gh_ringbuf_start  *)
(* was never called.                                                       *)
(***************************************************************************)
EXTENDS Naturals, Sequences

RingStatus == {"closed", "open", "finished", "aborted"}

\* gh_ringbuf_start clears the abort and the finish flag, whatever they were.
RingStart(r) == "open"

\* gh_ringbuf_abort ends every read and write until the next start.
RingAbort(r) == "aborted"

\* gh_ringbuf_finish closes the writing end; an abort flag stays visible.
RingFinish(r) == IF r = "aborted" THEN "aborted" ELSE "finished"

(***************************************************************************)
(* gh_ringbuf_can_read may answer that the buffer is alive (there is data, *)
(* or none came in time) or that it is over (aborted, or finished and      *)
(* read to its end): a finished buffer may be either.                      *)
(***************************************************************************)
CanReadAlive(r) == r # "aborted"
CanReadOver(r)  == r \in {"aborted", "finished"}

\* A reader of such a buffer stays in gh_ringbuf_blocked_read.
ReaderStays(r) == r \in {"closed", "open"}

\* m is waiting in the queue s.
In(m, s) == \E i \in 1 .. Len(s) : s[i] = m
==============================================================================
