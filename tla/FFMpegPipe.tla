---------------------------- MODULE FFMpegPipe ----------------------------
(***************************************************************************)
(* The pipe between the streaming thread and the task of a push mode       *)
(* ffmpeg demuxer: gstffmpegpipe.h and the gstpipe:// protocol of          *)
(* gstffmpegprotocol.c.                                                    *)
(*                                                                         *)
(* Both threads wait on the one condition of the pipe, and are woken by    *)
(* g_cond_signal, which wakes one of those that wait, any of them.         *)
(* sleeping is the set of threads in g_cond_wait that are not signalled    *)
(* yet; a signalled thread goes on when it gets tlock again.  What a       *)
(* thread does between getting and releasing tlock is one step.            *)
(***************************************************************************)
EXTENDS Integers

VARIABLES
    eos,        \* ffpipe->eos
    srcresult,  \* ffpipe->srcresult
    available,  \* bytes in ffpipe->adapter
    needed,     \* ffpipe->needed
    sleeping    \* threads that wait for the condition

pvars == <<eos, srcresult, available, needed, sleeping>>

Threads == {"streaming", "loop"}

Flow == {"OK", "NOT_LINKED", "WRONG_STATE", "UNEXPECTED", "ERROR"}

PipeTypeOK ==
    /\ eos \in BOOLEAN
    /\ srcresult \in Flow
    /\ available \in Nat /\ needed \in Nat
    /\ sleeping \subseteq Threads

(* The sets of sleeping threads after g_cond_signal.                       *)
Signalled == IF sleeping = {} THEN {{}} ELSE {sleeping \ {t} : t \in sleeping}

GST_FFMPEG_PIPE_SIGNAL == sleeping' \in Signalled

(* Mutant: the thread waits and has not signalled the other.               *)
WaitUnsignalled(t) == sleeping' = sleeping \cup {t}

(* GST_FFMPEG_PIPE_SIGNAL, then GST_FFMPEG_PIPE_WAIT by thread t.          *)
SIGNAL_AND_WAIT(t) == \E S \in Signalled : sleeping' = S \cup {t}

GST_FFMPEG_PIPE_WAIT(t) == sleeping' = sleeping \cup {t}

-----------------------------------------------------------------------------
(* gst_ffmpeg_pipe_read of size bytes: wait for them ...                   *)
pipe_read_wait(size) ==
    /\ available < size /\ ~eos
    /\ needed' = size
    /\ SIGNAL_AND_WAIT("loop")
    /\ UNCHANGED <<eos, srcresult, available>>

(* ... then take them, or what is left at the end of the stream.           *)
pipe_read_take(size) ==
    LET got == IF available < size THEN available ELSE size IN
    /\ available >= size \/ eos
    /\ available' = available - got
    /\ needed' = IF got > 0 THEN 0 ELSE needed
    /\ UNCHANGED <<eos, srcresult, sleeping>>

=============================================================================
