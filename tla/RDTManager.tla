----------------------------- MODULE RDTManager -----------------------------
(***************************************************************************)
(* One session of rdtmanager.c: the upstream streaming thread that chains  *)
(* RDT buffers into the jitter buffer, the task of the source pad that     *)
(* pushes packets downstream, and the application thread that takes the    *)
(* element to READY and back to PAUSED.                                    *)
(*                                                                         *)
(* Everything between JBUF_LOCK and JBUF_UNLOCK or JBUF_WAIT is one step,  *)
(* except the pop of the loop: session->discont is written by the chain    *)
(* function without the lock, so reading and clearing it are two steps,    *)
(* between which the lock is held.  The eos and blocked fields are never   *)
(* set by the code; the branches of the loop they guard are left out.      *)
(***************************************************************************)
EXTENDS RDTJitterBuffer

CONSTANTS
    MaxArrivals,    \* bound: packets that arrive in a behaviour
    MaxRestarts     \* bound: times the element goes to READY

(* The packets of a behaviour are close enough to be compared.             *)
ASSUME ManagerAssumption ==
    /\ MaxArrivals \in Nat /\ MaxRestarts \in Nat
    /\ \A m, n \in Stream : m - n < Margin

VARIABLES
    active,      \* session->active
    srcresult,   \* session->srcresult
    waiting,     \* session->waiting
    discont,     \* session->discont
    signalled,   \* the thread in JBUF_WAIT has been signalled
    task,        \* state of the task of recv_rtp_src
    loop,        \* where gst_rdt_manager_loop is
    mark,        \* GST_BUFFER_FLAG_DISCONT of the popped buffer
    result,      \* result of gst_pad_push
    chain,       \* where gst_rdt_manager_chain_rdt is
    buffer,      \* packets of the chained buffer not handled yet
    app,         \* progress of the application's state change
    flushing,    \* recv_rtp_src is flushing
    walked,      \* the last state change deactivated recv_rtp_src
    eosIn,       \* upstream sent EOS
    eosOut,      \* EOS went downstream
    arrived,     \* packets that arrived, counted
    restarts,    \* state changes to READY, counted
    accepted,    \* history: insertions of each packet
    pushed       \* history: pushes of each packet

svars == <<srcresult, waiting, discont, signalled>>
lvars == <<loop, mark, result>>
cvars == <<active, chain, buffer>>
evars == <<app, flushing, walked, eosIn, eosOut, arrived, restarts>>
hvars == <<accepted, pushed>>

vars == <<jvars, svars, task, lvars, cvars, evars, hvars>>

Flow == {"OK", "WRONG_STATE", "UNEXPECTED", "ERROR"}

TypeOK ==
    /\ JTypeOK
    /\ srcresult \in Flow /\ result \in Flow
    /\ {active, waiting, discont, signalled, mark, flushing, walked, eosIn, eosOut}
          \subseteq BOOLEAN
    /\ task \in {"stopped", "started", "paused"}
    /\ loop \in {"idle", "wait", "popped", "push", "pause"}
    /\ chain \in {"idle", "adding", "packets"}
    /\ app \in {"playing", "stopping", "joining", "sink", "ready"}
    /\ buffer \in Seq(Stream)
    /\ arrived \in 0 .. MaxArrivals /\ restarts \in 0 .. MaxRestarts
    /\ accepted \in [Stream -> Nat] /\ pushed \in [Stream -> Nat]

Init ==
    /\ JInit
    /\ srcresult = "OK" /\ result = "OK"
    /\ active = FALSE /\ waiting = FALSE /\ discont = FALSE
    /\ signalled = FALSE /\ mark = FALSE
    /\ flushing = TRUE /\ walked = FALSE /\ eosIn = FALSE /\ eosOut = FALSE
    /\ task = "stopped" /\ loop = "idle" /\ chain = "idle" /\ app = "playing"
    /\ buffer = <<>>
    /\ arrived = 0 /\ restarts = 0
    /\ accepted = [n \in Stream |-> 0] /\ pushed = [n \in Stream |-> 0]

-----------------------------------------------------------------------------
(* The loop holds jbuf_lock between its two accesses to session->discont.  *)
jbuf_unlocked == loop # "popped"

(* Mutant: the signal is missing.                                          *)
no_signal == UNCHANGED signalled

(* JBUF_SIGNAL: wakes the loop if it is waiting, otherwise does nothing.   *)
JBUF_SIGNAL == signalled' = (signalled \/ loop = "wait")

(* gst_pad_pause_task has no effect once gst_pad_stop_task was called.     *)
gst_pad_pause_task == task' = IF task = "stopped" THEN "stopped" ELSE "paused"

(* activate_session creates recv_rtp_src and activates it, which allows    *)
(* data processing and starts its task; the state change of the element    *)
(* does not know the pad until gst_element_add_pad.                        *)
src_activate_push ==
    /\ jbuf_unlocked
    /\ srcresult' = "OK"
    /\ task' = "started"
    /\ flushing' = FALSE

-----------------------------------------------------------------------------
(* The upstream streaming thread.                                          *)

SinkActive == app \in {"playing", "stopping", "joining"}

(* A buffer with one or two packets arrives at recv_rtp_sink.              *)
Buffers == {<<n>> : n \in Stream} \cup {<<m, n>> : m, n \in Stream}

ChainActivate ==
    /\ ~active
    /\ src_activate_push
    /\ chain' = "adding"
    /\ UNCHANGED discont

ChainRunning(d) ==
    /\ active
    /\ chain' = "packets"
    /\ discont' = (discont \/ d)
    /\ UNCHANGED <<srcresult, task, flushing>>

gst_rdt_manager_chain_rdt(b, d) ==
    /\ chain = "idle" /\ SinkActive /\ ~eosIn
    /\ arrived + Len(b) <= MaxArrivals
    /\ ChainActivate \/ ChainRunning(d)
    /\ buffer' = b
    /\ arrived' = arrived + Len(b)
    /\ UNCHANGED <<jvars, waiting, signalled, lvars, active, hvars,
                   app, walked, eosIn, eosOut, restarts>>

(* The end of activate_session, and the discont flag of the buffer.        *)
gst_element_add_pad(d) ==
    /\ chain = "adding"
    /\ chain' = "packets"
    /\ active' = TRUE
    /\ discont' = (discont \/ d)
    /\ UNCHANGED <<jvars, srcresult, waiting, signalled, task, lvars, buffer,
                   evars, hvars>>

(* out_flushing: the packets left in the buffer are dropped.               *)
Refuse ==
    /\ srcresult # "OK"
    /\ chain' = "idle" /\ buffer' = <<>>
    /\ UNCHANGED <<jvars, signalled, accepted>>

(* Insert one packet, drop it when it is a duplicate, and wake the loop.   *)
Accept ==
    LET n == Head(buffer) IN
    /\ srcresult = "OK"
    /\ rdt_jitter_buffer_insert(n)
    /\ IF duplicate(n)
       THEN UNCHANGED <<signalled, accepted>>
       ELSE /\ IF waiting THEN JBUF_SIGNAL ELSE UNCHANGED signalled
            /\ accepted' = [accepted EXCEPT ![n] = @ + 1]
    /\ buffer' = Tail(buffer)
    /\ chain' = IF Len(buffer) = 1 THEN "idle" ELSE "packets"

gst_rdt_manager_handle_data_packet ==
    /\ chain = "packets" /\ jbuf_unlocked
    /\ Refuse \/ Accept
    /\ UNCHANGED <<srcresult, waiting, discont, task, lvars, active, evars, pushed>>

(* recv_rtp_sink has no event function: the default one forwards EOS to    *)
(* the source pads at once.                                                *)
SinkEos ==
    /\ chain = "idle" /\ SinkActive /\ ~eosIn
    /\ eosIn' = TRUE
    /\ eosOut' = (active /\ ~flushing)
    /\ UNCHANGED <<jvars, svars, task, lvars, cvars, hvars,
                   app, flushing, walked, arrived, restarts>>

-----------------------------------------------------------------------------
(* gst_rdt_manager_loop, run by the task of recv_rtp_src.                  *)

(* Mutant: the jitter buffer is emptied when the loop finds it flushing.   *)
flushing_drops ==
    /\ srcresult # "OK"
    /\ gst_pad_pause_task
    /\ loop' = "idle"
    /\ rdt_jitter_buffer_flush
    /\ UNCHANGED <<waiting, signalled, mark>>

(* The flushing label: the task is paused, packets stay queued.            *)
LoopFlushing ==
    /\ srcresult # "OK"
    /\ gst_pad_pause_task
    /\ loop' = "idle"
    /\ UNCHANGED <<jvars, waiting, signalled, mark>>

(* underrun, wait for packets or flushing                                  *)
LoopUnderrun ==
    /\ srcresult = "OK" /\ rdt_jitter_buffer_num_packets = 0
    /\ waiting' = TRUE /\ signalled' = FALSE
    /\ loop' = "wait"
    /\ UNCHANGED <<jvars, task, mark>>

LoopPop ==
    /\ srcresult = "OK"
    /\ rdt_jitter_buffer_pop
    /\ mark' = discont
    /\ loop' = "popped"
    /\ UNCHANGED <<task, signalled>>

LoopEnter ==
    /\ task = "started" /\ loop = "idle" /\ jbuf_unlocked
    /\ \/ LoopFlushing
       \/ LoopUnderrun
       \/ LoopPop /\ UNCHANGED waiting
    /\ UNCHANGED <<srcresult, discont, result, cvars, evars, hvars>>

(* JBUF_WAIT_CHECK returns.  When flushing, waiting stays set.             *)
LoopWake ==
    /\ loop = "wait" /\ signalled
    /\ \/ LoopFlushing
       \/ LoopUnderrun
       \/ LoopPop /\ waiting' = FALSE
    /\ UNCHANGED <<srcresult, discont, result, cvars, evars, hvars>>

(* Mutant: session->discont is cleared even when the buffer has no mark.   *)
clear_always ==
    /\ loop = "popped"
    /\ discont' = FALSE
    /\ loop' = "push"
    /\ UNCHANGED <<jvars, srcresult, waiting, signalled, task, mark, result,
                   cvars, evars, hvars>>

LoopClearDiscont ==
    /\ loop = "popped"
    /\ discont' = (discont /\ ~mark)
    /\ loop' = "push"
    /\ UNCHANGED <<jvars, srcresult, waiting, signalled, task, mark, result,
                   cvars, evars, hvars>>

(* What gst_pad_push can return.                                           *)
PushResults == (IF eosOut THEN {"UNEXPECTED"} ELSE {"OK", "ERROR"})
                  \cup (IF flushing THEN {"WRONG_STATE"} ELSE {})

LoopPush(r) ==
    /\ loop = "push"
    /\ r \in PushResults
    /\ result' = r
    /\ loop' = IF r = "OK" THEN "idle" ELSE "pause"
    /\ pushed' = [pushed EXCEPT ![popped] = @ + 1]
    /\ UNCHANGED <<jvars, svars, task, mark, cvars, evars, accepted>>

LoopPause ==
    /\ loop = "pause"
    /\ srcresult' = result
    /\ gst_pad_pause_task
    /\ loop' = "idle"
    /\ UNCHANGED <<jvars, waiting, discont, signalled, mark, result, cvars, evars, hvars>>

-----------------------------------------------------------------------------
(* The application thread: PAUSED to READY deactivates the source pads,    *)
(* then the sink pads; READY to PAUSED activates them again.               *)

(* src_activate_push (FALSE), the locked part.  A pad that is not yet      *)
(* added to the element is missed.                                         *)
AppStop ==
    /\ app = "playing" /\ restarts < MaxRestarts /\ jbuf_unlocked
    /\ restarts' = restarts + 1
    /\ walked' = active
    /\ IF active
       THEN /\ flushing' = TRUE
            /\ srcresult' = "WRONG_STATE"
            /\ JBUF_SIGNAL
            /\ app' = "stopping"
       ELSE /\ app' = "sink"
            /\ UNCHANGED <<flushing, srcresult, signalled>>
    /\ UNCHANGED <<jvars, waiting, discont, task, lvars, cvars, eosIn, eosOut,
                   arrived, hvars>>

(* gst_pad_stop_task ...                                                   *)
AppStopTask ==
    /\ app = "stopping"
    /\ app' = "joining"
    /\ task' = "stopped"
    /\ UNCHANGED <<jvars, svars, lvars, cvars, flushing, walked, eosIn, eosOut,
                   arrived, restarts, hvars>>

(* Mutant: the task is stopped but not joined.                             *)
no_join ==
    /\ app = "joining"
    /\ app' = "sink"
    /\ UNCHANGED <<jvars, svars, task, lvars, cvars, flushing, walked, eosIn, eosOut,
                   arrived, restarts, hvars>>

(* ... waits until the loop function returned.                             *)
AppJoin ==
    /\ app = "joining" /\ loop = "idle"
    /\ app' = "sink"
    /\ UNCHANGED <<jvars, svars, task, lvars, cvars, flushing, walked, eosIn, eosOut,
                   arrived, restarts, hvars>>

(* The deactivation of recv_rtp_sink waits for the chain function.         *)
AppSink ==
    /\ app = "sink" /\ chain = "idle"
    /\ app' = "ready"
    /\ UNCHANGED <<jvars, svars, task, lvars, cvars, flushing, walked, eosIn, eosOut,
                   arrived, restarts, hvars>>

(* READY to PAUSED.  A source pad that is still active stays as it is.     *)
AppStart ==
    /\ app = "ready"
    /\ app' = "playing"
    /\ IF active /\ flushing
       THEN src_activate_push
       ELSE UNCHANGED <<srcresult, task, flushing>>
    /\ eosIn' = FALSE /\ eosOut' = FALSE
    /\ UNCHANGED <<jvars, waiting, discont, signalled, lvars, cvars, walked,
                   arrived, restarts, hvars>>

-----------------------------------------------------------------------------
ChainStep == \/ gst_rdt_manager_handle_data_packet
             \/ \E d \in BOOLEAN : gst_element_add_pad(d)

LoopStep == \/ LoopEnter \/ LoopWake \/ LoopClearDiscont \/ LoopPause
            \/ \E r \in Flow : LoopPush(r)

AppStep == AppStopTask \/ AppJoin \/ AppSink

Next == \/ \E b \in Buffers, d \in BOOLEAN : gst_rdt_manager_chain_rdt(b, d)
        \/ SinkEos
        \/ ChainStep \/ LoopStep
        \/ AppStop \/ AppStep \/ AppStart

(* The scheduler runs every thread that can move, and downstream returns   *)
(* from every push; arrivals and state changes need not happen.            *)
Fairness == WF_vars(ChainStep) /\ WF_vars(LoopStep) /\ WF_vars(AppStep)

Spec == Init /\ [][Next]_vars /\ Fairness

-----------------------------------------------------------------------------
InQueue(n) == \E i \in 1 .. Len(packets) : packets[i] = n

InHand(n) == popped = n /\ loop \in {"popped", "push"}

Running == task = "started" /\ srcresult = "OK"

(* The loop never sleeps through work: when it waits and nobody has        *)
(* signalled it, the jitter buffer is empty and nothing flushes, although  *)
(* handle_data_packet signals only when session->waiting is set and that   *)
(* flag is left set by the flushing path.                                  *)
NoLostWakeup ==
    loop = "wait" /\ ~signalled
       => rdt_jitter_buffer_num_packets = 0 /\ srcresult = "OK" /\ waiting

(* Every packet the jitter buffer accepted is pushed exactly once, or is   *)
(* still queued or in the loop's hands: none is lost or pushed twice over  *)
(* errors, flushing and restarts.                                          *)
Conserved ==
    \A n \in Stream :
       accepted[n] = pushed[n] + (IF InQueue(n) THEN 1 ELSE 0)
                               + (IF InHand(n) THEN 1 ELSE 0)

(* Once the element is READY the loop has left and cannot come back, so    *)
(* its late result cannot spoil the next activation: src_activate_push     *)
(* joins the task before the state change goes on.                         *)
QuietWhenReady ==
    walked /\ app \in {"sink", "ready"}
       => task = "stopped" /\ loop = "idle" /\ srcresult # "OK"

(* The inductive invariant behind NoLostWakeup and QuietWhenReady: what    *)
(* the state change has established at each of its stages, that the loop   *)
(* pauses only with a result other than OK, and that a chained buffer has  *)
(* packets left until the chain function returns.                          *)
ChainBuffer == buffer \in Seq(Stream) /\ (chain # "idle" => Len(buffer) > 0)

PauseResult == loop = "pause" => result # "OK"

Stages ==
    /\ walked => active
    /\ walked /\ app # "playing" => srcresult # "OK" /\ flushing
    /\ walked /\ app \in {"joining", "sink", "ready"} => task = "stopped"
    /\ walked /\ app \in {"sink", "ready"} => loop = "idle"

MInv == JInv /\ ChainBuffer /\ PauseResult /\ Stages /\ NoLostWakeup

(* A restarted session runs: srcresult and the task agree.  The session    *)
(* refuses packets only while it is stopped or after its loop failed.      *)
RefusesOnlyWhenStopped ==
    srcresult # "OK" => flushing \/ task # "started"

(* What the session accepts is pushed once or still with it, and it does   *)
(* not turn packets away while it runs.                                    *)
NothingLost == Conserved /\ RefusesOnlyWhenStopped

(* The state change to READY completes, whatever loop and chain do.        *)
StopCompletes == app = "stopping" ~> app = "ready"

(* Every queued packet is pushed, unless the session stops running.        *)
Delivered == \A n \in Stream : InQueue(n) ~> (~InQueue(n) \/ ~Running)

(* A discontinuity that upstream marked reaches downstream on a packet,    *)
(* although chain_rdt and the loop access session->discont concurrently.   *)
DiscontMarked ==
    (discont /\ rdt_jitter_buffer_num_packets > 0)
       ~> ((loop \in {"popped", "push"} /\ mark) \/ ~Running)

(* EOS reaches downstream after the packets that arrived before it.        *)
EosAfterData == eosOut => packets = <<>> /\ loop \notin {"popped", "push"}

=============================================================================
