------------------------------ MODULE Amadec ------------------------------
(***************************************************************************)
(* The DTV audio decoder: a client of dtv_patch_out.c drives a session of  *)
(* four threads over one aml_audio_dec_t.                                  *)
(*                                                                         *)
(*   out   dtv_patch_out_loop     PCM buffer -> the client's callback      *)
(*   ctl   adec_armdec_loop       initialises, then serves the messages    *)
(*   gp    audio_getpackage_loop  stream -> package list                   *)
(*   dec   audio_decode_loop      package list -> PCM buffer               *)
(*                                                                         *)
(* A call that changes the session holds patch_out_mutex throughout, so    *)
(* one client process whose pc is "idle" when the mutex is free stands for *)
(* them all; the getters under the mutex change nothing.  One getter, the  *)
(* function dtv_audio_dec_para_get, takes no lock: it is left out, and     *)
(* what is said of the life of the decoder does not extend to a thread in  *)
(* it.  Packages and PCM are counted, not carried.                         *)
(***************************************************************************)
EXTENDS Naturals, Sequences

CONSTANTS PoolMax,      \* MESSAGE_NUM_MAX
          PackMax,      \* the 8 of package_add
          PcmMax,       \* frames that fit into g_bst
          MaxStarts,    \* bound: sessions
          MaxCalls,     \* bound: pauses and resumes
          MaxFaults     \* bound: initialisation steps that fail

ASSUME Bounds == /\ PoolMax \in Nat \ {0, 1} /\ PackMax \in Nat \ {0} /\ PcmMax \in Nat \ {0}
                 /\ MaxStarts \in Nat /\ MaxCalls \in Nat /\ MaxFaults \in Nat

VARIABLES
  cpc,          \* the client: "idle" or the step of the call it is in
  outState,     \* outparam.state
  initd,        \* out_patch_initd
  audec,        \* outparam.audec is not NULL
  mem,          \* the aml_audio_dec_t is allocated
  sw, raw,      \* use_sw_check_apts; a format that is passed through
  demux,        \* audec->demux_handle is not NULL
  needStop,     \* audec->need_stop
  exitDecode,   \* audec->exit_decode_thread
  state,        \* audec->state
  known,        \* audec->channels and audec->samplerate are set
  gbst,         \* audec->g_bst is allocated
  ops,          \* audec->adsp_ops.dsp_read and get_cur_pts are set
  pcm,          \* g_bst->buf_level
  list,         \* pack_list.pack_num
  pool,         \* the message pool
  ctl, out, gp, dec,    \* where each thread is; "none" before its creation and after its join
  pooled,       \* threads in the thread pool's lists
  cancelled,    \* threads with on_required_exit set
  late,         \* history: gp was created after the cancellation
  starts, calls, faults

callVars == <<outState, initd, audec, mem, starts, calls>>
streamVars == <<sw, raw, demux>>
codecVars == <<exitDecode, state, known, gbst, ops, pcm, list>>
threadVars == <<ctl, out, gp, dec>>
poolVars == <<pooled, cancelled, late>>
vars == <<cpc, callVars, streamVars, needStop, codecVars, threadVars, pool, poolVars, faults>>

Threads == {"ctl", "gp", "dec"}
Cmds == {"PAUSE", "RESUME", "STOP", "RELEASE"}
Gone == {"none", "exited"}

Pool == INSTANCE DropQueue WITH q <- pool, Messages <- Cmds, Capacity <- PoolMax

Init ==
  /\ cpc = "idle" /\ outState = "CLOSED" /\ initd = FALSE /\ audec = FALSE /\ mem = FALSE
  /\ sw = FALSE /\ raw = FALSE /\ demux = FALSE
  /\ needStop = FALSE /\ exitDecode = FALSE /\ state = "IDLE" /\ known = FALSE
  /\ gbst = FALSE /\ ops = FALSE /\ pcm = 0 /\ list = 0 /\ pool = <<>>
  /\ ctl = "none" /\ out = "none" /\ gp = "none" /\ dec = "none"
  /\ pooled = {} /\ cancelled = {} /\ late = FALSE
  /\ starts = 0 /\ calls = 0 /\ faults = 0

-----------------------------------------------------------------------------
(* The client: dtv_patch_input_start, _pause, _resume, _stop_dmx, _stop.    *)

\* audio_decode_init: a zeroed aml_audio_dec_t and its control thread, which
\* amthreadpool_pthread_create has registered when it returns.
DecodeInit ==
  /\ audec' = TRUE /\ mem' = TRUE /\ ctl' = "init"
  /\ pooled' = {"ctl"} /\ cancelled' = {} /\ late' = FALSE
  /\ needStop' = FALSE /\ exitDecode' = FALSE /\ state' = "IDLE" /\ known' = FALSE
  /\ gbst' = FALSE /\ ops' = FALSE /\ pcm' = 0 /\ list' = 0 /\ pool' = <<>>
  /\ UNCHANGED faults

\* The thread cannot be created: the handle stays NULL and the result is not looked at.
DecodeInitFails ==
  /\ faults < MaxFaults
  /\ faults' = faults + 1
  /\ audec' = FALSE
  /\ UNCHANGED <<mem, ctl, poolVars, needStop, codecVars, pool>>

\* dtv_patch_input_start refuses while a session exists or the state says RUNNING.
Start ==
  /\ cpc = "idle" /\ starts < MaxStarts
  /\ ~initd /\ outState # "RUNNING"
  /\ outState' = "RUNNING"
  /\ sw' \in BOOLEAN /\ raw' \in BOOLEAN /\ demux' = TRUE
  /\ DecodeInit \/ DecodeInitFails
  /\ cpc' = "start" /\ starts' = starts + 1
  /\ UNCHANGED <<initd, calls, out, gp, dec>>

SpawnOut ==
  /\ cpc = "start"
  /\ out' = "top" /\ initd' = TRUE /\ cpc' = "idle"
  /\ UNCHANGED <<outState, audec, mem, starts, calls, streamVars, needStop, codecVars,
                 ctl, gp, dec, pool, poolVars, faults>>

\* mutant: a pause or resume that finds the pool full is dropped itself
SendIfRoom(m) == IF audec /\ (Len(pool) < PoolMax \/ m \in {"STOP", "RELEASE"}) THEN Pool!Put(m) ELSE UNCHANGED pool

\* adec_send_message.  audio_decode_pause and _resume return when the handle is NULL.
Send(m) == IF audec THEN Pool!Put(m) ELSE UNCHANGED pool

PauseOrResume(m) ==
  /\ cpc = "idle" /\ calls < MaxCalls
  /\ Send(m)
  /\ cpc' = m /\ calls' = calls + 1
  /\ UNCHANGED <<outState, initd, audec, mem, starts, streamVars, needStop, codecVars,
                 threadVars, poolVars, faults>>

\* The message is sent first; the state of the output thread follows.
SetOutState ==
  /\ cpc \in {"PAUSE", "RESUME"}
  /\ outState' = IF cpc = "PAUSE" THEN "PAUSE" ELSE "RUNNING"
  /\ cpc' = "idle"
  /\ UNCHANGED <<initd, audec, mem, starts, calls, streamVars, needStop, codecVars,
                 threadVars, pool, poolVars, faults>>

\* dtv_patch_input_stop_dmx dereferences the decoder whether it exists or not.
StopDmx ==
  /\ cpc = "idle" /\ initd /\ demux
  /\ demux' = FALSE
  /\ cpc' = IF audec THEN "idle" ELSE "crashed"
  /\ UNCHANGED <<callVars, sw, raw, needStop, codecVars, threadVars, pool, poolVars, faults>>

Stop ==
  /\ cpc = "idle" /\ initd
  /\ outState' = "STOPED" /\ cpc' = "join_out"
  /\ UNCHANGED <<initd, audec, mem, starts, calls, streamVars, needStop, codecVars,
                 threadVars, pool, poolVars, faults>>

\* mutant: the output thread is left to end by itself
JoinOutForgotten ==
  /\ cpc = "join_out"
  /\ cpc' = IF audec THEN "need_stop" ELSE "release"
  /\ UNCHANGED <<callVars, streamVars, needStop, codecVars, threadVars, pool, poolVars, faults>>

\* The output thread is joined first; audio_decode_stop returns when the handle is NULL.
JoinOut ==
  /\ cpc = "join_out" /\ out = "exited"
  /\ out' = "none"
  /\ cpc' = IF audec THEN "need_stop" ELSE "release"
  /\ UNCHANGED <<callVars, streamVars, needStop, codecVars, ctl, gp, dec, pool, poolVars, faults>>

\* audio_decode_stop: need_stop, the message, the cancellation, in that order.
NeedStop ==
  /\ cpc = "need_stop"
  /\ needStop' = TRUE /\ cpc' = "send_stop"
  /\ UNCHANGED <<callVars, streamVars, codecVars, threadVars, pool, poolVars, faults>>

SendStop ==
  /\ cpc = "send_stop"
  /\ Send("STOP") /\ cpc' = "cancel"
  /\ UNCHANGED <<callVars, streamVars, needStop, codecVars, threadVars, poolVars, faults>>

\* mutant: only the control thread is cancelled
ReachesOwner == {"ctl"}

\* amthreadpool_pool_thread_cancel reaches the threads that are registered now.
Reached == pooled

Cancel ==
  /\ cpc = "cancel"
  /\ cancelled' = Reached /\ cpc' = "release"
  /\ UNCHANGED <<callVars, streamVars, needStop, codecVars, threadVars, pool, pooled, late, faults>>

\* audio_decode_release hands *handle to adec_send_message without a test.
Release ==
  /\ cpc = "release"
  /\ Send("RELEASE")
  /\ cpc' = IF audec THEN "join_ctl" ELSE "crashed"
  /\ UNCHANGED <<callVars, streamVars, needStop, codecVars, threadVars, poolVars, faults>>

\* mutant: the decoder is freed as soon as RELEASE is sent
NotAwaited == TRUE

ControlExited == ctl = "exited"

\* The rest of audio_decode_release and of dtv_patch_input_stop.
JoinCtl ==
  /\ cpc = "join_ctl" /\ ControlExited
  /\ ctl' = "none" /\ pooled' = pooled \ {"ctl"}
  /\ mem' = FALSE /\ audec' = FALSE /\ initd' = FALSE /\ cpc' = "idle"
  /\ UNCHANGED <<outState, starts, calls, streamVars, needStop, codecVars, out, gp, dec, pool,
                 cancelled, late, faults>>

Call == \/ Start \/ Stop \/ StopDmx
        \/ \E m \in {"PAUSE", "RESUME"} : PauseOrResume(m)

ClientStep == \/ SpawnOut \/ SetOutState \/ JoinOut \/ NeedStop \/ SendStop \/ Cancel
              \/ Release \/ JoinCtl

-----------------------------------------------------------------------------
(* adec_armdec_loop.                                                        *)

ctlRest == <<cpc, callVars, streamVars, needStop, out>>

\* audio_codec_init up to the PCM buffer; a failure is tried again after 10 ms.
CodecInitBuffer ==
  /\ ctl = "init" /\ ~needStop
  /\ state' = "INITING" /\ exitDecode' = FALSE /\ list' = 0
  /\ \/ ctl' = "ops" /\ gbst' = TRUE /\ pcm' = 0 /\ UNCHANGED faults
     \/ faults < MaxFaults /\ faults' = faults + 1 /\ UNCHANGED <<ctl, gbst, pcm>>
  /\ UNCHANGED <<ctlRest, known, ops, gp, dec, pool, poolVars>>

\* InBufferInit can fail only where the stream is read through the uio device.
CodecInitOps ==
  /\ ctl = "ops"
  /\ \/ ops' = TRUE /\ state' = "INITTED" /\ ctl' = "spawn_gp" /\ UNCHANGED <<gbst, faults>>
     \/ /\ ~sw /\ faults < MaxFaults /\ faults' = faults + 1
        /\ gbst' = FALSE /\ ctl' = "init" /\ UNCHANGED <<ops, state>>
  /\ UNCHANGED <<ctlRest, exitDecode, known, pcm, list, gp, dec, pool, poolVars>>

InitStopped ==
  /\ ctl = "init" /\ needStop
  /\ state' = "INITING" /\ ctl' = "msg"
  /\ UNCHANGED <<ctlRest, exitDecode, known, gbst, ops, pcm, list, gp, dec, pool, poolVars, faults>>

\* start_decode_thread: each creation returns when the new thread is registered.
SpawnGp ==
  /\ ctl = "spawn_gp"
  /\ gp' = "top" /\ pooled' = pooled \cup {"gp"} /\ late' = (cancelled # {})
  /\ ctl' = "spawn_dec"
  /\ UNCHANGED <<ctlRest, codecVars, dec, pool, cancelled, faults>>

SpawnDec ==
  /\ ctl = "spawn_dec"
  /\ dec' = "top" /\ pooled' = pooled \cup {"dec"}
  /\ ctl' = "format"
  /\ UNCHANGED <<ctlRest, codecVars, gp, pool, cancelled, late, faults>>

\* The loop waits for the sample rate; no message is served meanwhile.
WaitFormat ==
  /\ ctl = "format" /\ (known \/ needStop)
  /\ ctl' = "start"
  /\ UNCHANGED <<ctlRest, codecVars, gp, dec, pool, poolVars, faults>>

\* start_adec: without a dsp file there is no first pts to wait for; it may sleep
\* between the test of need_stop and the new state.
StartAdec ==
  /\ ctl = "start"
  /\ ctl' = IF needStop THEN "msg" ELSE "active"
  /\ UNCHANGED <<ctlRest, codecVars, gp, dec, pool, poolVars, faults>>

Activate ==
  /\ ctl = "active"
  /\ state' = "ACTIVE" /\ ctl' = "msg"
  /\ UNCHANGED <<ctlRest, exitDecode, known, gbst, ops, pcm, list, gp, dec, pool, poolVars, faults>>

HandlePause ==
  /\ ctl = "msg" /\ Pool!Get("PAUSE")
  /\ state' = IF state = "ACTIVE" THEN "PAUSED" ELSE state
  /\ UNCHANGED <<ctlRest, exitDecode, known, gbst, ops, pcm, list, ctl, gp, dec, poolVars, faults>>

HandleResume ==
  /\ ctl = "msg" /\ Pool!Get("RESUME")
  /\ state' = IF state = "PAUSED" THEN "ACTIVE" ELSE state
  /\ UNCHANGED <<ctlRest, exitDecode, known, gbst, ops, pcm, list, ctl, gp, dec, poolVars, faults>>

\* mutant: a decoder that never started is not stopped
StopsStarted == state \in {"ACTIVE", "PAUSED"}

\* state > INITING
Stops == state \in {"INITTED", "ACTIVE", "PAUSED"}

\* stop_adec works only on a decoder past INITING; audio_codec_release begins
\* with stop_decode_thread.
HandleStop ==
  /\ ctl = "msg" /\ Pool!Get("STOP")
  /\ IF Stops
     THEN state' = "STOPPED" /\ exitDecode' = TRUE /\ ctl' = "join_dec"
     ELSE UNCHANGED <<state, exitDecode, ctl>>
  /\ UNCHANGED <<ctlRest, known, gbst, ops, pcm, list, gp, dec, poolVars, faults>>

HandleRelease ==
  /\ ctl = "msg" /\ Pool!Get("RELEASE")
  /\ state' = "TERMINATED" /\ ctl' = "exited"
  /\ UNCHANGED <<ctlRest, exitDecode, known, gbst, ops, pcm, list, gp, dec, poolVars, faults>>

\* stop_decode_thread joins the decoder, then the reader.
JoinDec ==
  /\ ctl = "join_dec" /\ dec = "exited"
  /\ dec' = "none" /\ pooled' = pooled \ {"dec"} /\ ctl' = "join_gp"
  /\ UNCHANGED <<ctlRest, codecVars, gp, pool, cancelled, late, faults>>

JoinGp ==
  /\ ctl = "join_gp" /\ gp = "exited"
  /\ gp' = "none" /\ pooled' = pooled \ {"gp"} /\ ctl' = "free_pcm"
  /\ UNCHANGED <<ctlRest, codecVars, dec, pool, cancelled, late, faults>>

\* The rest of audio_codec_release: the buffer goes first, then the operations.
ReleasePcm ==
  /\ ctl = "free_pcm"
  /\ gbst' = FALSE /\ ctl' = "free_ops"
  /\ UNCHANGED <<ctlRest, exitDecode, state, known, ops, pcm, list, gp, dec, pool, poolVars, faults>>

ReleaseOps ==
  /\ ctl = "free_ops"
  /\ ops' = FALSE /\ ctl' = "msg"
  /\ UNCHANGED <<ctlRest, exitDecode, state, known, gbst, pcm, list, gp, dec, pool, poolVars, faults>>

ControlStep ==
  \/ CodecInitBuffer \/ CodecInitOps \/ InitStopped \/ SpawnGp \/ SpawnDec \/ WaitFormat
  \/ StartAdec \/ Activate \/ HandlePause \/ HandleResume \/ HandleStop \/ HandleRelease
  \/ JoinDec \/ JoinGp \/ ReleasePcm \/ ReleaseOps

-----------------------------------------------------------------------------
(* audio_getpackage_loop and read_buffer.                                   *)

gpRest == <<cpc, callVars, streamVars, needStop, exitDecode, state, known, gbst, ops, pcm,
            ctl, out, dec, pool, poolVars, faults>>

GpExit ==
  /\ gp = "top" /\ exitDecode
  /\ list' = 0 /\ gp' = "exited"        \* package_list_free
  /\ UNCHANGED gpRest

\* An elementary stream packet from the demultiplexer, or the uio device.
GpBegin ==
  /\ gp = "top" /\ ~exitDecode
  /\ IF sw THEN demux /\ gp' = "add" ELSE gp' = "read"
  /\ UNCHANGED <<gpRest, list>>

\* read_buffer has the bytes, or waits for the fifo holding uio_mutex.
GpRead ==
  /\ gp = "read" /\ ~exitDecode
  /\ gp' \in {"add", "wait"}
  /\ UNCHANGED <<gpRest, list>>

GpReadStopped ==
  /\ gp = "read" /\ exitDecode
  /\ gp' = "add"
  /\ UNCHANGED <<gpRest, list>>

\* waiting_bits ends when the fifo fills ...
FifoFills ==
  /\ gp = "wait"
  /\ gp' = "read"
  /\ UNCHANGED <<gpRest, list>>

\* ... or when the thread was told to exit.
GpWaitCancelled ==
  /\ gp = "wait" /\ "gp" \in cancelled
  /\ gp' = "read"
  /\ UNCHANGED <<gpRest, list>>

\* package_add, again every millisecond while the list is full.  It
\* leaves a full list only when the decoder exits.
GpAdd ==
  /\ gp = "add" /\ (list < PackMax \/ exitDecode)
  /\ gp' = "top"
  /\ list' = IF list < PackMax THEN list + 1 ELSE list
  /\ UNCHANGED gpRest

-----------------------------------------------------------------------------
(* audio_decode_loop.                                                       *)

decRest == <<cpc, callVars, streamVars, needStop, exitDecode, state, gbst, ops,
             ctl, out, gp, pool, poolVars, faults>>

DecExit ==
  /\ dec = "top" /\ exitDecode
  /\ dec' = "exited"
  /\ UNCHANGED <<decRest, known, pcm, list>>

DecTake ==
  /\ dec = "top" /\ ~exitDecode /\ list > 0
  /\ list' = list - 1 /\ dec' = "decode"
  /\ UNCHANGED <<decRest, known, pcm>>

\* The decoder fails or wants more data, or it has PCM; the first PCM of a
\* format that is decoded tells the sample rate.
DecDecode ==
  /\ dec = "decode"
  /\ \/ dec' = "top" /\ UNCHANGED known
     \/ ~exitDecode /\ dec' = "write" /\ known' = (known \/ ~raw)
  /\ UNCHANGED <<decRest, pcm, list>>

Fits == pcm < PcmMax

DecWrite ==
  /\ dec = "write" /\ (Fits \/ exitDecode)
  /\ pcm' = IF exitDecode THEN pcm ELSE pcm + 1
  /\ dec' \in IF exitDecode THEN {"top"} ELSE {"top", "decode"}
  /\ UNCHANGED <<decRest, known, list>>

-----------------------------------------------------------------------------
(* dtv_patch_out_loop.  It takes no lock.                                   *)

outRest == <<cpc, callVars, streamVars, needStop, exitDecode, state, known, gbst, ops, list,
             ctl, gp, dec, pool, poolVars, faults>>

OutExit ==
  /\ out \in {"top", "write"} /\ outState = "STOPED"
  /\ out' = "exited"
  /\ UNCHANGED <<outRest, pcm>>

OutTest ==
  /\ out = "top" /\ outState \notin {"STOPED", "PAUSE"}
  /\ audec /\ ops
  /\ out' = "level"
  /\ UNCHANGED <<outRest, pcm>>

\* g_bst->buf_level, get_cur_pts and the client's space decide whether to read.
OutLevel ==
  /\ out = "level"
  /\ out' \in IF pcm > 0 /\ ops THEN {"top", "read"} ELSE {"top"}
  /\ UNCHANGED <<outRest, pcm>>

\* dsp_read takes what fits behind the PCM the callback has left over; the
\* left-over alone is written again too.
OutRead ==
  /\ out = "read"
  /\ pcm' \in 0 .. pcm
  /\ out' \in IF pcm' = pcm THEN {"top", "write"} ELSE {"write"}
  /\ UNCHANGED outRest

\* pcmout_cb took some of it, or none and the loop goes on.
OutWrite ==
  /\ out = "write"
  /\ out' = "top"
  /\ UNCHANGED <<outRest, pcm>>

-----------------------------------------------------------------------------
ReaderStep == GpExit \/ GpBegin \/ GpRead \/ GpReadStopped \/ GpWaitCancelled \/ GpAdd
DecoderStep == DecExit \/ DecTake \/ DecDecode \/ DecWrite
OutStep == OutExit \/ OutTest \/ OutLevel \/ OutRead \/ OutWrite

Next == Call \/ ClientStep \/ ControlStep \/ ReaderStep \/ FifoFills \/ DecoderStep \/ OutStep

\* Every thread that can run does; nothing makes the client call or the fifo fill.
\* The output thread's test of the state comes round again and again, so it is
\* not starved by the callbacks.
Fairness ==
  /\ WF_vars(ClientStep) /\ WF_vars(ControlStep)
  /\ WF_vars(GpExit) /\ WF_vars(GpReadStopped) /\ WF_vars(GpWaitCancelled) /\ WF_vars(GpAdd)
  /\ WF_vars(DecoderStep)
  /\ WF_vars(OutExit) /\ WF_vars(OutLevel \/ OutRead \/ OutWrite)

Spec == Init /\ [][Next]_vars /\ Fairness

-----------------------------------------------------------------------------
(* Properties.                                                              *)

\* Every variable keeps its type; the state tells the phases of the code apart.
TypeOK ==
  /\ cpc \in {"idle", "start", "PAUSE", "RESUME", "join_out", "need_stop", "send_stop", "cancel",
              "release", "join_ctl", "crashed"}
  /\ outState \in {"CLOSED", "RUNNING", "PAUSE", "STOPED"}
  /\ state \in {"IDLE", "INITING", "INITTED", "ACTIVE", "PAUSED", "STOPPED", "TERMINATED"}
  /\ {initd, audec, mem, sw, raw, demux, needStop, exitDecode, known, gbst, ops, late} \subseteq BOOLEAN
  /\ pcm \in 0 .. PcmMax /\ list \in 0 .. PackMax
  /\ pool \in Seq(Cmds) /\ Len(pool) <= PoolMax
  /\ ctl \in {"none", "init", "ops", "spawn_gp", "spawn_dec", "format", "start", "active", "msg",
              "join_dec", "join_gp", "free_pcm", "free_ops", "exited"}
  /\ gp \in {"none", "top", "read", "wait", "add", "exited"}
  /\ dec \in {"none", "top", "decode", "write", "exited"}
  /\ out \in {"none", "top", "level", "read", "write", "exited"}
  /\ pooled \subseteq Threads /\ cancelled \subseteq Threads
  /\ starts \in 0 .. MaxStarts /\ calls \in 0 .. MaxCalls /\ faults \in 0 .. MaxFaults

\* dtv_patch_get_pts would call armdec_get_pts now.
GetterEnters == cpc = "idle" /\ outState # "STOPED" /\ audec /\ ops

\* Nobody looks into the PCM buffer before it is allocated or after it is
\* freed: not the decoder, not the output thread, which takes no lock and looks
\* at the buffer for the level, the data and the format, and not
\* dtv_patch_get_pts (audio_codec_release frees it before it clears the operations).
PcmAlive ==
  dec \in {"decode", "write"} \/ out \in {"level", "read", "write"} \/ GetterEnters => gbst

\* audio_decode_release frees the decoder only when the four threads of the
\* session no longer use it.  A caller of dtv_audio_dec_para_get is not among
\* them: it holds no lock, and a stop can free the decoder it is reading.
DecoderAlive ==
  /\ ctl \notin Gone \/ gp \notin Gone \/ dec \notin Gone => mem
  /\ out \in {"level", "read", "write"} => mem

\* The control thread never ends with the codec still in use: whatever was
\* queued before, STOP has been served when RELEASE is, and nothing that
\* audio_codec_init acquired is left.
ExitsClean ==
  ctl = "exited" => /\ gp = "none" /\ dec = "none" /\ list = 0
                    /\ ~gbst /\ ~ops

\* When all messages of a running decoder are served, it is paused exactly when
\* the output thread is: the pauses and resumes that were called before the
\* decoder was ready, or that the full pool pushed out, make no difference.
PauseFollowed ==
  cpc = "idle" /\ ctl = "msg" /\ pool = <<>> /\ state \in {"ACTIVE", "PAUSED"}
    => (state = "PAUSED" <=> outState = "PAUSE")

\* dtv_patch_input_stop returns (or dereferences the decoder that could not be
\* created), except where the fifo stays empty and the reader was created after
\* audio_decode_stop had cancelled the pool.
StopReturns ==
  cpc = "join_out" ~> \/ cpc \in {"idle", "crashed"}
                      \/ gp = "wait" /\ late
=============================================================================
