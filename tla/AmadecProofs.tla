---------------------------- MODULE AmadecProofs ----------------------------
(***************************************************************************)
(* Proofs about the DTV audio decoder, for any sizes of the pool (two or   *)
(* more), the list and the PCM buffer, and any number of sessions, calls   *)
(* and failures: no thread outlives what it uses, the control thread ends  *)
(* only when STOP has been served, the decoder is paused when the client   *)
(* paused it, and a stop waits for nothing that cannot happen.             *)
(***************************************************************************)
EXTENDS Amadec, SequenceTheorems, TLAPS

PauseCmds == {"PAUSE", "RESUME"}
Stopping == {"cancel", "release", "join_ctl"}   \* STOP has been sent

Types ==
  /\ cpc \in {"idle", "start", "PAUSE", "RESUME", "join_out", "need_stop", "send_stop", "cancel",
              "release", "join_ctl", "crashed"}
  /\ outState \in {"CLOSED", "RUNNING", "PAUSE", "STOPED"}
  /\ state \in {"IDLE", "INITING", "INITTED", "ACTIVE", "PAUSED", "STOPPED", "TERMINATED"}
  /\ initd \in BOOLEAN /\ audec \in BOOLEAN /\ mem \in BOOLEAN /\ needStop \in BOOLEAN
  /\ gbst \in BOOLEAN /\ ops \in BOOLEAN
  /\ list \in Nat /\ pool \in Seq(Cmds) /\ Len(pool) <= PoolMax
  /\ ctl \in {"none", "init", "ops", "spawn_gp", "spawn_dec", "format", "start", "active", "msg",
              "join_dec", "join_gp", "free_pcm", "free_ops", "exited"}
  /\ gp \in {"none", "top", "read", "wait", "add", "exited"}
  /\ dec \in {"none", "top", "decode", "write", "exited"}
  /\ out \in {"none", "top", "level", "read", "write", "exited"}

\* The calls of the client: what there is at each of their steps.
Session ==
  /\ mem = audec /\ (ctl = "none" <=> ~audec)
  /\ cpc \in {"need_stop", "send_stop", "cancel", "join_ctl"} => audec
  /\ audec /\ needStop => cpc \in {"send_stop"} \cup Stopping
  /\ ~initd => out = "none" /\ (cpc = "start" \/ ~audec)
  /\ cpc \in {"start", "need_stop", "send_stop"} \cup Stopping => out = "none"
  /\ out \in {"level", "read", "write"} => audec /\ ops

\* The control thread: the state, the threads and the memory it has at each of its steps.
Live == \/ ctl \in {"spawn_dec", "format", "start", "active", "join_dec", "join_gp"}
        \/ ctl = "msg" /\ Stops
Codec ==
  /\ ctl = "init" => state \in {"IDLE", "INITING"}
  /\ ctl = "ops" => state = "INITING"
  /\ ctl \in {"spawn_gp", "spawn_dec", "format", "start", "active"} => state = "INITTED"
  /\ ctl = "msg" => state \in {"INITING", "INITTED", "ACTIVE", "PAUSED", "STOPPED"}
  /\ ctl = "msg" /\ state \in {"INITING", "INITTED"} => needStop
  /\ ctl \in {"join_dec", "join_gp", "free_pcm", "free_ops"} => state = "STOPPED" /\ cpc \in Stopping
  /\ ctl = "msg" /\ state = "STOPPED" => cpc \in Stopping
  /\ ctl = "exited" => cpc = "join_ctl" /\ pool = <<>>
  /\ gp # "none" => Live
  /\ gp \in Gone => list = 0
  /\ dec # "none" => Live /\ ctl \notin {"spawn_dec", "join_gp"}
  /\ gbst <=> ctl \in {"ops", "spawn_gp", "free_pcm"} \/ Live
  /\ ops <=> ctl \in {"spawn_gp", "free_pcm", "free_ops"} \/ Live

\* STOP has been served.
Settled == \/ ctl \in {"none", "join_dec", "join_gp", "free_pcm", "free_ops", "exited"}
           \/ ctl = "msg" /\ ~Stops

\* What is in the pool: pauses and resumes, and behind them STOP, and behind it RELEASE.
Pooled ==
  LET n == Len(pool) IN
    /\ ~audec => n = 0
    /\ cpc \notin Stopping => \A i \in 1 .. n : pool[i] \in PauseCmds
    /\ cpc \in {"cancel", "release"} =>
         /\ \A i \in 1 .. n : IF i = n THEN pool[i] = "STOP" ELSE pool[i] \in PauseCmds
         /\ n = 0 => Settled
    /\ cpc = "join_ctl" =>
         /\ \A i \in 1 .. n : IF i = n THEN pool[i] = "RELEASE"
                              ELSE IF i = n - 1 THEN pool[i] = "STOP" ELSE pool[i] \in PauseCmds
         /\ n = 1 => Settled
         /\ n = 0 => ctl = "exited"

\* The last pause or resume that was called for is the last in the pool, or
\* the decoder is in the state it asks for.
WantsPaused == IF cpc \in PauseCmds THEN cpc = "PAUSE" ELSE outState = "PAUSE"
Pauses ==
  audec /\ cpc \in {"idle", "start"} \cup PauseCmds =>
    IF Len(pool) > 0 THEN (pool[Len(pool)] = "PAUSE" <=> WantsPaused)
                     ELSE (state = "PAUSED" <=> WantsPaused)

IInv == Types /\ Session /\ Codec /\ Pooled /\ Pauses
-----------------------------------------------------------------------------
(* The pool.                                                                *)

\* STOP and RELEASE fit into the pool together.
LEMMA PoolTwo == PoolMax \in Nat /\ PoolMax >= 2
BY Bounds DEF Bounds

\* adec_send_message puts the message last; a full pool loses its first.
LEMMA PutPool ==
  ASSUME pool \in Seq(Cmds), Len(pool) <= PoolMax, NEW m \in Cmds, Pool!Put(m)
  PROVE  /\ pool' \in Seq(Cmds) /\ Len(pool) \in Nat
         /\ Len(pool') = IF Len(pool) = PoolMax THEN Len(pool) ELSE Len(pool) + 1
         /\ Len(pool') <= PoolMax /\ Len(pool') > 0
         /\ pool'[Len(pool')] = m
         /\ \A i \in 1 .. Len(pool') - 1 : pool'[i] = pool[i + Len(pool) - Len(pool') + 1]
<1>. DEFINE n == Len(pool)
<1>0. n \in Nat /\ PoolMax \in Nat /\ PoolMax >= 2
  BY PoolTwo
<1>1. CASE n = PoolMax
  <2>1. pool # <<>>
    BY <1>0, <1>1, EmptySeq
  <2>2. /\ Tail(pool) \in Seq(Cmds) /\ Len(Tail(pool)) = n - 1
        /\ \A i \in 1 .. n - 1 : Tail(pool)[i] = pool[i + 1]
    BY <2>1, HeadTailProperties
  <2>3. pool' = Append(Tail(pool), m)
    BY <1>1 DEF Pool!Put
  <2>4. /\ pool' \in Seq(Cmds) /\ Len(pool') = n
        /\ \A i \in 1 .. n - 1 : pool'[i] = Tail(pool)[i]
        /\ pool'[n] = m
    BY <1>0, <2>2, <2>3, AppendProperties
  <2>. QED  BY <1>0, <1>1, <2>2, <2>4
<1>2. CASE n # PoolMax
  <2>1. pool' = Append(pool, m)
    BY <1>2 DEF Pool!Put
  <2>2. /\ pool' \in Seq(Cmds) /\ Len(pool') = n + 1
        /\ \A i \in 1 .. n : pool'[i] = pool[i]
        /\ pool'[n + 1] = m
    BY <2>1, AppendProperties
  <2>. QED  BY <1>0, <1>2, <2>2
<1>. QED
  BY <1>1, <1>2

\* adec_get_message takes the first message.
LEMMA GetPool ==
  ASSUME pool \in Seq(Cmds), NEW m \in Cmds, Pool!Get(m)
  PROVE  /\ pool' \in Seq(Cmds) /\ Len(pool) \in Nat \ {0} /\ pool[1] = m
         /\ Len(pool') = Len(pool) - 1
         /\ \A i \in 1 .. Len(pool') : pool'[i] = pool[i + 1]
<1>1. pool # <<>> /\ m = Head(pool) /\ pool' = Tail(pool)
  BY DEF Pool!Get
<1>. QED
  BY <1>1, HeadTailProperties, EmptySeq

\* A pool with nothing in it.
LEMMA EmptyPool == <<>> \in Seq(Cmds) /\ Len(<<>>) = 0
OBVIOUS

-----------------------------------------------------------------------------
(* The inductive invariant.                                                 *)

\* The invariant holds at first.
LEMMA InitIInv == ASSUME Init PROVE IInv
<1>1. Types
  <2>1. pool \in Seq(Cmds) /\ Len(pool) <= PoolMax
    BY EmptyPool, PoolTwo DEF Init
  <2>. QED  BY Zenon, <2>1 DEF Init, Types
<1>2. Session /\ Codec
  BY Zenon DEF Init, Session, Codec, Live
<1>3. Pooled /\ Pauses
  BY EmptyPool DEF Init, Pooled, Pauses, Stopping
<1>. QED
  BY <1>1, <1>2, <1>3 DEF IInv

\* A step of the reader changes only where it is, and the list.
LEMMA ReaderIInv ==
  ASSUME IInv, UNCHANGED gpRest, gp # "none",
         gp' \in {"top", "read", "wait", "add", "exited"},
         list' \in Nat, gp' = "exited" => list' = 0
  PROVE  IInv'
<1>1. UNCHANGED <<cpc, outState, initd, audec, mem, needStop, state, gbst, ops, ctl, out,
                  dec, pool>>
  BY DEF gpRest, callVars
<1>2. Types' /\ Session'
  BY <1>1 DEF IInv, Types, Session
<1>3. Codec'
  BY <1>1 DEF IInv, Codec, Live, Stops, Gone
<1>4. Pooled' /\ Pauses'
  BY <1>1 DEF IInv, Pooled, Pauses, WantsPaused, Settled, Stops
<1>. QED
  BY <1>2, <1>3, <1>4 DEF IInv

\* A step of the decoder changes only where it is, and takes from the list.
LEMMA DecoderIInv ==
  ASSUME IInv, UNCHANGED decRest, dec # "none",
         dec' \in {"top", "decode", "write", "exited"},
         list' = list \/ (list > 0 /\ list' = list - 1)
  PROVE  IInv'
<1>1. UNCHANGED <<cpc, outState, initd, audec, mem, needStop, state, gbst, ops, ctl, out,
                  gp, pool>>
  BY DEF decRest, callVars
<1>2. list' \in Nat /\ (list = 0 => list' = 0)
  BY DEF IInv, Types
<1>3. Types' /\ Session'
  BY <1>1, <1>2 DEF IInv, Types, Session
<1>4. Codec'
  BY <1>1, <1>2 DEF IInv, Codec, Live, Stops
<1>5. Pooled' /\ Pauses'
  BY <1>1 DEF IInv, Pooled, Pauses, WantsPaused, Settled, Stops
<1>. QED
  BY <1>3, <1>4, <1>5 DEF IInv

\* A step of the output thread changes only where it is, and uses the decoder
\* only when its operations are set.
LEMMA OutIInv ==
  ASSUME IInv, UNCHANGED outRest, out # "none",
         out' \in {"top", "level", "read", "write", "exited"},
         out' \in {"level", "read", "write"} => audec /\ ops
  PROVE  IInv'
<1>1. UNCHANGED <<cpc, outState, initd, audec, mem, needStop, state, gbst, ops, ctl, list,
                  gp, dec, pool>>
  BY DEF outRest, callVars
<1>2. Types' /\ Session'
  BY <1>1 DEF IInv, Types, Session
<1>3. Codec'
  BY <1>1 DEF IInv, Codec, Live, Stops
<1>4. Pooled' /\ Pauses'
  BY <1>1 DEF IInv, Pooled, Pauses, WantsPaused, Settled, Stops
<1>. QED
  BY <1>2, <1>3, <1>4 DEF IInv

\* The reader, the decoder and the output thread keep the invariant.
LEMMA ThreadsIInv ==
  ASSUME IInv, ReaderStep \/ FifoFills \/ DecoderStep \/ OutStep
  PROVE  IInv'
<1>1. CASE ReaderStep \/ FifoFills
  <2>1. /\ UNCHANGED gpRest /\ gp # "none"
        /\ gp' \in {"top", "read", "wait", "add", "exited"}
        /\ list' \in Nat /\ (gp' = "exited" => list' = 0)
    BY <1>1 DEF IInv, Types, ReaderStep, FifoFills, GpExit, GpBegin, GpRead, GpReadStopped,
                GpWaitCancelled, GpAdd
  <2>. QED  BY <2>1, ReaderIInv
<1>2. CASE DecoderStep
  <2>1. /\ UNCHANGED decRest /\ dec # "none"
        /\ dec' \in {"top", "decode", "write", "exited"}
        /\ list' = list \/ (list > 0 /\ list' = list - 1)
    BY <1>2 DEF DecoderStep, DecExit, DecTake, DecDecode, DecWrite
  <2>. QED  BY <2>1, DecoderIInv
<1>3. CASE OutStep
  <2>1. /\ UNCHANGED outRest /\ out # "none"
        /\ out' \in {"top", "level", "read", "write", "exited"}
        /\ out' \in {"level", "read", "write"} => audec /\ ops
    BY <1>3 DEF IInv, Session, OutStep, OutExit, OutTest, OutLevel, OutRead, OutWrite
  <2>. QED  BY <2>1, OutIInv
<1>. QED
  BY <1>1, <1>2, <1>3
\* The output thread is created.
LEMMA SpawnOutIInv == ASSUME IInv, SpawnOut PROVE IInv'
<1>1. UNCHANGED <<outState, audec, mem, needStop, state, gbst, ops, list, ctl, gp, dec,
                  pool>>
  BY DEF SpawnOut, streamVars, codecVars, poolVars
<1>2. Types' /\ Session'
  BY <1>1 DEF IInv, Types, Session, Stopping, SpawnOut
<1>3. Codec'
  BY <1>1 DEF IInv, Codec, Live, Stops, Stopping, SpawnOut
<1>4. Pooled'
  BY <1>1 DEF IInv, Pooled, Stopping, SpawnOut
<1>5. Pauses'
  BY <1>1 DEF IInv, Pauses, WantsPaused, PauseCmds, SpawnOut
<1>. QED
  BY <1>2, <1>3, <1>4, <1>5 DEF IInv

\* The state of the output thread follows the message.
LEMMA SetOutStateIInv == ASSUME IInv, SetOutState PROVE IInv'
<1>1. UNCHANGED <<initd, audec, mem, needStop, state, gbst, ops, list, ctl, gp, dec, out,
                  pool>>
  BY DEF SetOutState, codecVars, threadVars
<1>2. Types' /\ Session'
  BY <1>1 DEF IInv, Types, Session, Stopping, SetOutState
<1>3. Codec'
  BY <1>1 DEF IInv, Codec, Live, Stops, Stopping, SetOutState
<1>4. Pooled'
  BY <1>1 DEF IInv, Pooled, Stopping, SetOutState
<1>5. Pauses'
  BY <1>1 DEF IInv, Pauses, WantsPaused, PauseCmds, SetOutState
<1>. QED
  BY <1>2, <1>3, <1>4, <1>5 DEF IInv

\* Stopping the demultiplexer changes nothing that is claimed.
LEMMA StopDmxIInv == ASSUME IInv, StopDmx PROVE IInv'
<1>1. UNCHANGED <<outState, initd, audec, mem, needStop, state, gbst, ops, list, ctl, gp,
                  dec, out, pool>>
  BY DEF StopDmx, callVars, codecVars, threadVars
<1>2. Types' /\ Session'
  BY <1>1 DEF IInv, Types, Session, Stopping, StopDmx
<1>3. Codec'
  BY <1>1 DEF IInv, Codec, Live, Stops, Stopping, StopDmx
<1>4. Pooled'
  BY <1>1 DEF IInv, Pooled, StopDmx
<1>5. Pauses'
  BY <1>1 DEF IInv, Pauses, WantsPaused, StopDmx
<1>. QED
  BY <1>2, <1>3, <1>4, <1>5 DEF IInv

\* A stop begins; the output thread is told to end.
LEMMA StopIInv == ASSUME IInv, Stop PROVE IInv'
<1>1. UNCHANGED <<initd, audec, mem, needStop, state, gbst, ops, list, ctl, gp, dec, out,
                  pool>>
  BY DEF Stop, codecVars, threadVars
<1>2. Types' /\ Session'
  BY <1>1 DEF IInv, Types, Session, Stopping, Stop
<1>3. Codec'
  BY <1>1 DEF IInv, Codec, Live, Stops, Stopping, Stop
<1>4. Pooled'
  BY <1>1 DEF IInv, Pooled, Stopping, Stop
<1>5. Pauses'
  BY <1>1 DEF Pauses, PauseCmds, Stop
<1>. QED
  BY <1>2, <1>3, <1>4, <1>5 DEF IInv

\* The output thread is gone before STOP is sent.
LEMMA JoinOutIInv == ASSUME IInv, JoinOut PROVE IInv'
<1>1. UNCHANGED <<outState, initd, audec, mem, needStop, state, gbst, ops, list, ctl, gp,
                  dec, pool>>
  BY DEF JoinOut, callVars, codecVars
<1>2. Types' /\ Session'
  BY <1>1 DEF IInv, Types, Session, JoinOut
<1>3. Codec'
  BY <1>1 DEF IInv, Codec, Live, Stops, Stopping, JoinOut
<1>4. Pooled'
  BY <1>1 DEF IInv, Session, Pooled, Settled, JoinOut
<1>5. Pauses'
  BY <1>1 DEF Pauses, PauseCmds, JoinOut
<1>. QED
  BY <1>2, <1>3, <1>4, <1>5 DEF IInv

\* need_stop is set before STOP is sent.
LEMMA NeedStopIInv == ASSUME IInv, NeedStop PROVE IInv'
<1>1. UNCHANGED <<outState, initd, audec, mem, state, gbst, ops, list, ctl, gp, dec, out,
                  pool>>
  BY DEF NeedStop, callVars, codecVars, threadVars
<1>2. Types' /\ Session'
  BY <1>1 DEF IInv, Types, Session, NeedStop
<1>3. Codec'
  BY <1>1 DEF IInv, Codec, Live, Stops, Stopping, NeedStop
<1>4. Pooled'
  BY <1>1 DEF IInv, Pooled, Stopping, NeedStop
<1>5. Pauses'
  BY <1>1 DEF Pauses, PauseCmds, NeedStop
<1>. QED
  BY <1>2, <1>3, <1>4, <1>5 DEF IInv

\* Cancelling the pool leaves the memory and the messages alone.
LEMMA CancelIInv == ASSUME IInv, Cancel PROVE IInv'
<1>1. UNCHANGED <<outState, initd, audec, mem, needStop, state, gbst, ops, list, ctl, gp,
                  dec, out, pool>>
  BY DEF Cancel, callVars, codecVars, threadVars
<1>2. Types' /\ Session'
  BY <1>1 DEF IInv, Types, Session, Stopping, Cancel
<1>3. Codec'
  BY <1>1 DEF IInv, Codec, Live, Stops, Stopping, Cancel
<1>4. Pooled'
  BY <1>1 DEF IInv, Pooled, Settled, Stops, Stopping, Cancel
<1>5. Pauses'
  BY <1>1 DEF Pauses, PauseCmds, Cancel
<1>. QED
  BY <1>2, <1>3, <1>4, <1>5 DEF IInv

\* The control thread has ended: nobody uses the decoder that is freed.
LEMMA JoinCtlIInv == ASSUME IInv, JoinCtl PROVE IInv'
<1>1. ctl = "exited" /\ UNCHANGED <<outState, needStop, state, gbst, ops, list, gp, dec, out, pool>>
  BY DEF JoinCtl, ControlExited, streamVars, codecVars
<1>2. Types' /\ Session'
  BY Zenon, <1>1 DEF IInv, Types, Session, Codec, Stopping, Live, JoinCtl
<1>3. Codec'
  BY <1>1 DEF IInv, Codec, Live, JoinCtl
<1>4. Pooled'
  BY <1>1, EmptyPool DEF IInv, Codec, Pooled, JoinCtl
<1>5. Pauses'
  BY <1>1 DEF Pauses, JoinCtl
<1>. QED
  BY <1>2, <1>3, <1>4, <1>5 DEF IInv

\* The PCM buffer is allocated, or the initialisation fails without it.
LEMMA CodecInitBufferIInv == ASSUME IInv, CodecInitBuffer PROVE IInv'
<1>1. UNCHANGED <<cpc, outState, initd, audec, mem, needStop, ops, gp, dec, out, pool>>
  BY DEF CodecInitBuffer, ctlRest, poolVars, callVars
<1>2. Types' /\ Session'
  BY ZenonT(60), <1>1 DEF IInv, Types, Session, Codec, Stopping, Live, Stops, CodecInitBuffer
<1>3. Codec'
  BY <1>1 DEF IInv, Codec, Live, CodecInitBuffer
<1>4. Pooled'
  BY <1>1 DEF IInv, Pooled, Settled, CodecInitBuffer
<1>5. Pauses'
  BY <1>1 DEF IInv, Codec, Pauses, WantsPaused, CodecInitBuffer
<1>. QED
  BY <1>2, <1>3, <1>4, <1>5 DEF IInv

\* The operations are set, or the buffer is freed again.
LEMMA CodecInitOpsIInv == ASSUME IInv, CodecInitOps PROVE IInv'
<1>1. UNCHANGED <<cpc, outState, initd, audec, mem, needStop, list, gp, dec, out, pool>>
  BY DEF CodecInitOps, ctlRest, poolVars, callVars
<1>2. Types' /\ Session'
  BY Zenon, <1>1 DEF IInv, Types, Session, Codec, Stopping, Live, CodecInitOps
<1>3. Codec'
  <2>1. CASE ops' = TRUE /\ state' = "INITTED" /\ ctl' = "spawn_gp" /\ gbst' = gbst
    BY <1>1, <2>1 DEF IInv, Codec, Live, CodecInitOps
  <2>2. CASE gbst' = FALSE /\ ctl' = "init" /\ UNCHANGED <<ops, state>>
    BY <1>1, <2>2 DEF IInv, Codec, Live, CodecInitOps
  <2>. QED  BY Zenon, <2>1, <2>2 DEF CodecInitOps
<1>4. Pooled'
  BY <1>1 DEF IInv, Pooled, Settled, CodecInitOps
<1>5. Pauses'
  BY Zenon, <1>1 DEF IInv, Codec, Pauses, WantsPaused, CodecInitOps
<1>. QED
  BY <1>2, <1>3, <1>4, <1>5 DEF IInv

\* A stop during the initialisation leads to the messages.
LEMMA InitStoppedIInv == ASSUME IInv, InitStopped PROVE IInv'
<1>1. UNCHANGED <<cpc, outState, initd, audec, mem, needStop, gbst, ops, list, gp, dec, out,
                  pool>>
  BY DEF InitStopped, ctlRest, poolVars, callVars
<1>2. Types' /\ Session'
  BY <1>1 DEF IInv, Types, Session, InitStopped
<1>3. Codec'
  BY <1>1 DEF IInv, Codec, Live, Stops, InitStopped
<1>4. Pooled'
  BY <1>1 DEF IInv, Pooled, Settled, InitStopped
<1>5. Pauses'
  BY <1>1 DEF IInv, Codec, Pauses, WantsPaused, InitStopped
<1>. QED
  BY <1>2, <1>3, <1>4, <1>5 DEF IInv

\* The reader is created with buffer and operations there.
LEMMA SpawnGpIInv == ASSUME IInv, SpawnGp PROVE IInv'
<1>1. UNCHANGED <<cpc, outState, initd, audec, mem, needStop, state, gbst, ops, list, dec,
                  out, pool>>
  BY DEF SpawnGp, ctlRest, codecVars, callVars
<1>2. Types' /\ Session'
  BY <1>1 DEF IInv, Types, Session, SpawnGp
<1>3. Codec'
  BY <1>1 DEF IInv, Codec, Live, Gone, SpawnGp
<1>4. Pooled'
  BY <1>1 DEF IInv, Pooled, Settled, SpawnGp
<1>5. Pauses'
  BY <1>1 DEF IInv, Pauses, WantsPaused
<1>. QED
  BY <1>2, <1>3, <1>4, <1>5 DEF IInv

\* So is the decoder.
LEMMA SpawnDecIInv == ASSUME IInv, SpawnDec PROVE IInv'
<1>1. UNCHANGED <<cpc, outState, initd, audec, mem, needStop, state, gbst, ops, list, gp,
                  out, pool>>
  BY DEF SpawnDec, ctlRest, codecVars, callVars
<1>2. Types' /\ Session'
  BY <1>1 DEF IInv, Types, Session, SpawnDec
<1>3. Codec'
  BY <1>1 DEF IInv, Codec, Live, SpawnDec
<1>4. Pooled'
  BY <1>1 DEF IInv, Pooled, Settled, SpawnDec
<1>5. Pauses'
  BY <1>1 DEF IInv, Pauses, WantsPaused
<1>. QED
  BY <1>2, <1>3, <1>4, <1>5 DEF IInv

\* Waiting for the format changes nothing that is claimed.
LEMMA WaitFormatIInv == ASSUME IInv, WaitFormat PROVE IInv'
<1>1. UNCHANGED <<cpc, outState, initd, audec, mem, needStop, state, gbst, ops, list, gp,
                  dec, out, pool>>
  BY DEF WaitFormat, ctlRest, codecVars, callVars
<1>2. Types' /\ Session'
  BY <1>1 DEF IInv, Types, Session, WaitFormat
<1>3. Codec'
  BY <1>1 DEF IInv, Codec, Live, WaitFormat
<1>4. Pooled'
  BY <1>1 DEF IInv, Pooled, Settled, WaitFormat
<1>5. Pauses'
  BY <1>1 DEF IInv, Pauses, WantsPaused
<1>. QED
  BY <1>2, <1>3, <1>4, <1>5 DEF IInv

\* start_adec moves the control thread on, and nothing else.
LEMMA StartAdecIInv == ASSUME IInv, StartAdec PROVE IInv'
<1>1. UNCHANGED <<cpc, outState, initd, audec, mem, needStop, state, gbst, ops, list, gp,
                  dec, out, pool>>
  BY DEF StartAdec, ctlRest, codecVars, callVars
<1>2. Types' /\ Session'
  BY <1>1 DEF IInv, Types, Session, StartAdec
<1>3. Codec'
  BY <1>1 DEF IInv, Codec, Live, Stops, StartAdec
<1>4. Pooled'
  BY <1>1 DEF IInv, Pooled, Settled, StartAdec
<1>5. Pauses'
  BY <1>1 DEF IInv, Pauses, WantsPaused
<1>. QED
  BY <1>2, <1>3, <1>4, <1>5 DEF IInv

\* The decoder runs: messages are served from here on.
LEMMA ActivateIInv == ASSUME IInv, Activate PROVE IInv'
<1>1. UNCHANGED <<cpc, outState, initd, audec, mem, needStop, gbst, ops, list, gp, dec, out,
                  pool>>
  BY DEF Activate, ctlRest, poolVars, callVars
<1>2. Types' /\ Session'
  BY <1>1 DEF IInv, Types, Session, Activate
<1>3. Codec'
  BY <1>1 DEF IInv, Codec, Live, Stops, Activate
<1>4. Pooled'
  BY <1>1 DEF IInv, Pooled, Settled, Activate
<1>5. Pauses'
  BY <1>1 DEF IInv, Codec, Pauses, WantsPaused, Activate
<1>. QED
  BY <1>2, <1>3, <1>4, <1>5 DEF IInv

\* The decoder has ended before the reader is joined.
LEMMA JoinDecIInv == ASSUME IInv, JoinDec PROVE IInv'
<1>1. UNCHANGED <<cpc, outState, initd, audec, mem, needStop, state, gbst, ops, list, gp,
                  out, pool>>
  BY DEF JoinDec, ctlRest, codecVars, callVars
<1>2. Types' /\ Session'
  BY <1>1 DEF IInv, Types, Session, JoinDec
<1>3. Codec'
  BY <1>1 DEF IInv, Codec, Live, JoinDec
<1>4. Pooled'
  BY <1>1 DEF IInv, Pooled, Settled, JoinDec
<1>5. Pauses'
  BY <1>1 DEF IInv, Pauses, WantsPaused
<1>. QED
  BY <1>2, <1>3, <1>4, <1>5 DEF IInv

\* Both have ended before the buffer is freed.
LEMMA JoinGpIInv == ASSUME IInv, JoinGp PROVE IInv'
<1>1. UNCHANGED <<cpc, outState, initd, audec, mem, needStop, state, gbst, ops, list, dec,
                  out, pool>>
  BY DEF JoinGp, ctlRest, codecVars, callVars
<1>2. Types' /\ Session'
  BY <1>1 DEF IInv, Types, Session, JoinGp
<1>3. Codec'
  BY <1>1 DEF IInv, Codec, Gone, JoinGp
<1>4. Pooled'
  BY <1>1 DEF IInv, Pooled, Settled, JoinGp
<1>5. Pauses'
  BY <1>1 DEF IInv, Pauses, WantsPaused
<1>. QED
  BY <1>2, <1>3, <1>4, <1>5 DEF IInv

\* The buffer is freed when nobody can read it.
LEMMA ReleasePcmIInv == ASSUME IInv, ReleasePcm PROVE IInv'
<1>1. UNCHANGED <<cpc, outState, initd, audec, mem, needStop, state, ops, list, gp, dec,
                  out, pool>>
  BY DEF ReleasePcm, ctlRest, poolVars, callVars
<1>2. Types' /\ Session'
  BY Zenon, <1>1 DEF IInv, Types, Session, Codec, Stopping, Live, ReleasePcm
<1>3. Codec'
  BY <1>1 DEF IInv, Codec, Live, ReleasePcm
<1>4. Pooled'
  BY <1>1 DEF IInv, Pooled, Settled, ReleasePcm
<1>5. Pauses'
  BY <1>1 DEF IInv, Pauses, WantsPaused
<1>. QED
  BY <1>2, <1>3, <1>4, <1>5 DEF IInv

\* The operations are cleared after the buffer.
LEMMA ReleaseOpsIInv == ASSUME IInv, ReleaseOps PROVE IInv'
<1>1. UNCHANGED <<cpc, outState, initd, audec, mem, needStop, state, gbst, list, gp, dec,
                  out, pool>>
  BY DEF ReleaseOps, ctlRest, poolVars, callVars
<1>2. Types' /\ Session'
  BY Zenon, <1>1 DEF IInv, Types, Session, Codec, Stopping, Live, ReleaseOps
<1>3. Codec'
  BY <1>1 DEF IInv, Codec, Live, Stops, ReleaseOps
<1>4. Pooled'
  BY <1>1 DEF IInv, Codec, Pooled, Settled, Stops, ReleaseOps
<1>5. Pauses'
  BY <1>1 DEF IInv, Pauses, WantsPaused
<1>. QED
  BY <1>2, <1>3, <1>4, <1>5 DEF IInv
\* A session is started when the last one is over; its decoder is new.
LEMMA StartIInv == ASSUME IInv, Start PROVE IInv'
<1>1. /\ cpc = "idle" /\ ~initd /\ outState' = "RUNNING" /\ cpc' = "start"
      /\ out = "none" /\ audec = FALSE /\ mem = FALSE /\ ctl = "none"
      /\ UNCHANGED <<initd, out, gp, dec>>
  BY DEF IInv, Types, Session, Start
<1>2. gp = "none" /\ dec = "none" /\ list = 0 /\ ~gbst /\ ~ops /\ pool = <<>>
  <2>1. Len(pool) = 0 /\ pool \in Seq(Cmds)
    BY <1>1 DEF IInv, Types, Pooled
  <2>. QED  BY <1>1, <2>1, EmptySeq DEF IInv, Codec, Live, Gone
<1>3. CASE DecodeInit
  <2>1. /\ audec' = TRUE /\ mem' = TRUE /\ ctl' = "init" /\ needStop' = FALSE /\ state' = "IDLE"
        /\ gbst' = FALSE /\ ops' = FALSE /\ list' = 0 /\ pool' = <<>>
    BY <1>3 DEF DecodeInit
  <2>2. Len(pool') = 0 /\ pool' \in Seq(Cmds) /\ Len(pool') <= PoolMax
    BY <2>1, EmptyPool, PoolTwo
  <2>3. Types' /\ Session'
    BY Zenon, <1>1, <2>1, <2>2 DEF IInv, Types, Session
  <2>4. Codec'
    BY <1>1, <1>2, <2>1 DEF Codec, Live, Gone
  <2>5. Pooled' /\ Pauses'
    BY <1>1, <2>1, <2>2 DEF Pooled, Pauses, WantsPaused
  <2>. QED  BY <2>3, <2>4, <2>5 DEF IInv
<1>4. CASE DecodeInitFails
  <2>1. audec' = FALSE /\ UNCHANGED <<mem, ctl, needStop, state, gbst, ops, list, pool>>
    BY <1>4 DEF DecodeInitFails, codecVars
  <2>2. Types'
    BY ZenonT(60), <1>1, <2>1 DEF IInv, Types
  <2>3. Session'
    BY Zenon, <1>1, <2>1 DEF Session
  <2>4. Codec'
    BY <1>1, <1>2, <2>1 DEF Codec, Live, Gone
  <2>5. Pooled' /\ Pauses'
    BY <1>1, <1>2, <2>1, EmptyPool DEF Pooled, Pauses, Stopping
  <2>. QED  BY <2>2, <2>3, <2>4, <2>5 DEF IInv
<1>. QED
  BY <1>3, <1>4 DEF Start

\* A pause or resume is the last in the pool, whatever it pushes out.
LEMMA PauseOrResumeIInv ==
  ASSUME IInv, NEW m \in PauseCmds, PauseOrResume(m)
  PROVE  IInv'
<1>1. /\ cpc = "idle" /\ cpc' = m /\ m \in Cmds
      /\ UNCHANGED <<outState, initd, audec, mem, needStop, state, gbst, ops, list, ctl, gp, dec, out>>
  BY DEF PauseOrResume, codecVars, threadVars, PauseCmds, Cmds
<1>2. CASE ~audec /\ UNCHANGED pool
  <2>1. Types' /\ Session'
    BY <1>1, <1>2 DEF IInv, Types, Session, PauseCmds, Stopping
  <2>2. Codec'
    BY <1>1, <1>2 DEF IInv, Codec, Live, Stops, Stopping
  <2>3. Pooled' /\ Pauses'
    BY <1>1, <1>2 DEF IInv, Pooled, Pauses, PauseCmds
  <2>. QED  BY <2>1, <2>2, <2>3 DEF IInv
<1>3. CASE audec /\ Pool!Put(m)
  <2>1. /\ pool' \in Seq(Cmds) /\ Len(pool) \in Nat
        /\ Len(pool') = IF Len(pool) = PoolMax THEN Len(pool) ELSE Len(pool) + 1
        /\ Len(pool') <= PoolMax /\ Len(pool') > 0
        /\ pool'[Len(pool')] = m
        /\ \A i \in 1 .. Len(pool') - 1 : pool'[i] = pool[i + Len(pool) - Len(pool') + 1]
    <3>1. pool \in Seq(Cmds) /\ Len(pool) <= PoolMax /\ m \in Cmds
      BY <1>1 DEF IInv, Types
    <3>. QED  BY <1>3, <3>1, PutPool
  <2>2. Types' /\ Session'
    <3>1. Types'
      BY <1>1, <2>1 DEF IInv, Types, PauseCmds
    <3>2. Session'
      BY <1>1 DEF IInv, Session, PauseCmds, Stopping
    <3>. QED  BY <3>1, <3>2
  <2>3. Codec'
    <3>1. ctl # "exited"
      BY <1>1 DEF IInv, Codec
    <3>. QED  BY <1>1, <3>1 DEF IInv, Codec, Live, Stops, Stopping
  <2>4. Pooled'
    <3>1. \A i \in 1 .. Len(pool) : pool[i] \in PauseCmds
      BY <1>1 DEF IInv, Pooled, Stopping
    <3>2. ASSUME NEW i \in 1 .. Len(pool') PROVE pool'[i] \in PauseCmds
      <4>1. CASE i = Len(pool')
        BY <2>1, <4>1
      <4>2. CASE i # Len(pool')
        <5>1. i \in 1 .. Len(pool') - 1 /\ i + Len(pool) - Len(pool') + 1 \in 1 .. Len(pool)
          BY <2>1, <4>2
        <5>. QED  BY Zenon, <2>1, <3>1, <5>1
      <4>. QED  BY <4>1, <4>2
    <3>. QED  BY <1>1, <1>3, <3>2 DEF Pooled, Stopping, PauseCmds
  <2>5. Pauses'
    BY <1>1, <2>1 DEF Pauses, WantsPaused, PauseCmds
  <2>. QED  BY <2>2, <2>3, <2>4, <2>5 DEF IInv
<1>. QED
  BY <1>2, <1>3 DEF PauseOrResume, Send

\* STOP comes behind the pauses and resumes.
LEMMA SendStopIInv == ASSUME IInv, SendStop PROVE IInv'
<1>1. /\ cpc = "send_stop" /\ cpc' = "cancel" /\ audec /\ Pool!Put("STOP")
      /\ UNCHANGED <<outState, initd, audec, mem, needStop, state, gbst, ops, list, ctl, gp, dec, out>>
  BY DEF IInv, Session, SendStop, Send, callVars, codecVars, threadVars
<1>2. /\ pool' \in Seq(Cmds) /\ Len(pool) \in Nat
      /\ Len(pool') = IF Len(pool) = PoolMax THEN Len(pool) ELSE Len(pool) + 1
      /\ Len(pool') <= PoolMax /\ Len(pool') > 0
      /\ pool'[Len(pool')] = "STOP"
      /\ \A i \in 1 .. Len(pool') - 1 : pool'[i] = pool[i + Len(pool) - Len(pool') + 1]
  BY <1>1, PutPool DEF IInv, Types, Cmds
<1>3. Types' /\ Session'
  BY <1>1, <1>2 DEF IInv, Types, Session, Stopping
<1>4. Codec'
  BY <1>1 DEF IInv, Codec, Live, Stops, Stopping
<1>5. Pooled'
  <2>1. \A i \in 1 .. Len(pool) : pool[i] \in PauseCmds
    BY <1>1 DEF IInv, Pooled, Stopping
  <2>2. ASSUME NEW i \in 1 .. Len(pool')
        PROVE  IF i = Len(pool') THEN pool'[i] = "STOP" ELSE pool'[i] \in PauseCmds
    <3>1. CASE i # Len(pool')
      <4>1. i \in 1 .. Len(pool') - 1 /\ i + Len(pool) - Len(pool') + 1 \in 1 .. Len(pool)
        BY <1>2, <3>1
      <4>. QED  BY Zenon, <1>2, <2>1, <3>1, <4>1
    <3>. QED  BY <1>2, <3>1
  <2>. QED  BY <1>1, <1>2, <2>2 DEF Pooled, Stopping
<1>6. Pauses'
  BY <1>1 DEF Pauses, PauseCmds
<1>. QED
  BY <1>3, <1>4, <1>5, <1>6 DEF IInv

\* RELEASE comes behind STOP: the pool has room for both.
LEMMA ReleaseIInv == ASSUME IInv, Release PROVE IInv'
<1>1. /\ cpc = "release"
      /\ UNCHANGED <<outState, initd, audec, mem, needStop, state, gbst, ops, list, ctl, gp, dec, out>>
  BY DEF Release, callVars, codecVars, threadVars
<1>2. CASE ~audec /\ cpc' = "crashed" /\ UNCHANGED pool
  <2>1. Types' /\ Session'
    BY <1>1, <1>2 DEF IInv, Types, Session, Stopping
  <2>2. Codec'
    BY <1>1, <1>2 DEF IInv, Session, Codec, Live
  <2>3. Pooled' /\ Pauses'
    BY <1>1, <1>2 DEF IInv, Pooled, Pauses, Stopping
  <2>. QED  BY <2>1, <2>2, <2>3 DEF IInv
<1>3. CASE audec /\ cpc' = "join_ctl" /\ Pool!Put("RELEASE")
  <2>. DEFINE n == Len(pool)
              k == Len(pool')
  <2>1. /\ pool' \in Seq(Cmds) /\ n \in Nat
        /\ k = IF n = PoolMax THEN n ELSE n + 1
        /\ k <= PoolMax /\ k > 0
        /\ pool'[k] = "RELEASE"
        /\ \A i \in 1 .. k - 1 : pool'[i] = pool[i + n - k + 1]
    BY <1>3, PutPool DEF IInv, Types, Cmds
  <2>2. Types' /\ Session'
    BY <1>1, <1>3, <2>1 DEF IInv, Types, Session, Stopping
  <2>3. Codec'
    BY <1>1, <1>3 DEF IInv, Codec, Live, Stops, Stopping
  <2>4. Pooled'
    <3>1. /\ \A i \in 1 .. n : IF i = n THEN pool[i] = "STOP" ELSE pool[i] \in PauseCmds
          /\ n = 0 => Settled
      BY <1>1 DEF IInv, Pooled
    <3>. HIDE DEF n, k
    <3>2. ASSUME NEW i \in 1 .. k
          PROVE  IF i = k THEN pool'[i] = "RELEASE"
                 ELSE IF i = k - 1 THEN pool'[i] = "STOP" ELSE pool'[i] \in PauseCmds
      <4>1. CASE i # k
        <5>1. i \in 1 .. k - 1 /\ i + n - k + 1 \in 1 .. n /\ (i + n - k + 1 = n <=> i = k - 1)
          BY <2>1, <4>1
        <5>. QED  BY <2>1, <3>1, <4>1, <5>1
      <4>. QED  BY <2>1, <4>1
    <3>3. k = 1 => Settled'
      <4>1. k = 1 => n = 0
        BY <2>1, PoolTwo
      <4>2. Settled => Settled'
        BY <1>1 DEF Settled, Stops
      <4>. QED  BY <3>1, <4>1, <4>2
    <3>. QED  BY <1>1, <1>3, <2>1, <3>2, <3>3 DEF Pooled, Stopping, k
  <2>5. Pauses'
    BY <1>3 DEF Pauses, PauseCmds
  <2>. QED  BY <2>2, <2>3, <2>4, <2>5 DEF IInv
<1>. QED
  BY <1>2, <1>3 DEF Release, Send
\* A pause or resume is served.  The one that was called last is the last to be served.
LEMMA HandlePauseResumeIInv ==
  ASSUME IInv, HandlePause \/ HandleResume
  PROVE  IInv'
<1>. DEFINE n == Len(pool)
            k == Len(pool')
<1>1. PICK m \in PauseCmds :
        /\ ctl = "msg" /\ Pool!Get(m) /\ m \in Cmds
        /\ state' = IF m = "PAUSE" THEN IF state = "ACTIVE" THEN "PAUSED" ELSE state
                                   ELSE IF state = "PAUSED" THEN "ACTIVE" ELSE state
  BY DEF HandlePause, HandleResume, PauseCmds, Cmds
<1>2. UNCHANGED <<cpc, outState, initd, audec, mem, needStop, gbst, ops, list, ctl, gp, dec,
                  out>>
  BY DEF HandlePause, HandleResume, ctlRest, callVars
<1>3. /\ pool' \in Seq(Cmds) /\ n \in Nat \ {0} /\ pool[1] = m /\ k = n - 1
      /\ \A i \in 1 .. k : pool'[i] = pool[i + 1]
  BY <1>1, GetPool DEF IInv, Types
<1>4. Types' /\ Session'
  BY <1>1, <1>2, <1>3, PoolTwo DEF IInv, Types, Session
<1>5. Codec'
  BY <1>1, <1>2 DEF IInv, Codec, Live, Stops
<1>6. (Settled' <=> Settled) /\ audec
  BY <1>1, <1>2 DEF IInv, Session, Settled, Stops
<1>7. Pooled'
  <2>1. n \in 1 .. n /\ 1 \in 1 .. n
    BY <1>3
  <2>. HIDE DEF n, k
  <2>2. \A i \in 1 .. k : i + 1 \in 1 .. n /\ (i = k <=> i + 1 = n) /\ (i = k - 1 <=> i + 1 = n - 1)
    BY <1>3
  <2>3. CASE cpc \notin Stopping
    <3>1. \A i \in 1 .. n : pool[i] \in PauseCmds
      BY <2>3 DEF IInv, Pooled, n
    <3>2. \A i \in 1 .. k : pool'[i] \in PauseCmds
      BY <1>3, <2>2, <3>1
    <3>. QED  BY <1>2, <1>6, <2>3, <3>2 DEF Pooled, Stopping, k
  <2>4. CASE cpc \in {"cancel", "release"}
    <3>1. \A i \in 1 .. n : IF i = n THEN pool[i] = "STOP" ELSE pool[i] \in PauseCmds
      BY <2>4 DEF IInv, Pooled, n
    <3>2. k # 0
      BY <1>3, <2>1, <3>1 DEF PauseCmds
    <3>3. \A i \in 1 .. k : IF i = k THEN pool'[i] = "STOP" ELSE pool'[i] \in PauseCmds
      BY <1>3, <2>2, <3>1
    <3>. QED  BY <1>2, <1>6, <2>4, <3>2, <3>3 DEF Pooled, Stopping, k
  <2>5. CASE cpc = "join_ctl"
    <3>1. \A i \in 1 .. n : IF i = n THEN pool[i] = "RELEASE"
                            ELSE IF i = n - 1 THEN pool[i] = "STOP" ELSE pool[i] \in PauseCmds
      BY <2>5 DEF IInv, Pooled, n
    <3>2. n # 1 /\ n # 2
      BY <1>3, <2>1, <3>1 DEF PauseCmds
    <3>3. k # 0 /\ k # 1
      BY <1>3, <3>2
    <3>4. \A i \in 1 .. k : IF i = k THEN pool'[i] = "RELEASE"
                            ELSE IF i = k - 1 THEN pool'[i] = "STOP" ELSE pool'[i] \in PauseCmds
      BY <1>3, <2>2, <3>1
    <3>. QED  BY <1>2, <1>6, <2>5, <3>3, <3>4 DEF Pooled, Stopping, k
  <2>. QED  BY <2>3, <2>4, <2>5 DEF Stopping
<1>8. Pauses'
  <2>. SUFFICES ASSUME cpc \in {"idle", "start"} \cup PauseCmds
                PROVE  IF k > 0 THEN (pool'[k] = "PAUSE" <=> WantsPaused)
                                ELSE (state' = "PAUSED" <=> WantsPaused)
    BY <1>2 DEF Pauses, WantsPaused
  <2>1. pool[n] = "PAUSE" <=> WantsPaused
    BY <1>3, <1>6 DEF IInv, Pauses
  <2>2. state \in {"ACTIVE", "PAUSED"}
    BY <1>1, <1>6 DEF IInv, Session, Codec, Stopping, PauseCmds
  <2>. HIDE DEF n, k
  <2>3. CASE k > 0
    <3>1. k \in 1 .. k /\ k + 1 = n
      BY <1>3, <2>3
    <3>. QED  BY <1>3, <2>1, <2>3, <3>1
  <2>4. CASE ~(k > 0)
    <3>1. n = 1
      BY <1>3, <2>4
    <3>2. m = "PAUSE" <=> WantsPaused
      BY <1>3, <2>1, <3>1
    <3>3. state' = "PAUSED" <=> m = "PAUSE"
      BY <1>1, <2>2 DEF PauseCmds
    <3>. QED  BY <2>4, <3>2, <3>3
  <2>. QED  BY <2>3, <2>4
<1>. QED
  BY <1>4, <1>5, <1>7, <1>8 DEF IInv

\* STOP is served: the decoder is stopped, or was never initialised.
LEMMA HandleStopIInv == ASSUME IInv, HandleStop PROVE IInv'
<1>. DEFINE n == Len(pool)
            k == Len(pool')
<1>1. /\ ctl = "msg" /\ Pool!Get("STOP") /\ "STOP" \in Cmds
      /\ UNCHANGED <<cpc, outState, initd, audec, mem, needStop, gbst, ops, list, gp, dec, out>>
  BY DEF HandleStop, ctlRest, callVars, Cmds
<1>2. /\ pool' \in Seq(Cmds) /\ n \in Nat \ {0} /\ pool[1] = "STOP" /\ k = n - 1
      /\ \A i \in 1 .. k : pool'[i] = pool[i + 1]
  BY <1>1, GetPool DEF IInv, Types
<1>3. \/ Stops /\ state' = "STOPPED" /\ ctl' = "join_dec"
      \/ ~Stops /\ state' = state /\ ctl' = ctl
  BY DEF HandleStop
<1>4. Settled' /\ audec
  BY <1>1, <1>3 DEF IInv, Session, Settled, Stops
<1>5. 1 \in 1 .. n /\ n \in 1 .. n
  BY <1>2
<1>6. cpc \in Stopping
  BY <1>2, <1>5 DEF IInv, Pooled, PauseCmds
<1>7. Types' /\ Session'
  BY <1>1, <1>2, <1>3, PoolTwo DEF IInv, Types, Session
<1>8. Codec'
  BY <1>1, <1>3, <1>6 DEF IInv, Codec, Live, Stops
<1>9. Pooled'
  <2>. HIDE DEF n, k
  <2>1. CASE cpc \in {"cancel", "release"}
    <3>1. \A i \in 1 .. n : IF i = n THEN pool[i] = "STOP" ELSE pool[i] \in PauseCmds
      BY <2>1 DEF IInv, Pooled, n
    <3>2. n = 1
      BY <1>2, <1>5, <3>1 DEF PauseCmds
    <3>3. k = 0
      BY <1>2, <3>2
    <3>. QED  BY <1>1, <1>4, <2>1, <3>3 DEF Pooled, Stopping, k
  <2>2. CASE cpc = "join_ctl"
    <3>1. \A i \in 1 .. n : IF i = n THEN pool[i] = "RELEASE"
                            ELSE IF i = n - 1 THEN pool[i] = "STOP" ELSE pool[i] \in PauseCmds
      BY <2>2 DEF IInv, Pooled, n
    <3>2. n = 2
      BY <1>2, <1>5, <3>1 DEF PauseCmds
    <3>3. k = 1 /\ pool'[1] = pool[2] /\ pool[2] = "RELEASE"
      BY <1>2, <3>1, <3>2
    <3>4. \A i \in 1 .. k : i = 1
      BY <3>3
    <3>. QED  BY <1>1, <1>4, <2>2, <3>3, <3>4 DEF Pooled, Stopping, k
  <2>. QED  BY <1>6, <2>1, <2>2 DEF Stopping
<1>10. Pauses'
  BY <1>1, <1>6 DEF Pauses, PauseCmds, Stopping
<1>. QED
  BY <1>7, <1>8, <1>9, <1>10 DEF IInv

\* RELEASE is served last, when STOP has been.
LEMMA HandleReleaseIInv == ASSUME IInv, HandleRelease PROVE IInv'
<1>. DEFINE n == Len(pool)
            k == Len(pool')
<1>1. /\ ctl = "msg" /\ Pool!Get("RELEASE") /\ "RELEASE" \in Cmds
      /\ state' = "TERMINATED" /\ ctl' = "exited"
      /\ UNCHANGED <<cpc, outState, initd, audec, mem, needStop, gbst, ops, list, gp, dec, out>>
  BY DEF HandleRelease, ctlRest, callVars, Cmds
<1>2. /\ pool' \in Seq(Cmds) /\ n \in Nat \ {0} /\ pool[1] = "RELEASE" /\ k = n - 1
  BY <1>1, GetPool DEF IInv, Types
<1>3. 1 \in 1 .. n
  BY <1>2
<1>4. cpc = "join_ctl"
  <2>1. cpc \in Stopping
    BY <1>2, <1>3 DEF IInv, Pooled, PauseCmds
  <2>2. cpc \notin {"cancel", "release"}
    BY <1>2, <1>3 DEF IInv, Pooled, PauseCmds
  <2>. QED  BY <2>1, <2>2 DEF Stopping
<1>5. n = 1 /\ k = 0 /\ Settled
  <2>1. \A i \in 1 .. n : IF i = n THEN pool[i] = "RELEASE"
                          ELSE IF i = n - 1 THEN pool[i] = "STOP" ELSE pool[i] \in PauseCmds
    BY <1>4 DEF IInv, Pooled
  <2>2. n = 1
    BY <1>2, <1>3, <2>1 DEF PauseCmds
  <2>. QED  BY <1>2, <1>4, <2>2 DEF IInv, Pooled
<1>6. pool' = <<>>
  BY <1>2, <1>5, EmptySeq
<1>7. Types' /\ Session'
  BY <1>1, <1>2, <1>5, PoolTwo DEF IInv, Types, Session
<1>8. ~Live
  BY <1>1, <1>5 DEF Live, Settled
<1>9. Codec'
  BY <1>1, <1>4, <1>6, <1>8 DEF IInv, Codec, Live, Gone
<1>10. Pooled' /\ Pauses'
  BY <1>1, <1>4, <1>5 DEF Pooled, Pauses, PauseCmds
<1>. QED
  BY <1>7, <1>9, <1>10 DEF IInv

\* Every step keeps the invariant.
LEMMA NextIInv == ASSUME IInv, [Next]_vars PROVE IInv'
<1>1. CASE Call
  BY <1>1, StartIInv, StopIInv, StopDmxIInv, PauseOrResumeIInv DEF Call, PauseCmds
<1>2. CASE ClientStep
  BY <1>2, SpawnOutIInv, SetOutStateIInv, JoinOutIInv, NeedStopIInv, SendStopIInv,
     CancelIInv,
     ReleaseIInv, JoinCtlIInv DEF ClientStep
<1>3. CASE ControlStep
  BY <1>3, CodecInitBufferIInv, CodecInitOpsIInv, InitStoppedIInv, SpawnGpIInv,
     SpawnDecIInv,
     WaitFormatIInv, StartAdecIInv, ActivateIInv, HandlePauseResumeIInv, HandleStopIInv,
     HandleReleaseIInv, JoinDecIInv, JoinGpIInv, ReleasePcmIInv, ReleaseOpsIInv DEF ControlStep
<1>4. CASE ReaderStep \/ FifoFills \/ DecoderStep \/ OutStep
  BY <1>4, ThreadsIInv
<1>5. CASE UNCHANGED vars
  <2>1. UNCHANGED <<cpc, outState, initd, audec, mem, needStop, state, gbst, ops, list, ctl, gp, dec,
                    out, pool>>
    BY <1>5 DEF vars, callVars, codecVars, threadVars
  <2>2. Types' /\ Session'
    BY <2>1 DEF IInv, Types, Session
  <2>3. Codec'
    BY <2>1 DEF IInv, Codec, Live, Stops
  <2>4. Pooled' /\ Pauses'
    BY <2>1 DEF IInv, Pooled, Pauses, WantsPaused, Settled, Stops
  <2>. QED  BY <2>2, <2>3, <2>4 DEF IInv
<1>. QED
  BY <1>1, <1>2, <1>3, <1>4, <1>5 DEF Next

\* The invariant holds throughout.
LEMMA Inductive == Spec => []IInv
<1>1. Init => IInv
  BY InitIInv
<1>2. IInv /\ [Next]_vars => IInv'
  BY NextIInv
<1>. QED
  BY <1>1, <1>2, PTL DEF Spec

-----------------------------------------------------------------------------
(* What the session promises.                                               *)

\* Nobody looks into the PCM buffer before audio_codec_init has allocated it or
\* after audio_codec_release has freed it: dtv_patch_input_stop joins the output
\* thread before it sends STOP, and stop_decode_thread joins the decoder.
THEOREM PcmBufferAlive == Spec => []PcmAlive
<1>1. IInv => PcmAlive
  <2>. SUFFICES ASSUME IInv PROVE PcmAlive
    OBVIOUS
  <2>1. dec \in {"decode", "write"} => gbst
    BY DEF IInv, Codec
  <2>2. out \in {"level", "read", "write"} => ops /\ cpc \notin Stopping
    BY DEF IInv, Session
  <2>3. GetterEnters => ops /\ cpc \notin Stopping
    BY DEF GetterEnters, Stopping
  <2>4. ops /\ cpc \notin Stopping => gbst
    BY DEF IInv, Codec
  <2>. QED  BY <2>1, <2>2, <2>3, <2>4 DEF PcmAlive
<1>. QED
  BY <1>1, Inductive, PTL

\* audio_decode_release frees the aml_audio_dec_t when all four threads of the session
\* are done with it; of a caller of the unlocked dtv_audio_dec_para_get nothing is said.
THEOREM DecoderOutlivesThreads == Spec => []DecoderAlive
<1>1. IInv => DecoderAlive
  BY DEF IInv, Session, Codec, Live, Gone, DecoderAlive
<1>. QED
  BY <1>1, Inductive, PTL

\* adec_armdec_loop ends only when the codec is released: STOP is served before
\* RELEASE, whatever was in the pool and however full it was.
THEOREM ControlExitsClean == Spec => []ExitsClean
<1>1. IInv => ExitsClean
  BY DEF IInv, Codec, Live, Gone, ExitsClean
<1>. QED
  BY <1>1, Inductive, PTL

\* A running decoder that has served its messages is paused exactly when the
\* client paused it last, although a full pool loses messages.
THEOREM PausedAsAsked == Spec => []PauseFollowed
<1>1. IInv => PauseFollowed
  <2>. SUFFICES ASSUME IInv, cpc = "idle", ctl = "msg", pool = <<>>
                PROVE  state = "PAUSED" <=> outState = "PAUSE"
    BY DEF PauseFollowed
  <2>1. audec /\ Len(pool) = 0
    BY EmptyPool DEF IInv, Session
  <2>. QED  BY <2>1 DEF IInv, Pauses, WantsPaused, PauseCmds
<1>. QED
  BY <1>1, Inductive, PTL

-----------------------------------------------------------------------------
(* Why a stop returns.                                                      *)

\* The client has told the output thread to stop before it joins it, and the
\* control thread before it waits for it.
ClientTold ==
  /\ audec /\ cpc \in {"send_stop"} \cup Stopping => needStop
  /\ cpc = "join_out" => outState = "STOPED" /\ initd
  /\ initd /\ cpc \in {"idle", "PAUSE", "RESUME", "join_out"} => out # "none"

\* The control thread has told the reader and the decoder before it joins them,
\* and joins them only if it has created them.
ControlTold ==
  /\ ctl \in {"join_dec", "join_gp"} => exitDecode
  /\ Live => gp # "none"
  /\ Live /\ ctl \notin {"spawn_dec", "join_gp"} => dec # "none"

\* The thread pool knows the threads; those it knew at the cancellation are cancelled.
Registered ==
  /\ ctl # "none" => "ctl" \in pooled
  /\ gp # "none" => "gp" \in pooled
  /\ audec /\ cpc \in {"release", "join_ctl"} =>
       "ctl" \in cancelled /\ (gp # "none" => "gp" \in cancelled \/ late)

\* Only the calls of the client change what it has told.
LEMMA ClientTells == ASSUME IInv, ClientTold, [Next]_vars PROVE ClientTold'
<1>1. CASE Start
  BY <1>1 DEF ClientTold, Stopping, Start
<1>2. CASE Stop
  BY <1>2 DEF ClientTold, Stopping, Stop, threadVars
<1>3. CASE StopDmx
  BY <1>3 DEF ClientTold, StopDmx, callVars, threadVars
<1>4. ASSUME NEW m \in {"PAUSE", "RESUME"}, PauseOrResume(m) PROVE ClientTold'
  BY <1>4 DEF ClientTold, Stopping, PauseOrResume, threadVars
<1>5. CASE SpawnOut
  BY <1>5 DEF ClientTold, Stopping, SpawnOut
<1>6. CASE SetOutState
  BY <1>6 DEF ClientTold, Stopping, SetOutState, threadVars
<1>7. CASE JoinOut
  BY <1>7 DEF ClientTold, Stopping, JoinOut, callVars
<1>8. CASE NeedStop
  BY <1>8 DEF ClientTold, NeedStop
<1>9. CASE SendStop
  BY <1>9 DEF ClientTold, SendStop, callVars
<1>10. CASE Cancel
  BY <1>10 DEF ClientTold, Stopping, Cancel, callVars
<1>11. CASE Release
  BY <1>11 DEF ClientTold, Stopping, Release
<1>12. CASE JoinCtl
  BY <1>12 DEF ClientTold, JoinCtl
<1>13. CASE OutStep
  BY <1>13 DEF ClientTold, OutStep, outRest, callVars, OutExit, OutTest, OutLevel, OutRead,
     OutWrite
<1>14. CASE ControlStep \/ ReaderStep \/ FifoFills \/ DecoderStep \/ UNCHANGED vars
  <2>1. UNCHANGED <<cpc, outState, initd, audec, needStop, out>>
    BY <1>14, Zenon DEF vars, callVars, threadVars, ControlStep, ctlRest, ReaderStep,
       FifoFills, gpRest, DecoderStep, decRest, CodecInitBuffer, CodecInitOps, InitStopped,
       SpawnGp, SpawnDec, WaitFormat, StartAdec, Activate, HandlePause, HandleResume,
       HandleStop, HandleRelease, JoinDec, JoinGp, ReleasePcm, ReleaseOps, GpExit, GpBegin,
       GpRead, GpReadStopped, GpWaitCancelled, GpAdd, DecExit, DecTake, DecDecode, DecWrite
  <2>. QED  BY <2>1 DEF ClientTold, Stopping
<1>. QED
  BY Zenon, <1>1, <1>2, <1>3, <1>4, <1>5, <1>6, <1>7, <1>8, <1>9, <1>10, <1>11, <1>12, <1>13, <1>14
     DEF Next, Call, ClientStep

\* Only the control thread creates, tells and joins the reader and the decoder.
LEMMA ControlTells == ASSUME IInv, ControlTold, [Next]_vars PROVE ControlTold'
<1>1. CASE Start
  BY <1>1 DEF ControlTold, Live, Stops, Start, DecodeInit, DecodeInitFails, codecVars
<1>2. CASE JoinCtl
  BY <1>2 DEF ControlTold, Live, JoinCtl
<1>3. CASE CodecInitBuffer
  BY <1>3 DEF ControlTold, Live, CodecInitBuffer
<1>4. CASE CodecInitOps
  BY <1>4 DEF ControlTold, Live, CodecInitOps
<1>5. CASE InitStopped
  BY <1>5 DEF ControlTold, Live, Stops, InitStopped
<1>6. CASE SpawnGp
  BY <1>6 DEF ControlTold, SpawnGp
<1>7. CASE SpawnDec
  BY <1>7 DEF ControlTold, Live, SpawnDec
<1>8. CASE WaitFormat
  BY <1>8 DEF ControlTold, Live, WaitFormat
<1>9. CASE StartAdec
  BY <1>9 DEF ControlTold, Live, StartAdec
<1>10. CASE Activate
  BY <1>10 DEF ControlTold, Live, Activate
<1>11. CASE HandlePause
  BY <1>11 DEF ControlTold, Live, Stops, HandlePause
<1>12. CASE HandleResume
  BY <1>12 DEF ControlTold, Live, Stops, HandleResume
<1>13. CASE HandleStop
  BY <1>13 DEF ControlTold, Live, Stops, HandleStop
<1>14. CASE HandleRelease
  BY <1>14 DEF ControlTold, Live, HandleRelease
<1>15. CASE JoinDec
  BY <1>15 DEF ControlTold, IInv, Codec, JoinDec, codecVars
<1>16. CASE JoinGp
  BY <1>16 DEF ControlTold, Live, JoinGp
<1>17. CASE ReleasePcm
  BY <1>17 DEF ControlTold, Live, ReleasePcm
<1>18. CASE ReleaseOps
  BY <1>18 DEF ControlTold, Live, Stops, IInv, Codec, ReleaseOps
<1>19. CASE ReaderStep \/ FifoFills
  BY <1>19 DEF ControlTold, IInv, Codec, ReaderStep, FifoFills, gpRest, GpExit, GpBegin,
     GpRead, GpReadStopped, GpWaitCancelled, GpAdd
<1>20. CASE DecoderStep
  BY <1>20 DEF ControlTold, IInv, Codec, DecoderStep, decRest, DecExit, DecTake, DecDecode,
     DecWrite
<1>21. CASE Stop \/ StopDmx \/ (\E m \in {"PAUSE", "RESUME"} : PauseOrResume(m)) \/ SpawnOut
           \/ SetOutState \/ JoinOut \/ NeedStop \/ SendStop \/ Cancel \/ Release \/ OutStep \/
           UNCHANGED vars
  <2>1. UNCHANGED <<ctl, state, exitDecode, gp, dec>>
    BY <1>21, Zenon DEF Stop, StopDmx, PauseOrResume, SpawnOut, SetOutState, JoinOut,
       NeedStop, SendStop, Cancel, Release, OutStep, outRest, vars, codecVars, threadVars,
       OutExit, OutTest, OutLevel, OutRead, OutWrite
  <2>. QED  BY <2>1 DEF ControlTold, Live, Stops
<1>. QED
  BY ZenonT(60), <1>1, <1>2, <1>3, <1>4, <1>5, <1>6, <1>7, <1>8, <1>9, <1>10, <1>11, <1>12, <1>13,
     <1>14, <1>15, <1>16, <1>17, <1>18, <1>19, <1>20, <1>21 DEF Next, Call, ClientStep,
     ControlStep

\* A thread is registered from its creation to its join; one that is created after
\* the cancellation is late.
LEMMA PoolKnows == ASSUME IInv, Registered, [Next]_vars PROVE Registered'
<1>1. CASE Start
  BY <1>1 DEF Registered, IInv, Session, Codec, Live, Start, DecodeInit, DecodeInitFails
<1>2. CASE Stop
  BY <1>2 DEF Registered, Stop, threadVars, poolVars
<1>3. CASE StopDmx
  BY <1>3 DEF Registered, StopDmx, threadVars, poolVars
<1>4. ASSUME NEW m \in {"PAUSE", "RESUME"}, PauseOrResume(m) PROVE Registered'
  BY <1>4 DEF Registered, PauseOrResume, threadVars, poolVars
<1>5. CASE SpawnOut
  BY <1>5 DEF Registered, SpawnOut, poolVars
<1>6. CASE SetOutState
  BY <1>6 DEF Registered, SetOutState, threadVars, poolVars
<1>7. CASE JoinOut
  BY <1>7 DEF Registered, JoinOut, callVars, poolVars
<1>8. CASE NeedStop
  BY <1>8 DEF Registered, NeedStop, threadVars, poolVars
<1>9. CASE SendStop
  BY <1>9 DEF Registered, SendStop, threadVars, poolVars
<1>10. CASE Cancel
  BY <1>10 DEF Registered, IInv, Session, Cancel, Reached, threadVars
<1>11. CASE Release
  BY <1>11 DEF Registered, Release, threadVars, poolVars
<1>12. CASE JoinCtl
  BY <1>12 DEF Registered, JoinCtl
<1>13. CASE CodecInitBuffer
  BY <1>13 DEF Registered, CodecInitBuffer, ctlRest, callVars, poolVars
<1>14. CASE CodecInitOps
  BY <1>14 DEF Registered, CodecInitOps, ctlRest, callVars, poolVars
<1>15. CASE InitStopped
  BY <1>15 DEF Registered, InitStopped, ctlRest, callVars, poolVars
<1>16. CASE SpawnGp
  BY Zenon, <1>16 DEF Registered, SpawnGp, ctlRest, callVars
<1>17. CASE SpawnDec
  BY <1>17 DEF Registered, SpawnDec, ctlRest, callVars
<1>18. CASE WaitFormat
  BY <1>18 DEF Registered, WaitFormat, ctlRest, callVars, poolVars
<1>19. CASE StartAdec
  BY <1>19 DEF Registered, StartAdec, ctlRest, callVars, poolVars
<1>20. CASE Activate
  BY <1>20 DEF Registered, Activate, ctlRest, callVars, poolVars
<1>21. CASE HandlePause
  BY <1>21 DEF Registered, HandlePause, ctlRest, callVars, poolVars
<1>22. CASE HandleResume
  BY <1>22 DEF Registered, HandleResume, ctlRest, callVars, poolVars
<1>23. CASE HandleStop
  BY <1>23 DEF Registered, HandleStop, ctlRest, callVars, poolVars
<1>24. CASE HandleRelease
  BY <1>24 DEF Registered, HandleRelease, ctlRest, callVars, poolVars
<1>25. CASE JoinDec
  BY <1>25 DEF Registered, JoinDec, ctlRest, callVars
<1>26. CASE JoinGp
  BY <1>26 DEF Registered, JoinGp, ctlRest, callVars
<1>27. CASE ReleasePcm
  BY <1>27 DEF Registered, ReleasePcm, ctlRest, callVars, poolVars
<1>28. CASE ReleaseOps
  BY <1>28 DEF Registered, ReleaseOps, ctlRest, callVars, poolVars
<1>29. CASE ReaderStep \/ FifoFills
  BY <1>29 DEF Registered, ReaderStep, FifoFills, gpRest, callVars, poolVars, GpExit,
     GpBegin, GpRead, GpReadStopped, GpWaitCancelled, GpAdd
<1>30. CASE DecoderStep \/ OutStep \/ UNCHANGED vars
  <2>1. UNCHANGED <<cpc, audec, ctl, gp, pooled, cancelled, late>>
    BY <1>30, Zenon DEF vars, callVars, threadVars, poolVars, DecoderStep, decRest, OutStep,
       outRest, DecExit, DecTake, DecDecode, DecWrite, OutExit, OutTest, OutLevel, OutRead,
       OutWrite
  <2>. QED  BY <2>1 DEF Registered
<1>. QED
  BY ZenonT(60), <1>1, <1>2, <1>3, <1>4, <1>5, <1>6, <1>7, <1>8, <1>9, <1>10, <1>11, <1>12, <1>13,
     <1>14, <1>15, <1>16, <1>17, <1>18, <1>19, <1>20, <1>21, <1>22, <1>23, <1>24, <1>25,
     <1>26, <1>27, <1>28, <1>29, <1>30 DEF Next, Call, ClientStep, ControlStep

\* Whatever a stop waits for can go on.
NeverStuck ==
  /\ cpc = "join_out" => out # "none" /\ outState = "STOPED"
  /\ cpc = "join_ctl" =>
       /\ ctl # "none"
       /\ ctl = "format" => needStop
       /\ ctl = "msg" => pool # <<>>
       /\ ctl = "join_dec" => dec # "none" /\ exitDecode
       /\ ctl = "join_gp" => gp # "none" /\ exitDecode
       /\ gp = "wait" => "gp" \in cancelled \/ late

\* dtv_patch_input_stop never waits for something that cannot happen.  The output
\* thread it joins has been told to stop.  The control thread it then waits for
\* exists, is let go where it waits for a format, and finds a message where it waits for one.
\* The decoder and the reader that stop_decode_thread joins exist and have been told
\* to exit, and the reader is cancelled where it waits for the fifo, unless it was created
\* after the cancellation.
THEOREM StopNeverStuck == Spec => []NeverStuck
<1>. DEFINE Told == ClientTold /\ ControlTold /\ Registered
<1>1. Init => Told
  BY DEF Init, ClientTold, ControlTold, Registered, Live
<1>2. IInv /\ Told /\ [Next]_vars => Told'
  BY ClientTells, ControlTells, PoolKnows
<1>3. IInv /\ Told => NeverStuck
  <2>. SUFFICES ASSUME IInv, Told PROVE NeverStuck
    OBVIOUS
  <2>1. cpc = "join_ctl" /\ ctl = "msg" => pool # <<>>
    BY EmptyPool DEF IInv, Pooled
  <2>2. cpc = "join_ctl" => audec /\ ctl # "none" /\ needStop
    BY DEF IInv, Session, ClientTold, Stopping
  <2>. QED
    BY <2>1, <2>2 DEF NeverStuck, ClientTold, ControlTold, Registered, Live
<1>. QED
  BY <1>1, <1>2, <1>3, Inductive, PTL DEF Spec
=============================================================================
