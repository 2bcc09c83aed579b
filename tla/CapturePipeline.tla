---------------------------- MODULE CapturePipeline ----------------------------
(***************************************************************************)
(* One run of the capture pipeline: the Capture goroutine, the pool of     *)
(* Processor workers and the Aggregator goroutine, joined by two bounded   *)
(* channels and stopped by one cancellation context.                       *)
(*                                                                         *)
(* A packet is the number under which the handle delivered it.  What the   *)
(* packets contain is left out; where each of them ends up is not: the     *)
(* history variables dropped, skipped, abandoned, unflushed and reported   *)
(* name every way out of the pipeline that the code has.                   *)
(***************************************************************************)
EXTENDS Naturals, Sequences, FiniteSets

CONSTANTS Workers,        \* the goroutines of the Processor pool
          PacketChanCap,  \* capture.PacketChanBuffer
          ParsedChanCap,  \* the buffer of parsedChan in runPipeline
          MaxPackets,     \* bound: packets the handle delivers in one run
          Replay          \* the handle reads a file (Handle.isReplay)

ASSUME PipelineAssumption ==
    /\ IsFiniteSet(Workers) /\ Workers # {}
    /\ PacketChanCap \in Nat \ {0}
    /\ ParsedChanCap \in Nat \ {0}
    /\ MaxPackets \in Nat
    /\ Replay \in BOOLEAN

Packet == 1..MaxPackets
NoPacket == 0

VARIABLES
    cancelled,   \* ctx.Done() is closed
    failed,      \* NextPacket has returned an error
    arrived,     \* packets NextPacket has returned so far
    cap,         \* where the Capture goroutine is
    inHand,      \* the packet in the capture loop's variable pkt
    packetChan,  \* buffered contents of packetChan
    wpc,         \* where each worker is
    held,        \* the packet each worker has received and not passed on
    pool,        \* where Pool.Run is
    parsedChan,  \* buffered contents of parsedChan
    agg,         \* where the Aggregator goroutine is
    window,      \* packets accumulated since the last flush
    snap,        \* packets summed up in the snapshot inside onSnapshot
    drops,       \* overflowDrops, the atomic counter
    snapDrops,   \* OverflowDrops of the latest snapshot
    dropped,     \* history: packets refused because packetChan was full
    skipped,     \* history: packets decode returned nil for
    abandoned,   \* history: packets Capture or a worker threw away
    unflushed,   \* history: packets the Aggregator threw away
    reported     \* history: packets in snapshots that onSnapshot has handled

capVars  == <<failed, arrived, cap, inHand, drops, dropped>>
poolVars == <<wpc, held, pool, skipped>>
aggVars  == <<agg, window, snap, snapDrops, unflushed, reported>>
vars == <<cancelled, capVars, packetChan, poolVars, abandoned, parsedChan, aggVars>>

\* Each channel is closed by the stage that writes to it, as its last act.
PacketChanClosed == cap \in {"closed", "done"}
ParsedChanClosed == pool \in {"closed", "done"}

\* A send on packetChan would not block.
PacketChanHasRoom == Len(packetChan) < PacketChanCap

\* Mutant: a closed channel is taken for an empty one.
PacketChanExhaustedWhenClosed == PacketChanClosed

\* A receive from packetChan reports the end of the channel.
PacketChanExhausted == packetChan = <<>> /\ PacketChanClosed

CapturePC    == {"check", "read", "pace", "send", "exit", "closed", "done"}
WorkerPC     == {"select", "send", "drain", "done"}
PoolPC       == {"wait", "closed", "done"}
AggregatorPC == {"select", "report", "final", "drain", "done"}

Init ==
    /\ cancelled = FALSE /\ failed = FALSE
    /\ arrived = 0 /\ cap = "check" /\ inHand = NoPacket
    /\ packetChan = <<>> /\ parsedChan = <<>>
    /\ wpc = [w \in Workers |-> "select"]
    /\ held = [w \in Workers |-> NoPacket]
    /\ pool = "wait"
    /\ agg = "select" /\ window = {} /\ snap = {}
    /\ drops = 0 /\ snapDrops = 0
    /\ dropped = {} /\ skipped = {} /\ abandoned = {} /\ unflushed = {} /\ reported = {}

\* The owner of the context calls cancel().
Cancel == /\ ~cancelled
          /\ cancelled' = TRUE
          /\ UNCHANGED <<capVars, packetChan, poolVars, abandoned, parsedChan, aggVars>>

-------------------------------------------------------------------------------
(* Capture: Handle.Run *)

\* The loop's first select: Done wins whenever it is ready, default otherwise.
CaptureCheck ==
    /\ cap = "check"
    /\ cap' = IF cancelled THEN "exit" ELSE "read"
    /\ UNCHANGED <<cancelled, failed, arrived, inHand, drops, dropped,
                   packetChan, poolVars, abandoned, parsedChan, aggVars>>

\* NextPacket returns a packet; a replay may sleep before passing it on.
CaptureRead ==
    /\ cap = "read"
    /\ arrived < MaxPackets
    /\ arrived' = arrived + 1
    /\ inHand' = arrived + 1
    /\ cap' \in IF Replay THEN {"pace", "send"} ELSE {"send"}
    /\ UNCHANGED <<cancelled, failed, drops, dropped,
                   packetChan, poolVars, abandoned, parsedChan, aggVars>>

\* NextPacket returns an error: end of the file, or the live handle failed.
CaptureReadFails ==
    /\ cap = "read"
    /\ failed' = TRUE
    /\ cap' = "exit"
    /\ UNCHANGED <<cancelled, arrived, inHand, drops, dropped,
                   packetChan, poolVars, abandoned, parsedChan, aggVars>>

\* The replay pause ends.
CapturePaced ==
    /\ cap = "pace"
    /\ cap' = "send"
    /\ UNCHANGED <<cancelled, failed, arrived, inHand, drops, dropped,
                   packetChan, poolVars, abandoned, parsedChan, aggVars>>

\* Cancellation ends the replay pause: the packet read before it is thrown away.
CaptureInterrupted ==
    /\ cap = "pace"
    /\ cancelled
    /\ cap' = "exit"
    /\ inHand' = NoPacket
    /\ abandoned' = abandoned \cup {inHand}
    /\ UNCHANGED <<cancelled, failed, arrived, drops, dropped,
                   packetChan, poolVars, parsedChan, aggVars>>

\* The non-blocking send: the packet goes into the channel or is counted as a drop.
CaptureSend ==
    /\ cap = "send"
    /\ cap' = "check"
    /\ inHand' = NoPacket
    /\ IF PacketChanHasRoom
       THEN /\ packetChan' = Append(packetChan, inHand)
            /\ UNCHANGED <<drops, dropped>>
       ELSE /\ drops' = drops + 1
            /\ dropped' = dropped \cup {inHand}
            /\ UNCHANGED packetChan
    /\ UNCHANGED <<cancelled, failed, arrived, poolVars, abandoned, parsedChan, aggVars>>

\* The deferred handle.Close() and close(out).
CaptureClose ==
    /\ cap = "exit"
    /\ cap' = "closed"
    /\ UNCHANGED <<cancelled, failed, arrived, inHand, drops, dropped,
                   packetChan, poolVars, abandoned, parsedChan, aggVars>>

\* The deferred wg.Done() of runPipeline's capture goroutine.
CaptureLeave ==
    /\ cap = "closed"
    /\ cap' = "done"
    /\ UNCHANGED <<cancelled, failed, arrived, inHand, drops, dropped,
                   packetChan, poolVars, abandoned, parsedChan, aggVars>>

-------------------------------------------------------------------------------
(* Processor: worker and Pool.Run *)

\* The ctx.Done() case of the worker's select.
WorkerCancelled(w) ==
    /\ wpc[w] = "select"
    /\ cancelled
    /\ wpc' = [wpc EXCEPT ![w] = "drain"]
    /\ UNCHANGED <<cancelled, capVars, packetChan, held, pool, skipped,
                   abandoned, parsedChan, aggVars>>

\* A packet is received and decoded into a ParsedPacket to be forwarded.
WorkerReceive(w) ==
    /\ wpc[w] = "select"
    /\ packetChan # <<>>
    /\ packetChan' = Tail(packetChan)
    /\ held' = [held EXCEPT ![w] = Head(packetChan)]
    /\ wpc' = [wpc EXCEPT ![w] = "send"]
    /\ UNCHANGED <<cancelled, capVars, pool, skipped, abandoned, parsedChan, aggVars>>

\* Mutant: the worker returns instead of continuing.
WorkerSkipReturns(w) ==
    /\ wpc[w] = "select"
    /\ packetChan # <<>>
    /\ packetChan' = Tail(packetChan)
    /\ skipped' = skipped \cup {Head(packetChan)}
    /\ wpc' = [wpc EXCEPT ![w] = "done"]
    /\ UNCHANGED <<cancelled, capVars, held, pool, abandoned, parsedChan, aggVars>>

\* A packet is received and decode returns nil: the loop continues without it.
WorkerSkip(w) ==
    /\ wpc[w] = "select"
    /\ packetChan # <<>>
    /\ packetChan' = Tail(packetChan)
    /\ skipped' = skipped \cup {Head(packetChan)}
    /\ UNCHANGED <<cancelled, capVars, wpc, held, pool, abandoned, parsedChan, aggVars>>

\* The receive reports that packetChan is closed and empty.
WorkerEOF(w) ==
    /\ wpc[w] = "select"
    /\ PacketChanExhausted
    /\ wpc' = [wpc EXCEPT ![w] = "done"]
    /\ UNCHANGED <<cancelled, capVars, packetChan, held, pool, skipped,
                   abandoned, parsedChan, aggVars>>

\* The blocking send to the Aggregator goes through.
WorkerForward(w) ==
    /\ wpc[w] = "send"
    /\ Len(parsedChan) < ParsedChanCap
    /\ parsedChan' = Append(parsedChan, held[w])
    /\ held' = [held EXCEPT ![w] = NoPacket]
    /\ wpc' = [wpc EXCEPT ![w] = "select"]
    /\ UNCHANGED <<cancelled, capVars, packetChan, pool, skipped, abandoned, aggVars>>

\* Mutant: a full parsedChan is a reason to give up as well.
MayAbandonWhenFull == cancelled \/ Len(parsedChan) = ParsedChanCap

\* What lets a worker give up a send.
MayAbandon == cancelled

\* The ctx.Done() case of the send: the worker returns, its packet with it.
WorkerAbandon(w) ==
    /\ wpc[w] = "send"
    /\ MayAbandon
    /\ abandoned' = abandoned \cup {held[w]}
    /\ held' = [held EXCEPT ![w] = NoPacket]
    /\ wpc' = [wpc EXCEPT ![w] = "done"]
    /\ UNCHANGED <<cancelled, capVars, packetChan, pool, skipped, parsedChan, aggVars>>

\* One round of "for range in": a packet is taken off the channel and ignored.
WorkerDrain(w) ==
    /\ wpc[w] = "drain"
    /\ packetChan # <<>>
    /\ packetChan' = Tail(packetChan)
    /\ abandoned' = abandoned \cup {Head(packetChan)}
    /\ UNCHANGED <<cancelled, capVars, poolVars, parsedChan, aggVars>>

\* "for range in" ends when packetChan is closed and empty.
WorkerDrained(w) ==
    /\ wpc[w] = "drain"
    /\ PacketChanExhausted
    /\ wpc' = [wpc EXCEPT ![w] = "done"]
    /\ UNCHANGED <<cancelled, capVars, packetChan, held, pool, skipped,
                   abandoned, parsedChan, aggVars>>

\* Mutant: the first worker to return lets the others be forgotten.
SomeWorkerReturned == \E w \in Workers : wpc[w] = "done"

\* Mutant: Pool.Run also waits for its input to be empty.
WorkersReturnedAndDrained == packetChan = <<>> /\ \A w \in Workers : wpc[w] = "done"

\* The WaitGroup of Pool.Run is at zero.
WorkersReturned == \A w \in Workers : wpc[w] = "done"

\* The inner wg.Wait() returns and Pool.Run closes parsedChan.
PoolClose ==
    /\ pool = "wait"
    /\ WorkersReturned
    /\ pool' = "closed"
    /\ UNCHANGED <<cancelled, capVars, packetChan, wpc, held, skipped,
                   abandoned, parsedChan, aggVars>>

\* The deferred wg.Done() of runPipeline's processor goroutine.
PoolLeave ==
    /\ pool = "closed"
    /\ pool' = "done"
    /\ UNCHANGED <<cancelled, capVars, packetChan, wpc, held, skipped,
                   abandoned, parsedChan, aggVars>>

-------------------------------------------------------------------------------
(* Aggregator: Aggregator.Run *)

\* A parsed packet is received and accumulated.
AggregatorReceive ==
    /\ agg = "select"
    /\ parsedChan # <<>>
    /\ parsedChan' = Tail(parsedChan)
    /\ window' = window \cup {Head(parsedChan)}
    /\ UNCHANGED <<cancelled, capVars, packetChan, poolVars, abandoned,
                   agg, snap, snapDrops, unflushed, reported>>

\* Mutant: the counters are reset before they are copied.
FlushResetsFirst == window' = {} /\ snap' = {} /\ snapDrops' = drops

\* Mutant: the counters are not reset.
FlushWithoutReset == snap' = window /\ window' = window /\ snapDrops' = drops

\* flush: the interval's packets and the drop counter go into a snapshot, the
\* counters start again from zero, and onSnapshot is called with it.
Flush == /\ snap' = window
         /\ window' = {}
         /\ snapDrops' = drops

\* The ticker fires.  Ticks come at any time, so the model may flush at any time.
AggregatorTick ==
    /\ agg = "select"
    /\ Flush
    /\ agg' = "report"
    /\ UNCHANGED <<cancelled, capVars, packetChan, poolVars, abandoned, parsedChan,
                   unflushed, reported>>

\* parsedChan is closed and empty: the final snapshot is flushed.
AggregatorEOF ==
    /\ agg = "select"
    /\ parsedChan = <<>>
    /\ ParsedChanClosed
    /\ Flush
    /\ agg' = "final"
    /\ UNCHANGED <<cancelled, capVars, packetChan, poolVars, abandoned, parsedChan,
                   unflushed, reported>>

\* Mutant: Run returns after any snapshot.
AggregatorReportedOnce ==
    /\ agg \in {"report", "final"}
    /\ agg' = "done"
    /\ reported' = reported \cup snap
    /\ snap' = {}
    /\ UNCHANGED <<cancelled, capVars, packetChan, poolVars, abandoned, parsedChan,
                   window, snapDrops, unflushed>>

\* onSnapshot returns: back to the select, or out of Run after the final snapshot.
AggregatorReported ==
    /\ agg \in {"report", "final"}
    /\ agg' = IF agg = "final" THEN "done" ELSE "select"
    /\ reported' = reported \cup snap
    /\ snap' = {}
    /\ UNCHANGED <<cancelled, capVars, packetChan, poolVars, abandoned, parsedChan,
                   window, snapDrops, unflushed>>

\* The ctx.Done() case: nothing accumulated since the last tick will be flushed.
AggregatorCancelled ==
    /\ agg = "select"
    /\ cancelled
    /\ agg' = "drain"
    /\ unflushed' = unflushed \cup window
    /\ window' = {}
    /\ UNCHANGED <<cancelled, capVars, packetChan, poolVars, abandoned, parsedChan,
                   snap, snapDrops, reported>>

\* One round of "for range in".
AggregatorDrain ==
    /\ agg = "drain"
    /\ parsedChan # <<>>
    /\ parsedChan' = Tail(parsedChan)
    /\ unflushed' = unflushed \cup {Head(parsedChan)}
    /\ UNCHANGED <<cancelled, capVars, packetChan, poolVars, abandoned,
                   agg, window, snap, snapDrops, reported>>

\* "for range in" ends and Run returns without a final snapshot.
AggregatorDrained ==
    /\ agg = "drain"
    /\ parsedChan = <<>>
    /\ ParsedChanClosed
    /\ agg' = "done"
    /\ UNCHANGED <<cancelled, capVars, packetChan, poolVars, abandoned, parsedChan,
                   window, snap, snapDrops, unflushed, reported>>

-------------------------------------------------------------------------------

\* The steps of Handle.Run that wait for nothing outside the program.
CaptureStep == \/ CaptureCheck \/ CapturePaced \/ CaptureInterrupted
               \/ CaptureSend \/ CaptureClose \/ CaptureLeave
CaptureInput == CaptureRead \/ CaptureReadFails

WorkerStep(w) == \/ WorkerCancelled(w) \/ WorkerReceive(w) \/ WorkerSkip(w)
                 \/ WorkerEOF(w) \/ WorkerForward(w) \/ WorkerAbandon(w)
                 \/ WorkerDrain(w) \/ WorkerDrained(w)
PoolStep == PoolClose \/ PoolLeave

AggregatorStep == \/ AggregatorReceive \/ AggregatorTick \/ AggregatorEOF
                  \/ AggregatorReported \/ AggregatorCancelled
                  \/ AggregatorDrain \/ AggregatorDrained

AllDone == cap = "done" /\ pool = "done" /\ agg = "done"

\* Every goroutine has returned and the context was cancelled: nothing is left to do.
Terminated == AllDone /\ cancelled /\ UNCHANGED vars

Next == \/ Cancel
        \/ CaptureStep \/ CaptureInput
        \/ \E w \in Workers : WorkerStep(w)
        \/ PoolStep
        \/ AggregatorStep
        \/ Terminated

(***************************************************************************)
(* The Go scheduler runs every goroutine that can run, and a select picks  *)
(* among its ready cases at random, so a case that is ready again and      *)
(* again is taken: strong fairness on the Aggregator's cases, which its    *)
(* callback disables in between.  onSnapshot returns.  A read in progress  *)
(* is only assumed to return once the context is cancelled: the handle has *)
(* a 10 ms read timeout, a quiet network need not deliver anything.        *)
(***************************************************************************)
Fairness ==
    /\ WF_vars(CaptureStep)
    /\ WF_vars(cancelled /\ CaptureInput)
    /\ \A w \in Workers : WF_vars(WorkerStep(w))
    /\ WF_vars(PoolStep)
    /\ WF_vars(AggregatorStep)
    /\ SF_vars(AggregatorReceive) /\ SF_vars(AggregatorTick)
    /\ SF_vars(AggregatorEOF) /\ SF_vars(AggregatorCancelled)

Spec == Init /\ [][Next]_vars
FairSpec == Spec /\ Fairness

-------------------------------------------------------------------------------
(* Properties *)

\* Every variable has the values its declaration promises.
TypeOK ==
    /\ cancelled \in BOOLEAN /\ failed \in BOOLEAN
    /\ arrived \in 0..MaxPackets
    /\ cap \in CapturePC
    /\ inHand \in Packet \cup {NoPacket}
    /\ packetChan \in Seq(Packet) /\ Len(packetChan) <= PacketChanCap
    /\ wpc \in [Workers -> WorkerPC]
    /\ held \in [Workers -> Packet \cup {NoPacket}]
    /\ pool \in PoolPC
    /\ parsedChan \in Seq(Packet) /\ Len(parsedChan) <= ParsedChanCap
    /\ agg \in AggregatorPC
    /\ drops \in Nat /\ snapDrops \in Nat
    /\ \A S \in {window, snap, dropped, skipped, abandoned, unflushed, reported} :
           S \subseteq Packet

\* The elements of a channel's buffer.
Buffered(ch) == {ch[i] : i \in DOMAIN ch}

\* The packets some worker has received and neither forwarded nor given up.
HeldByWorkers == {held[w] : w \in Workers} \ {NoPacket}

\* The packets still on their way to the window of the Aggregator.
InFlight == ({inHand} \ {NoPacket}) \cup Buffered(packetChan)
                \cup HeldByWorkers \cup Buffered(parsedChan)

\* The packets that left the pipeline for good.
Settled == dropped \cup skipped \cup abandoned \cup unflushed \cup reported

\* No packet the handle delivered is forgotten: it is in flight, in the window,
\* in the snapshot being handled, or it left by one of the ways out the code has.
EveryPacketAccountedFor == 1..arrived = InFlight \cup window \cup snap \cup Settled

\* The places a packet can be in.
Places == [hand |-> {inHand} \ {NoPacket}, packetChan |-> Buffered(packetChan),
           held |-> HeldByWorkers, parsedChan |-> Buffered(parsedChan),
           window |-> window, snap |-> snap, dropped |-> dropped, skipped |-> skipped,
           abandoned |-> abandoned, unflushed |-> unflushed, reported |-> reported]

Distinct(ch) == \A i, j \in DOMAIN ch : i # j => ch[i] # ch[j]
HeldApart    == \A v, w \in Workers : v # w /\ held[v] = held[w] => held[v] = NoPacket
Apart(p)     == \A a, b \in DOMAIN p : a # b => p[a] \cap p[b] = {}

\* No packet is counted twice: it is not delivered to two workers, not left in
\* the counters after a flush, not dropped and forwarded.
NoPacketTwice == Distinct(packetChan) /\ Distinct(parsedChan) /\ HeldApart /\ Apart(Places)

\* Packets are thrown away only by a shutdown: while the context is live the only
\* ways out are a counted drop, an undecodable packet and a snapshot.
LossOnlyOnCancel == abandoned \cup unflushed # {} => cancelled

\* The final snapshot is final: when the Aggregator sees parsedChan closed and
\* nobody cancelled, no packet is in flight anywhere, the drop counter it has read
\* can no longer move, and the capture loop is over.
FinalSnapshotIsComplete ==
    agg = "final" /\ ~cancelled =>
                     /\ InFlight = {} /\ window = {}
                     /\ snapDrops = Cardinality(dropped)
                     /\ cap \in {"closed", "done"}

\* No worker is about to send on parsedChan after Pool.Run has closed it (a panic in Go).
NoSendOnClosed == \A w \in Workers : wpc[w] = "send" => ~ParsedChanClosed

\* When every stage has returned no goroutine holds a packet and only packetChan
\* may still have some, after a cancellation that found every worker sending.
QuiescentWhenDone ==
    AllDone => /\ InFlight = Buffered(packetChan) /\ window = {} /\ snap = {}
               /\ ~cancelled => packetChan = <<>>

\* StopCapture's wg.Wait() returns: after a cancellation every stage returns,
\* whatever is in the channels and whichever stage is blocked.
ShutdownCompletes == cancelled ~> AllDone

\* Without a shutdown every packet in flight is settled although the channels
\* are bounded and the Aggregator stops receiving while onSnapshot runs.
PacketsSettle == \A p \in Packet : (p \in InFlight \cup window) ~> (p \in Settled \/ cancelled)

-------------------------------------------------------------------------------
(* The inductive invariant *)

\* A goroutine has a packet in hand exactly when it is about to pass it on, and
\* the packet Capture has in hand is the last one the handle delivered.
HandsMatchPCs ==
    /\ inHand # NoPacket <=> cap \in {"pace", "send"}
    /\ inHand # NoPacket => inHand = arrived
    /\ \A w \in Workers : held[w] # NoPacket <=> wpc[w] = "send"
    /\ snap # {} => agg \in {"report", "final"}

\* The stages end one after the other, each because the one before has closed
\* its channel and the channel is empty, or because the context is cancelled.
StagesEndInOrder ==
    /\ cap \in {"exit", "closed", "done"} => cancelled \/ failed
    /\ \A w \in Workers : wpc[w] = "drain" => cancelled
    /\ \A w \in Workers :
           wpc[w] = "done" => cancelled \/ (packetChan = <<>> /\ PacketChanClosed)
    /\ ParsedChanClosed => \A w \in Workers : wpc[w] = "done"
    /\ agg = "drain" => cancelled
    /\ agg \in {"final", "done"} => parsedChan = <<>> /\ ParsedChanClosed
    /\ agg \in {"drain", "final", "done"} => window = {}

\* The counter counts the dropped packets, once each.
DropsAreCounted ==
    /\ IsFiniteSet(dropped) /\ drops = Cardinality(dropped)
    /\ dropped \subseteq 1..arrived /\ inHand \notin dropped
    /\ snapDrops <= drops
    /\ agg = "final" => cancelled \/ snapDrops = drops

Inv == /\ TypeOK /\ HandsMatchPCs /\ StagesEndInOrder /\ DropsAreCounted
       /\ EveryPacketAccountedFor /\ LossOnlyOnCancel

-------------------------------------------------------------------------------
(* The pipeline as the group of stages CaptureService waits for. *)

alive == (IF cap = "done" THEN {} ELSE {"capture"})
    \cup (IF pool = "done" THEN {} ELSE {"processor"})
    \cup (IF agg = "done" THEN {} ELSE {"aggregator"})

SG == INSTANCE StageGroup WITH over <- failed

\* The pipeline implements the contract of its stages: none returns before a
\* cancellation or the end of the capture loop, and then all of them return.
ImplementsStageGroup == SG!Spec
===============================================================================
