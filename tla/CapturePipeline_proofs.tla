------------------------ MODULE CapturePipeline_proofs ------------------------
(***************************************************************************)
(* Proofs about CapturePipeline, for every number of workers, packets and  *)
(* places in the channels.  The inductive invariant Inv adds to the safety *)
(* properties what they rest on: who holds a packet when (HandsMatchPCs),  *)
(* in which order and why the stages end (StagesEndInOrder), and that the  *)
(* drop counter counts the dropped packets (DropsAreCounted).  That no     *)
(* packet is in two places rests on Inv: every step moves packets from one *)
(* place to another, and a delivered packet is in none yet.                *)
(***************************************************************************)
EXTENDS CapturePipeline, SumLemmas

USE DEF NoPacket, capVars, poolVars, aggVars

-------------------------------------------------------------------------------
(* The buffer of a channel *)

\* An empty channel buffers nothing.
LEMMA BufferedEmpty == Buffered(<<>>) = {}
BY DEF Buffered

\* A send adds the packet to the end of the buffer.
LEMMA BufferedAppend ==
    ASSUME NEW S, NEW ch \in Seq(S), NEW e \in S
    PROVE  /\ Append(ch, e) \in Seq(S)
           /\ Len(Append(ch, e)) = Len(ch) + 1
           /\ Buffered(Append(ch, e)) = Buffered(ch) \cup {e}
<1>1. /\ Append(ch, e) \in Seq(S) /\ Len(Append(ch, e)) = Len(ch) + 1
      /\ Append(ch, e)[Len(ch) + 1] = e
      /\ \A i \in 1..Len(ch) : Append(ch, e)[i] = ch[i]
  OBVIOUS
<1>2. DOMAIN Append(ch, e) = (1..Len(ch)) \cup {Len(ch) + 1} /\ DOMAIN ch = 1..Len(ch)
  BY <1>1
<1> QED
  BY <1>1, <1>2 DEF Buffered

\* A receive takes the first packet off the buffer.
LEMMA BufferedTail ==
    ASSUME NEW S, NEW ch \in Seq(S), ch # <<>>
    PROVE  /\ Head(ch) \in S /\ Tail(ch) \in Seq(S) /\ Len(Tail(ch)) = Len(ch) - 1
           /\ Buffered(ch) = {Head(ch)} \cup Buffered(Tail(ch))
<1>1. /\ Head(ch) \in S /\ Tail(ch) \in Seq(S) /\ Len(Tail(ch)) = Len(ch) - 1
      /\ Head(ch) = ch[1] /\ Len(ch) \in Nat \ {0}
      /\ \A i \in 1..Len(ch)-1 : Tail(ch)[i] = ch[i + 1]
  OBVIOUS
<1>2. DOMAIN ch = 1..Len(ch) /\ DOMAIN Tail(ch) = 1..Len(ch)-1
  BY <1>1
<1>3. ASSUME NEW i \in DOMAIN ch, i # 1
      PROVE  i - 1 \in DOMAIN Tail(ch) /\ ch[i] = Tail(ch)[i - 1]
  <2>1. i - 1 \in 1..Len(ch)-1 /\ (i - 1) + 1 = i
    BY <1>1, <1>2, <1>3
  <2> QED
    BY <1>1, <1>2, <2>1
<1>4. ASSUME NEW i \in DOMAIN Tail(ch) PROVE i + 1 \in DOMAIN ch /\ Tail(ch)[i] = ch[i + 1]
  BY <1>1, <1>2
<1>5. 1 \in DOMAIN ch
  BY <1>1, <1>2
<1> QED
  BY <1>1, <1>3, <1>4, <1>5 DEF Buffered
-------------------------------------------------------------------------------
(* The initial state and stuttering *)

\* Inv holds when runPipeline has launched the stages.
LEMMA InvInit == Init => Inv
<1> SUFFICES ASSUME Init PROVE Inv
  OBVIOUS
<1>1. TypeOK
  <2>1. <<>> \in Seq(Packet) /\ Len(<<>>) = 0
    OBVIOUS
  <2>2. /\ packetChan \in Seq(Packet) /\ Len(packetChan) <= PacketChanCap
        /\ parsedChan \in Seq(Packet) /\ Len(parsedChan) <= ParsedChanCap
    BY <2>1, PipelineAssumption DEF Init
  <2>3. wpc \in [Workers -> WorkerPC] /\ held \in [Workers -> Packet \cup {NoPacket}]
    BY DEF Init, WorkerPC
  <2>4. /\ cancelled \in BOOLEAN /\ failed \in BOOLEAN
        /\ cap \in CapturePC /\ pool \in PoolPC /\ agg \in AggregatorPC
    BY DEF Init, CapturePC, PoolPC, AggregatorPC
  <2>5. /\ arrived \in 0..MaxPackets /\ inHand \in Packet \cup {NoPacket}
        /\ drops \in Nat /\ snapDrops \in Nat
    BY PipelineAssumption DEF Init
  <2>6. \A S \in {window, snap, dropped, skipped, abandoned, unflushed, reported} :
            S \subseteq Packet
    BY DEF Init
  <2> QED
    BY <2>2, <2>3, <2>4, <2>5, <2>6 DEF TypeOK
<1>2. HandsMatchPCs /\ StagesEndInOrder
  BY PipelineAssumption
    DEF Init, HandsMatchPCs, StagesEndInOrder, PacketChanClosed, ParsedChanClosed
<1>3. DropsAreCounted /\ LossOnlyOnCancel
  BY FS_EmptySet DEF Init, DropsAreCounted, LossOnlyOnCancel
<1>4. EveryPacketAccountedFor
  <2>1. HeldByWorkers = {} /\ Buffered(packetChan) = {} /\ Buffered(parsedChan) = {}
    BY BufferedEmpty DEF Init, HeldByWorkers
  <2> QED
    BY <2>1 DEF Init, EveryPacketAccountedFor, InFlight, Settled
<1> QED
  BY <1>1, <1>2, <1>3, <1>4 DEF Inv

\* A step that changes nothing.
LEMMA UnchangedInv == ASSUME Inv, UNCHANGED vars PROVE Inv'
<1> USE DEF vars, Inv
<1>1. TypeOK'
  BY DEF TypeOK
<1>2. HandsMatchPCs' /\ StagesEndInOrder'
  BY DEF HandsMatchPCs, StagesEndInOrder, PacketChanClosed, ParsedChanClosed
<1>3. DropsAreCounted' /\ LossOnlyOnCancel'
  BY DEF DropsAreCounted, LossOnlyOnCancel
<1>4. EveryPacketAccountedFor'
  BY DEF EveryPacketAccountedFor, InFlight, HeldByWorkers, Settled, Buffered
<1> QED
  BY <1>1, <1>2, <1>3, <1>4

-------------------------------------------------------------------------------
(* The context *)

\* cancel() touches the context only.
LEMMA CancelInv == ASSUME Inv, Cancel PROVE Inv'
<1>1. TypeOK'
  BY DEF Cancel, Inv, TypeOK
<1>2. HandsMatchPCs' /\ StagesEndInOrder'
  BY DEF Cancel, Inv, HandsMatchPCs, StagesEndInOrder, ParsedChanClosed
<1>3. DropsAreCounted' /\ LossOnlyOnCancel'
  BY DEF Cancel, Inv, DropsAreCounted, LossOnlyOnCancel
<1>4. EveryPacketAccountedFor'
  BY DEF Cancel, Inv, EveryPacketAccountedFor, HeldByWorkers, InFlight, Settled
<1> QED
  BY <1>1, <1>2, <1>3, <1>4 DEF Inv

-------------------------------------------------------------------------------
(* Capture *)

\* The capture loop looks at the context.
LEMMA CaptureCheckInv == ASSUME Inv, CaptureCheck PROVE Inv'
<1>1. TypeOK'
  BY DEF CaptureCheck, Inv, TypeOK, CapturePC
<1>2. HandsMatchPCs' /\ StagesEndInOrder'
  BY DEF CaptureCheck, Inv, HandsMatchPCs, StagesEndInOrder, PacketChanClosed,
    ParsedChanClosed
<1>3. DropsAreCounted' /\ LossOnlyOnCancel'
  BY DEF CaptureCheck, Inv, DropsAreCounted, LossOnlyOnCancel
<1>4. EveryPacketAccountedFor'
  BY DEF CaptureCheck, Inv, EveryPacketAccountedFor, HeldByWorkers, InFlight, Settled
<1> QED
  BY <1>1, <1>2, <1>3, <1>4 DEF Inv

\* A packet is delivered: it is in hand, and nowhere else.
LEMMA CaptureReadInv == ASSUME Inv, CaptureRead PROVE Inv'
<1>1. TypeOK'
  BY PipelineAssumption DEF CaptureRead, Inv, TypeOK, CapturePC, Packet
<1>2. HandsMatchPCs' /\ StagesEndInOrder'
  BY DEF CaptureRead, Inv, HandsMatchPCs, StagesEndInOrder, PacketChanClosed,
    ParsedChanClosed, TypeOK
<1>3. DropsAreCounted' /\ LossOnlyOnCancel'
  BY DEF CaptureRead, Inv, DropsAreCounted, LossOnlyOnCancel, TypeOK
<1>4. EveryPacketAccountedFor'
  BY BufferedEmpty DEF CaptureRead, Inv, EveryPacketAccountedFor, HandsMatchPCs,
    HeldByWorkers, InFlight, Packet, Settled, TypeOK
<1> QED
  BY <1>1, <1>2, <1>3, <1>4 DEF Inv

\* NextPacket fails: the capture loop is over.
LEMMA CaptureReadFailsInv == ASSUME Inv, CaptureReadFails PROVE Inv'
<1>1. TypeOK'
  BY DEF CaptureReadFails, Inv, TypeOK, CapturePC
<1>2. HandsMatchPCs' /\ StagesEndInOrder'
  BY DEF CaptureReadFails, Inv, HandsMatchPCs, StagesEndInOrder, PacketChanClosed,
    ParsedChanClosed
<1>3. DropsAreCounted' /\ LossOnlyOnCancel'
  BY DEF CaptureReadFails, Inv, DropsAreCounted, LossOnlyOnCancel
<1>4. EveryPacketAccountedFor'
  BY DEF CaptureReadFails, Inv, EveryPacketAccountedFor, HeldByWorkers, InFlight, Settled
<1> QED
  BY <1>1, <1>2, <1>3, <1>4 DEF Inv

\* The replay pause ends.
LEMMA CapturePacedInv == ASSUME Inv, CapturePaced PROVE Inv'
<1>1. TypeOK'
  BY DEF CapturePaced, Inv, TypeOK, CapturePC
<1>2. HandsMatchPCs' /\ StagesEndInOrder'
  BY DEF CapturePaced, Inv, HandsMatchPCs, StagesEndInOrder, PacketChanClosed,
    ParsedChanClosed
<1>3. DropsAreCounted' /\ LossOnlyOnCancel'
  BY DEF CapturePaced, Inv, DropsAreCounted, LossOnlyOnCancel
<1>4. EveryPacketAccountedFor'
  BY DEF CapturePaced, Inv, EveryPacketAccountedFor, HeldByWorkers, InFlight, Settled
<1> QED
  BY <1>1, <1>2, <1>3, <1>4 DEF Inv

\* The replay pause is cut short: the packet in hand is abandoned.
LEMMA CaptureInterruptedInv == ASSUME Inv, CaptureInterrupted PROVE Inv'
<1>1. TypeOK'
  BY DEF CaptureInterrupted, Inv, TypeOK, CapturePC, HandsMatchPCs
<1>2. HandsMatchPCs' /\ StagesEndInOrder'
  BY DEF CaptureInterrupted, Inv, HandsMatchPCs, StagesEndInOrder, ParsedChanClosed
<1>3. DropsAreCounted' /\ LossOnlyOnCancel'
  BY DEF CaptureInterrupted, Inv, DropsAreCounted, LossOnlyOnCancel
<1>4. EveryPacketAccountedFor'
  BY DEF CaptureInterrupted, Inv, EveryPacketAccountedFor, HandsMatchPCs, HeldByWorkers,
    InFlight, Settled
<1> QED
  BY <1>1, <1>2, <1>3, <1>4 DEF Inv

\* The send, case by case: the channel has room, or a drop is counted.
LEMMA CaptureSendKeeps ==
    ASSUME Inv, CaptureSend
    PROVE  TypeOK' /\ DropsAreCounted' /\ EveryPacketAccountedFor'
<1>1. inHand \in Packet /\ inHand = arrived
  BY DEF CaptureSend, Inv, HandsMatchPCs, TypeOK
<1>2. CASE PacketChanHasRoom
  <2>1. packetChan' = Append(packetChan, inHand) /\ UNCHANGED <<drops, dropped>>
    BY <1>2 DEF CaptureSend
  <2>2. /\ packetChan' \in Seq(Packet) /\ Len(packetChan') <= PacketChanCap
        /\ Buffered(packetChan') = Buffered(packetChan) \cup {inHand}
    BY <1>1, <1>2, <2>1, BufferedAppend, PipelineAssumption DEF Inv, TypeOK, PacketChanHasRoom
  <2>3. TypeOK'
    BY <2>1, <2>2 DEF CaptureSend, Inv, TypeOK, CapturePC
  <2>4. DropsAreCounted'
    BY <2>1 DEF CaptureSend, Inv, TypeOK, DropsAreCounted, Packet
  <2>5. EveryPacketAccountedFor'
    BY <1>1, <2>1, <2>2, PipelineAssumption
      DEF CaptureSend, Inv, EveryPacketAccountedFor, InFlight, Settled, HeldByWorkers, Packet
  <2> QED
    BY <2>3, <2>4, <2>5
<1>3. CASE ~PacketChanHasRoom
  <2>1. drops' = drops + 1 /\ dropped' = dropped \cup {inHand} /\ UNCHANGED packetChan
    BY <1>3 DEF CaptureSend
  <2>2. TypeOK'
    BY <1>1, <2>1 DEF CaptureSend, Inv, TypeOK, CapturePC
  <2>3. IsFiniteSet(dropped') /\ Cardinality(dropped') = Cardinality(dropped) + 1
    BY <2>1, FS_AddElement DEF Inv, DropsAreCounted
  <2>4. agg = "final" => cancelled
    BY PipelineAssumption DEF CaptureSend, Inv, StagesEndInOrder, PacketChanClosed
  <2>6. DropsAreCounted'
    BY <1>1, <2>1, <2>3, <2>4 DEF CaptureSend, Inv, TypeOK, DropsAreCounted, Packet
  <2>5. EveryPacketAccountedFor'
    BY <1>1, <2>1, PipelineAssumption
      DEF CaptureSend, Inv, EveryPacketAccountedFor, InFlight, Settled, HeldByWorkers, Packet
  <2> QED
    BY <2>2, <2>5, <2>6
<1> QED
  BY <1>2, <1>3

\* The packet in hand goes into packetChan or is counted as a drop.
LEMMA CaptureSendInv == ASSUME Inv, CaptureSend PROVE Inv'
<1>1. TypeOK'
  BY CaptureSendKeeps
<1>2. HandsMatchPCs' /\ StagesEndInOrder'
  BY DEF CaptureSend, Inv, HandsMatchPCs, StagesEndInOrder, PacketChanClosed,
    ParsedChanClosed
<1>3. DropsAreCounted' /\ LossOnlyOnCancel'
  BY CaptureSendKeeps DEF CaptureSend, Inv, LossOnlyOnCancel
<1>4. EveryPacketAccountedFor'
  BY CaptureSendKeeps
<1> QED
  BY <1>1, <1>2, <1>3, <1>4 DEF Inv

\* packetChan is closed.
LEMMA CaptureCloseInv == ASSUME Inv, CaptureClose PROVE Inv'
<1>1. TypeOK'
  BY DEF CaptureClose, Inv, TypeOK, CapturePC
<1>2. HandsMatchPCs' /\ StagesEndInOrder'
  BY DEF CaptureClose, Inv, HandsMatchPCs, StagesEndInOrder, PacketChanClosed,
    ParsedChanClosed
<1>3. DropsAreCounted' /\ LossOnlyOnCancel'
  BY DEF CaptureClose, Inv, DropsAreCounted, LossOnlyOnCancel
<1>4. EveryPacketAccountedFor'
  BY DEF CaptureClose, Inv, EveryPacketAccountedFor, HeldByWorkers, InFlight, Settled
<1> QED
  BY <1>1, <1>2, <1>3, <1>4 DEF Inv

\* The capture goroutine is gone.
LEMMA CaptureLeaveInv == ASSUME Inv, CaptureLeave PROVE Inv'
<1>1. TypeOK'
  BY DEF CaptureLeave, Inv, TypeOK, CapturePC
<1>2. HandsMatchPCs' /\ StagesEndInOrder'
  BY DEF CaptureLeave, Inv, HandsMatchPCs, StagesEndInOrder, PacketChanClosed,
    ParsedChanClosed
<1>3. DropsAreCounted' /\ LossOnlyOnCancel'
  BY DEF CaptureLeave, Inv, DropsAreCounted, LossOnlyOnCancel
<1>4. EveryPacketAccountedFor'
  BY DEF CaptureLeave, Inv, EveryPacketAccountedFor, HeldByWorkers, InFlight, Settled
<1> QED
  BY <1>1, <1>2, <1>3, <1>4 DEF Inv

-------------------------------------------------------------------------------
(* Processor *)

\* A worker sees the cancellation.
LEMMA WorkerCancelledInv == ASSUME Inv, NEW w \in Workers, WorkerCancelled(w) PROVE Inv'
<1>1. TypeOK'
  BY DEF WorkerCancelled, Inv, TypeOK, WorkerPC
<1>2. HandsMatchPCs' /\ StagesEndInOrder'
  BY DEF WorkerCancelled, Inv, HandsMatchPCs, StagesEndInOrder, ParsedChanClosed
<1>3. DropsAreCounted' /\ LossOnlyOnCancel'
  BY DEF WorkerCancelled, Inv, DropsAreCounted, LossOnlyOnCancel
<1>4. EveryPacketAccountedFor'
  BY DEF WorkerCancelled, Inv, EveryPacketAccountedFor, HeldByWorkers, InFlight, Settled
<1> QED
  BY <1>1, <1>2, <1>3, <1>4 DEF Inv

\* A packet moves from packetChan into a worker's hands.
LEMMA WorkerReceiveInv == ASSUME Inv, NEW w \in Workers, WorkerReceive(w) PROVE Inv'
<1>1. TypeOK'
  BY PipelineAssumption DEF WorkerReceive, Inv, TypeOK, WorkerPC
<1>2. HandsMatchPCs' /\ StagesEndInOrder'
  BY PipelineAssumption DEF WorkerReceive, Inv, HandsMatchPCs, StagesEndInOrder, Packet,
    ParsedChanClosed, TypeOK
<1>3. DropsAreCounted' /\ LossOnlyOnCancel'
  BY DEF WorkerReceive, Inv, DropsAreCounted, LossOnlyOnCancel
<1>4. EveryPacketAccountedFor'
  BY BufferedTail DEF WorkerReceive, Inv, EveryPacketAccountedFor, HandsMatchPCs,
    HeldByWorkers, InFlight, Settled, TypeOK
<1> QED
  BY <1>1, <1>2, <1>3, <1>4 DEF Inv

\* A packet moves from packetChan to the undecodable ones.
LEMMA WorkerSkipInv == ASSUME Inv, NEW w \in Workers, WorkerSkip(w) PROVE Inv'
<1>1. TypeOK'
  BY PipelineAssumption DEF WorkerSkip, Inv, TypeOK
<1>2. HandsMatchPCs' /\ StagesEndInOrder'
  BY DEF WorkerSkip, Inv, HandsMatchPCs, StagesEndInOrder, ParsedChanClosed
<1>3. DropsAreCounted' /\ LossOnlyOnCancel'
  BY DEF WorkerSkip, Inv, DropsAreCounted, LossOnlyOnCancel
<1>4. EveryPacketAccountedFor'
  BY BufferedTail DEF WorkerSkip, Inv, EveryPacketAccountedFor, HeldByWorkers, InFlight,
    Settled, TypeOK
<1> QED
  BY <1>1, <1>2, <1>3, <1>4 DEF Inv

\* A worker sees packetChan closed and empty.
LEMMA WorkerEOFInv == ASSUME Inv, NEW w \in Workers, WorkerEOF(w) PROVE Inv'
<1>1. TypeOK'
  BY DEF WorkerEOF, Inv, TypeOK, WorkerPC
<1>2. HandsMatchPCs' /\ StagesEndInOrder'
  BY DEF WorkerEOF, Inv, HandsMatchPCs, StagesEndInOrder, PacketChanClosed,
    PacketChanExhausted, ParsedChanClosed
<1>3. DropsAreCounted' /\ LossOnlyOnCancel'
  BY DEF WorkerEOF, Inv, DropsAreCounted, LossOnlyOnCancel
<1>4. EveryPacketAccountedFor'
  BY DEF WorkerEOF, Inv, EveryPacketAccountedFor, HeldByWorkers, InFlight, Settled
<1> QED
  BY <1>1, <1>2, <1>3, <1>4 DEF Inv

\* The packet a worker forwards is held by it and by no other place it must leave.
LEMMA WorkerForwardKeeps ==
    ASSUME Inv, NEW w \in Workers, WorkerForward(w) PROVE EveryPacketAccountedFor'
<1>1. held[w] \in Packet
  BY DEF WorkerForward, Inv, HandsMatchPCs, TypeOK
<1>2. Buffered(parsedChan') = Buffered(parsedChan) \cup {held[w]}
  BY <1>1, BufferedAppend DEF WorkerForward, Inv, TypeOK
<1>3. HeldByWorkers \cup {held[w]} = HeldByWorkers' \cup {held[w]}
  BY <1>1 DEF WorkerForward, HeldByWorkers, Inv, TypeOK
<1>4. held[w] \in HeldByWorkers
  BY <1>1, PipelineAssumption DEF HeldByWorkers, Packet
<1> QED
  BY <1>2, <1>3, <1>4 DEF WorkerForward, Inv, EveryPacketAccountedFor, InFlight, Settled

\* A packet moves from a worker's hands into parsedChan.
LEMMA WorkerForwardInv == ASSUME Inv, NEW w \in Workers, WorkerForward(w) PROVE Inv'
<1>1. TypeOK'
  BY PipelineAssumption DEF WorkerForward, Inv, TypeOK, HandsMatchPCs, WorkerPC
<1>2. HandsMatchPCs' /\ StagesEndInOrder'
  BY DEF WorkerForward, Inv, HandsMatchPCs, StagesEndInOrder, PacketChanClosed,
    ParsedChanClosed, TypeOK
<1>3. DropsAreCounted' /\ LossOnlyOnCancel'
  BY DEF WorkerForward, Inv, DropsAreCounted, LossOnlyOnCancel
<1>4. EveryPacketAccountedFor'
  BY WorkerForwardKeeps
<1> QED
  BY <1>1, <1>2, <1>3, <1>4 DEF Inv

\* A worker gives its packet up and returns.
LEMMA WorkerAbandonInv == ASSUME Inv, NEW w \in Workers, WorkerAbandon(w) PROVE Inv'
<1>1. TypeOK'
  BY DEF WorkerAbandon, Inv, TypeOK, HandsMatchPCs, WorkerPC
<1>2. HandsMatchPCs' /\ StagesEndInOrder'
  BY DEF WorkerAbandon, Inv, HandsMatchPCs, StagesEndInOrder, MayAbandon, ParsedChanClosed,
    TypeOK
<1>3. DropsAreCounted' /\ LossOnlyOnCancel'
  BY DEF WorkerAbandon, Inv, DropsAreCounted, LossOnlyOnCancel, MayAbandon
<1>4. EveryPacketAccountedFor'
  BY DEF WorkerAbandon, Inv, EveryPacketAccountedFor, HandsMatchPCs, HeldByWorkers,
    InFlight, Settled
<1> QED
  BY <1>1, <1>2, <1>3, <1>4 DEF Inv

\* A draining worker throws a packet of packetChan away.
LEMMA WorkerDrainInv == ASSUME Inv, NEW w \in Workers, WorkerDrain(w) PROVE Inv'
<1>1. TypeOK'
  BY PipelineAssumption DEF WorkerDrain, Inv, TypeOK
<1>2. HandsMatchPCs' /\ StagesEndInOrder'
  BY DEF WorkerDrain, Inv, HandsMatchPCs, StagesEndInOrder, ParsedChanClosed
<1>3. DropsAreCounted' /\ LossOnlyOnCancel'
  BY DEF WorkerDrain, Inv, DropsAreCounted, LossOnlyOnCancel, StagesEndInOrder
<1>4. EveryPacketAccountedFor'
  BY BufferedTail DEF WorkerDrain, Inv, EveryPacketAccountedFor, HeldByWorkers, InFlight,
    Settled, TypeOK
<1> QED
  BY <1>1, <1>2, <1>3, <1>4 DEF Inv

\* A draining worker sees packetChan closed and empty.
LEMMA WorkerDrainedInv == ASSUME Inv, NEW w \in Workers, WorkerDrained(w) PROVE Inv'
<1>1. TypeOK'
  BY DEF WorkerDrained, Inv, TypeOK, WorkerPC
<1>2. HandsMatchPCs' /\ StagesEndInOrder'
  BY DEF WorkerDrained, Inv, HandsMatchPCs, StagesEndInOrder, ParsedChanClosed
<1>3. DropsAreCounted' /\ LossOnlyOnCancel'
  BY DEF WorkerDrained, Inv, DropsAreCounted, LossOnlyOnCancel
<1>4. EveryPacketAccountedFor'
  BY DEF WorkerDrained, Inv, EveryPacketAccountedFor, HeldByWorkers, InFlight, Settled
<1> QED
  BY <1>1, <1>2, <1>3, <1>4 DEF Inv

\* parsedChan is closed.
LEMMA PoolCloseInv == ASSUME Inv, PoolClose PROVE Inv'
<1>1. TypeOK'
  BY DEF PoolClose, Inv, TypeOK, PoolPC
<1>2. HandsMatchPCs' /\ StagesEndInOrder'
  BY DEF PoolClose, Inv, HandsMatchPCs, StagesEndInOrder, PacketChanClosed,
    ParsedChanClosed, WorkersReturned
<1>3. DropsAreCounted' /\ LossOnlyOnCancel'
  BY DEF PoolClose, Inv, DropsAreCounted, LossOnlyOnCancel
<1>4. EveryPacketAccountedFor'
  BY DEF PoolClose, Inv, EveryPacketAccountedFor, HeldByWorkers, InFlight, Settled
<1> QED
  BY <1>1, <1>2, <1>3, <1>4 DEF Inv

\* The processor goroutine is gone.
LEMMA PoolLeaveInv == ASSUME Inv, PoolLeave PROVE Inv'
<1>1. TypeOK'
  BY DEF PoolLeave, Inv, TypeOK, PoolPC
<1>2. HandsMatchPCs' /\ StagesEndInOrder'
  BY DEF PoolLeave, Inv, HandsMatchPCs, StagesEndInOrder, PacketChanClosed, ParsedChanClosed
<1>3. DropsAreCounted' /\ LossOnlyOnCancel'
  BY DEF PoolLeave, Inv, DropsAreCounted, LossOnlyOnCancel
<1>4. EveryPacketAccountedFor'
  BY DEF PoolLeave, Inv, EveryPacketAccountedFor, HeldByWorkers, InFlight, Settled
<1> QED
  BY <1>1, <1>2, <1>3, <1>4 DEF Inv

-------------------------------------------------------------------------------
(* Aggregator *)

\* A packet moves from parsedChan into the window.
LEMMA AggregatorReceiveInv == ASSUME Inv, AggregatorReceive PROVE Inv'
<1>1. TypeOK'
  BY PipelineAssumption DEF AggregatorReceive, Inv, TypeOK
<1>2. HandsMatchPCs' /\ StagesEndInOrder'
  BY DEF AggregatorReceive, Inv, HandsMatchPCs, StagesEndInOrder, PacketChanClosed,
    ParsedChanClosed
<1>3. DropsAreCounted' /\ LossOnlyOnCancel'
  BY DEF AggregatorReceive, Inv, DropsAreCounted, LossOnlyOnCancel
<1>4. EveryPacketAccountedFor'
  BY BufferedTail DEF AggregatorReceive, Inv, EveryPacketAccountedFor, HeldByWorkers,
    InFlight, Settled, TypeOK
<1> QED
  BY <1>1, <1>2, <1>3, <1>4 DEF Inv

\* The window moves into a snapshot.
LEMMA AggregatorTickInv == ASSUME Inv, AggregatorTick PROVE Inv'
<1>1. TypeOK'
  BY DEF AggregatorTick, Inv, TypeOK, AggregatorPC, Flush
<1>2. HandsMatchPCs' /\ StagesEndInOrder'
  BY DEF AggregatorTick, Inv, HandsMatchPCs, StagesEndInOrder, PacketChanClosed,
    ParsedChanClosed
<1>3. DropsAreCounted' /\ LossOnlyOnCancel'
  BY DEF AggregatorTick, Inv, DropsAreCounted, LossOnlyOnCancel, Flush, TypeOK
<1>4. EveryPacketAccountedFor'
  BY DEF AggregatorTick, Inv, EveryPacketAccountedFor, Flush, HandsMatchPCs, HeldByWorkers,
    InFlight, Settled
<1> QED
  BY <1>1, <1>2, <1>3, <1>4 DEF Inv

\* The window moves into the final snapshot.
LEMMA AggregatorEOFInv == ASSUME Inv, AggregatorEOF PROVE Inv'
<1>1. TypeOK'
  BY DEF AggregatorEOF, Inv, TypeOK, AggregatorPC, Flush
<1>2. HandsMatchPCs' /\ StagesEndInOrder'
  BY DEF AggregatorEOF, Inv, HandsMatchPCs, StagesEndInOrder, Flush, PacketChanClosed,
    ParsedChanClosed
<1>3. DropsAreCounted' /\ LossOnlyOnCancel'
  BY DEF AggregatorEOF, Inv, DropsAreCounted, LossOnlyOnCancel, Flush, TypeOK
<1>4. EveryPacketAccountedFor'
  BY DEF AggregatorEOF, Inv, EveryPacketAccountedFor, Flush, HandsMatchPCs, HeldByWorkers,
    InFlight, Settled
<1> QED
  BY <1>1, <1>2, <1>3, <1>4 DEF Inv

\* onSnapshot has handled the snapshot.
LEMMA AggregatorReportedInv == ASSUME Inv, AggregatorReported PROVE Inv'
<1>1. TypeOK'
  BY DEF AggregatorReported, Inv, TypeOK, AggregatorPC
<1>2. HandsMatchPCs' /\ StagesEndInOrder'
  BY DEF AggregatorReported, Inv, HandsMatchPCs, StagesEndInOrder, PacketChanClosed,
    ParsedChanClosed
<1>3. DropsAreCounted' /\ LossOnlyOnCancel'
  BY DEF AggregatorReported, Inv, DropsAreCounted, LossOnlyOnCancel
<1>4. EveryPacketAccountedFor'
  BY DEF AggregatorReported, Inv, EveryPacketAccountedFor, HeldByWorkers, InFlight, Settled
<1> QED
  BY <1>1, <1>2, <1>3, <1>4 DEF Inv

\* The window is thrown away.
LEMMA AggregatorCancelledInv == ASSUME Inv, AggregatorCancelled PROVE Inv'
<1>1. TypeOK'
  BY DEF AggregatorCancelled, Inv, TypeOK, AggregatorPC
<1>2. HandsMatchPCs' /\ StagesEndInOrder'
  BY DEF AggregatorCancelled, Inv, HandsMatchPCs, StagesEndInOrder, ParsedChanClosed
<1>3. DropsAreCounted' /\ LossOnlyOnCancel'
  BY DEF AggregatorCancelled, Inv, DropsAreCounted, LossOnlyOnCancel
<1>4. EveryPacketAccountedFor'
  BY DEF AggregatorCancelled, Inv, EveryPacketAccountedFor, HeldByWorkers, InFlight, Settled
<1> QED
  BY <1>1, <1>2, <1>3, <1>4 DEF Inv

\* The draining Aggregator throws a packet of parsedChan away.
LEMMA AggregatorDrainInv == ASSUME Inv, AggregatorDrain PROVE Inv'
<1>1. TypeOK'
  BY PipelineAssumption DEF AggregatorDrain, Inv, TypeOK
<1>2. HandsMatchPCs' /\ StagesEndInOrder'
  BY DEF AggregatorDrain, Inv, HandsMatchPCs, StagesEndInOrder, ParsedChanClosed
<1>3. DropsAreCounted' /\ LossOnlyOnCancel'
  BY DEF AggregatorDrain, Inv, DropsAreCounted, LossOnlyOnCancel, StagesEndInOrder
<1>4. EveryPacketAccountedFor'
  BY BufferedTail DEF AggregatorDrain, Inv, EveryPacketAccountedFor, HeldByWorkers,
    InFlight, Settled, TypeOK
<1> QED
  BY <1>1, <1>2, <1>3, <1>4 DEF Inv

\* The draining Aggregator sees parsedChan closed and empty.
LEMMA AggregatorDrainedInv == ASSUME Inv, AggregatorDrained PROVE Inv'
<1>1. TypeOK'
  BY DEF AggregatorDrained, Inv, TypeOK, AggregatorPC
<1>2. HandsMatchPCs' /\ StagesEndInOrder'
  BY DEF AggregatorDrained, Inv, HandsMatchPCs, StagesEndInOrder, ParsedChanClosed
<1>3. DropsAreCounted' /\ LossOnlyOnCancel'
  BY DEF AggregatorDrained, Inv, DropsAreCounted, LossOnlyOnCancel
<1>4. EveryPacketAccountedFor'
  BY DEF AggregatorDrained, Inv, EveryPacketAccountedFor, HeldByWorkers, InFlight, Settled
<1> QED
  BY <1>1, <1>2, <1>3, <1>4 DEF Inv

-------------------------------------------------------------------------------
(* The theorems *)

\* Inv is inductive.
LEMMA InvNext == Inv /\ [Next]_vars => Inv'
<1> SUFFICES ASSUME Inv, [Next]_vars PROVE Inv'
  OBVIOUS
<1>1. CASE CaptureStep \/ CaptureInput
  BY <1>1, CaptureCheckInv, CaptureReadInv, CaptureReadFailsInv, CapturePacedInv,
    CaptureInterruptedInv, CaptureSendInv, CaptureCloseInv, CaptureLeaveInv
    DEF CaptureStep, CaptureInput
<1>2. ASSUME NEW w \in Workers, WorkerStep(w) PROVE Inv'
  BY <1>2, WorkerCancelledInv, WorkerReceiveInv, WorkerSkipInv, WorkerEOFInv,
    WorkerForwardInv, WorkerAbandonInv, WorkerDrainInv, WorkerDrainedInv DEF WorkerStep
<1>3. CASE PoolStep
  BY <1>3, PoolCloseInv, PoolLeaveInv DEF PoolStep
<1>4. CASE AggregatorStep
  BY <1>4, AggregatorReceiveInv, AggregatorTickInv, AggregatorEOFInv, AggregatorReportedInv,
    AggregatorCancelledInv, AggregatorDrainInv, AggregatorDrainedInv DEF AggregatorStep
<1>5. CASE Terminated \/ UNCHANGED vars
  BY <1>5, UnchangedInv DEF Terminated
<1> QED
  BY <1>1, <1>2, <1>3, <1>4, <1>5, CancelInv DEF Next

\* Inv is an invariant of the pipeline.
THEOREM PipelineInvariant == Spec => []Inv
BY InvInit, InvNext, PTL DEF Spec

\* Every variable of the pipeline keeps its type, and no channel holds more than
\* it has room for.
THEOREM TypeCorrect == Spec => []TypeOK
<1>1. Inv => TypeOK
  BY DEF Inv
<1> QED
  BY <1>1, PipelineInvariant, PTL

\* Every packet the handle has delivered is in flight, in the window, in the
\* snapshot, or has left by a way out the code has; and it is thrown away only
\* after a cancellation.
THEOREM PacketsAreAccountedFor == Spec => [](EveryPacketAccountedFor /\ LossOnlyOnCancel)
<1>1. Inv => EveryPacketAccountedFor /\ LossOnlyOnCancel
  BY DEF Inv
<1> QED
  BY <1>1, PipelineInvariant, PTL

-------------------------------------------------------------------------------
(* No packet is in two places *)

\* A channel buffers no packet twice if its sends bring new ones.
LEMMA DistinctAppend ==
    ASSUME NEW S, NEW ch \in Seq(S), NEW e \in S, Distinct(ch), e \notin Buffered(ch)
    PROVE  Distinct(Append(ch, e))
<1>1. /\ Append(ch, e) \in Seq(S) /\ Len(Append(ch, e)) = Len(ch) + 1
      /\ Append(ch, e)[Len(ch) + 1] = e
      /\ \A i \in 1..Len(ch) : Append(ch, e)[i] = ch[i]
  OBVIOUS
<1>2. DOMAIN Append(ch, e) = (1..Len(ch)) \cup {Len(ch) + 1} /\ DOMAIN ch = 1..Len(ch)
  BY <1>1
<1> QED
  BY <1>1, <1>2 DEF Distinct, Buffered

\* The packet a receive takes off such a channel is not in it any more.
LEMMA DistinctTail ==
    ASSUME NEW S, NEW ch \in Seq(S), ch # <<>>, Distinct(ch)
    PROVE  Distinct(Tail(ch)) /\ Buffered(Tail(ch)) = Buffered(ch) \ {Head(ch)}
<1>1. /\ Tail(ch) \in Seq(S) /\ Head(ch) = ch[1] /\ Len(ch) \in Nat \ {0}
      /\ Len(Tail(ch)) = Len(ch) - 1
      /\ \A i \in 1..Len(ch)-1 : Tail(ch)[i] = ch[i + 1]
  OBVIOUS
<1>2. DOMAIN ch = 1..Len(ch) /\ DOMAIN Tail(ch) = 1..Len(ch)-1
  BY <1>1
<1>3. \A i \in DOMAIN Tail(ch) : i + 1 \in DOMAIN ch /\ i + 1 # 1 /\ Tail(ch)[i] = ch[i + 1]
  BY <1>1, <1>2
<1>4. \A i, j \in DOMAIN Tail(ch) : i # j => i + 1 # j + 1
  BY <1>1, <1>2
<1>5. 1 \in DOMAIN ch
  BY <1>1, <1>2
<1>6. Head(ch) \notin Buffered(Tail(ch))
  BY <1>1, <1>3, <1>5 DEF Distinct, Buffered
<1> QED
  BY <1>3, <1>4, <1>6, BufferedTail DEF Distinct

\* A worker that has received a packet holds it, ...
LEMMA HeldReceived ==
    ASSUME TypeOK, HeldApart, NEW w \in Workers, held[w] = NoPacket, NEW x \in Packet,
           x \notin HeldByWorkers, held' = [held EXCEPT ![w] = x]
    PROVE  HeldApart' /\ HeldByWorkers' = HeldByWorkers \cup {x}
<1>1. \A v \in Workers : held'[v] = IF v = w THEN x ELSE held[v]
  BY DEF TypeOK
<1>2. x # NoPacket
  BY DEF Packet
<1> QED
  BY <1>1, <1>2 DEF HeldApart, HeldByWorkers

\* ... and one that has passed it on holds it no more.
LEMMA HeldReleased ==
    ASSUME TypeOK, HeldApart, NEW w \in Workers, held[w] # NoPacket,
           held' = [held EXCEPT ![w] = NoPacket]
    PROVE  HeldApart' /\ HeldByWorkers' = HeldByWorkers \ {held[w]} /\ held[w] \in HeldByWorkers
<1>1. \A v \in Workers : held'[v] = IF v = w THEN NoPacket ELSE held[v]
  BY DEF TypeOK
<1> QED
  BY <1>1 DEF HeldApart, HeldByWorkers

\* The places have the same names in every state.
LEMMA PlaceNames ==
    /\ DOMAIN Places = {"hand", "packetChan", "held", "parsedChan", "window", "snap", "dropped",
                        "skipped", "abandoned", "unflushed", "reported"}
    /\ DOMAIN Places' = DOMAIN Places
BY DEF Places

\* What is in them, ...
LEMMA PlaceContents ==
    /\ Places["hand"] = {inHand} \ {NoPacket} /\ Places["held"] = HeldByWorkers
    /\ Places["packetChan"] = Buffered(packetChan) /\ Places["parsedChan"] = Buffered(parsedChan)
    /\ Places["window"] = window /\ Places["snap"] = snap
    /\ Places["dropped"] = dropped /\ Places["skipped"] = skipped
    /\ Places["abandoned"] = abandoned /\ Places["unflushed"] = unflushed
    /\ Places["reported"] = reported
BY DEF Places

\* ... and what is in them after a step.
LEMMA PlaceContentsNext ==
    /\ Places'["hand"] = {inHand'} \ {NoPacket} /\ Places'["held"] = HeldByWorkers'
    /\ Places'["packetChan"] = Buffered(packetChan')
    /\ Places'["parsedChan"] = Buffered(parsedChan')
    /\ Places'["window"] = window' /\ Places'["snap"] = snap'
    /\ Places'["dropped"] = dropped' /\ Places'["skipped"] = skipped'
    /\ Places'["abandoned"] = abandoned' /\ Places'["unflushed"] = unflushed'
    /\ Places'["reported"] = reported'
BY DEF Places

\* Packets that move from one place to another are not in two.
LEMMA MovedApart ==
    ASSUME Apart(Places), NEW a \in DOMAIN Places, NEW b \in DOMAIN Places, a # b,
           NEW S, S \subseteq Places[a],
           Places'[a] = Places[a] \ S, Places'[b] = Places[b] \cup S,
           \A c \in DOMAIN Places \ {a, b} : Places'[c] = Places[c]
    PROVE  Apart(Places')
<1>1. ASSUME NEW c \in DOMAIN Places, NEW d \in DOMAIN Places, c # d,
             NEW x, x \in Places'[c], x \in Places'[d]
      PROVE  FALSE
  BY <1>1 DEF Apart
<1> QED
  BY <1>1, PlaceNames DEF Apart

\* A step that moves no packet.
LEMMA NothingMoved ==
    ASSUME NoPacketTwice, UNCHANGED <<inHand, packetChan, held, parsedChan, window, snap,
                                      dropped, skipped, abandoned, unflushed, reported>>
    PROVE  NoPacketTwice'
BY DEF NoPacketTwice, Distinct, HeldApart, Apart, Places, Buffered, HeldByWorkers

\* A delivered packet is new.
LEMMA CaptureReadApart == ASSUME Inv, NoPacketTwice, CaptureRead PROVE NoPacketTwice'
<1>1. \A c \in DOMAIN Places : arrived + 1 \notin Places[c]
  BY PipelineAssumption DEF Inv, TypeOK, EveryPacketAccountedFor, Places, InFlight, Settled
<1>2. inHand = NoPacket /\ inHand' = arrived + 1 /\ arrived + 1 # NoPacket
  BY DEF CaptureRead, Inv, TypeOK, HandsMatchPCs
<1>3. /\ Places'["hand"] = {arrived + 1}
      /\ \A c \in DOMAIN Places \ {"hand"} : Places'[c] = Places[c]
  BY <1>2, PlaceNames, PlaceContents, PlaceContentsNext DEF CaptureRead, HeldByWorkers
<1>4. ASSUME NEW a \in DOMAIN Places, NEW b \in DOMAIN Places, a # b
      PROVE  Places'[a] \cap Places'[b] = {}
  BY <1>1, <1>3, <1>4, PlaceNames DEF Apart, NoPacketTwice
<1>5. Apart(Places')
  BY <1>4, PlaceNames DEF Apart
<1> QED
  BY <1>5 DEF CaptureRead, NoPacketTwice, Distinct, HeldApart

\* The packet in hand is abandoned.
LEMMA CaptureInterruptedApart ==
    ASSUME Inv, NoPacketTwice, CaptureInterrupted PROVE NoPacketTwice'
<1>1. /\ inHand # NoPacket /\ inHand' = NoPacket
      /\ abandoned' = abandoned \cup {inHand}
  BY DEF Inv, HandsMatchPCs, CaptureInterrupted
<1>2. /\ UNCHANGED <<packetChan, held, parsedChan, window, snap, dropped, skipped,
                       unflushed, reported>>
      /\ HeldByWorkers' = HeldByWorkers
  BY DEF CaptureInterrupted, HeldByWorkers
<1>3. /\ {inHand} \subseteq Places["hand"]
      /\ Places'["hand"] = Places["hand"] \ {inHand}
      /\ Places'["abandoned"] = Places["abandoned"] \cup {inHand}
      /\ \A c \in DOMAIN Places \ {"hand", "abandoned"} : Places'[c] = Places[c]
  BY <1>1, <1>2, PlaceNames, PlaceContents, PlaceContentsNext
<1>4. Apart(Places')
  BY <1>3, MovedApart, PlaceNames DEF NoPacketTwice
<1> QED
  BY <1>1, <1>2, <1>4 DEF NoPacketTwice, Distinct, HeldApart

\* The packet in hand goes into packetChan, ...
LEMMA CaptureSendApart ==
    ASSUME Inv, NoPacketTwice, CaptureSend, PacketChanHasRoom PROVE NoPacketTwice'
<1>1. /\ inHand # NoPacket /\ inHand' = NoPacket
      /\ Distinct(packetChan') /\ Buffered(packetChan') = Buffered(packetChan) \cup {inHand}
  <2>1. inHand \in Packet /\ inHand # NoPacket
    BY DEF Inv, HandsMatchPCs, TypeOK, CaptureSend
  <2>2. inHand \notin Buffered(packetChan)
    BY <2>1, PlaceNames, PlaceContents DEF NoPacketTwice, Apart
  <2>3. packetChan' = Append(packetChan, inHand) /\ inHand' = NoPacket
    BY DEF CaptureSend
  <2> QED
    BY <2>1, <2>2, <2>3, DistinctAppend, BufferedAppend DEF Inv, TypeOK, NoPacketTwice
<1>2. /\ UNCHANGED <<held, parsedChan, window, snap, dropped, skipped, abandoned,
                       unflushed, reported>>
      /\ HeldByWorkers' = HeldByWorkers
  BY DEF CaptureSend, HeldByWorkers
<1>3. /\ {inHand} \subseteq Places["hand"]
      /\ Places'["hand"] = Places["hand"] \ {inHand}
      /\ Places'["packetChan"] = Places["packetChan"] \cup {inHand}
      /\ \A c \in DOMAIN Places \ {"hand", "packetChan"} : Places'[c] = Places[c]
  BY <1>1, <1>2, PlaceNames, PlaceContents, PlaceContentsNext
<1>4. Apart(Places')
  BY <1>3, MovedApart, PlaceNames DEF NoPacketTwice
<1> QED
  BY <1>1, <1>2, <1>4 DEF NoPacketTwice, Distinct, HeldApart

\* ... or is dropped.
LEMMA CaptureDropApart ==
    ASSUME Inv, NoPacketTwice, CaptureSend, ~PacketChanHasRoom PROVE NoPacketTwice'
<1>1. inHand # NoPacket /\ inHand' = NoPacket /\ dropped' = dropped \cup {inHand}
  BY DEF Inv, HandsMatchPCs, CaptureSend
<1>2. /\ UNCHANGED <<packetChan, held, parsedChan, window, snap, skipped, abandoned,
                       unflushed, reported>>
      /\ HeldByWorkers' = HeldByWorkers
  BY DEF CaptureSend, HeldByWorkers
<1>3. /\ {inHand} \subseteq Places["hand"]
      /\ Places'["hand"] = Places["hand"] \ {inHand}
      /\ Places'["dropped"] = Places["dropped"] \cup {inHand}
      /\ \A c \in DOMAIN Places \ {"hand", "dropped"} : Places'[c] = Places[c]
  BY <1>1, <1>2, PlaceNames, PlaceContents, PlaceContentsNext
<1>4. Apart(Places')
  BY <1>3, MovedApart, PlaceNames DEF NoPacketTwice
<1> QED
  BY <1>1, <1>2, <1>4 DEF NoPacketTwice, Distinct, HeldApart

\* A packet moves from packetChan into a worker's hands.
LEMMA WorkerReceiveApart ==
    ASSUME Inv, NoPacketTwice, NEW w \in Workers, WorkerReceive(w) PROVE NoPacketTwice'
<1>1. /\ Distinct(packetChan') /\ Head(packetChan) \in Buffered(packetChan)
      /\ Buffered(packetChan') = Buffered(packetChan) \ {Head(packetChan)}
      /\ HeldApart' /\ HeldByWorkers' = HeldByWorkers \cup {Head(packetChan)}
  <2>1. /\ Distinct(packetChan') /\ Head(packetChan) \in Buffered(packetChan)
        /\ Buffered(packetChan') = Buffered(packetChan) \ {Head(packetChan)}
        /\ Head(packetChan) \in Packet
    BY DistinctTail, BufferedTail DEF Inv, TypeOK, NoPacketTwice, WorkerReceive
  <2>2. Head(packetChan) \notin HeldByWorkers
    BY <2>1, PlaceNames, PlaceContents DEF NoPacketTwice, Apart
  <2>3. held[w] = NoPacket /\ held' = [held EXCEPT ![w] = Head(packetChan)]
    BY DEF Inv, HandsMatchPCs, WorkerReceive
  <2> QED
    BY <2>1, <2>2, <2>3, HeldReceived DEF Inv, NoPacketTwice
<1>2. UNCHANGED <<inHand, parsedChan, window, snap, dropped, skipped, abandoned, unflushed,
                  reported>>
  BY DEF WorkerReceive
<1>3. /\ {Head(packetChan)} \subseteq Places["packetChan"]
      /\ Places'["packetChan"] = Places["packetChan"] \ {Head(packetChan)}
      /\ Places'["held"] = Places["held"] \cup {Head(packetChan)}
      /\ \A c \in DOMAIN Places \ {"packetChan", "held"} : Places'[c] = Places[c]
  BY <1>1, <1>2, PlaceNames, PlaceContents, PlaceContentsNext
<1>4. Apart(Places')
  BY <1>3, MovedApart, PlaceNames DEF NoPacketTwice
<1> QED
  BY <1>1, <1>2, <1>4 DEF NoPacketTwice, Distinct, HeldApart

\* A packet moves from packetChan to the undecodable ones.
LEMMA WorkerSkipApart ==
    ASSUME Inv, NoPacketTwice, NEW w \in Workers, WorkerSkip(w) PROVE NoPacketTwice'
<1>1. /\ Distinct(packetChan') /\ Head(packetChan) \in Buffered(packetChan)
      /\ Buffered(packetChan') = Buffered(packetChan) \ {Head(packetChan)}
      /\ skipped' = skipped \cup {Head(packetChan)}
  BY DistinctTail, BufferedTail DEF Inv, TypeOK, NoPacketTwice, WorkerSkip
<1>2. /\ UNCHANGED <<inHand, held, parsedChan, window, snap, dropped, abandoned, unflushed,
                       reported>>
      /\ HeldByWorkers' = HeldByWorkers
  BY DEF WorkerSkip, HeldByWorkers
<1>3. /\ {Head(packetChan)} \subseteq Places["packetChan"]
      /\ Places'["packetChan"] = Places["packetChan"] \ {Head(packetChan)}
      /\ Places'["skipped"] = Places["skipped"] \cup {Head(packetChan)}
      /\ \A c \in DOMAIN Places \ {"packetChan", "skipped"} : Places'[c] = Places[c]
  BY <1>1, <1>2, PlaceNames, PlaceContents, PlaceContentsNext
<1>4. Apart(Places')
  BY <1>3, MovedApart, PlaceNames DEF NoPacketTwice
<1> QED
  BY <1>1, <1>2, <1>4 DEF NoPacketTwice, Distinct, HeldApart

\* A packet moves from a worker's hands into parsedChan.
LEMMA WorkerForwardApart ==
    ASSUME Inv, NoPacketTwice, NEW w \in Workers, WorkerForward(w) PROVE NoPacketTwice'
<1>1. /\ HeldApart' /\ HeldByWorkers' = HeldByWorkers \ {held[w]} /\ held[w] \in HeldByWorkers
      /\ Distinct(parsedChan') /\ Buffered(parsedChan') = Buffered(parsedChan) \cup {held[w]}
  <2>1. /\ HeldApart' /\ HeldByWorkers' = HeldByWorkers \ {held[w]} /\ held[w] \in HeldByWorkers
        /\ held[w] \in Packet
    BY HeldReleased DEF Inv, HandsMatchPCs, TypeOK, NoPacketTwice, WorkerForward
  <2>2. held[w] \notin Buffered(parsedChan)
    BY <2>1, PlaceNames, PlaceContents DEF NoPacketTwice, Apart
  <2> QED
    BY <2>1, <2>2, DistinctAppend, BufferedAppend DEF Inv, TypeOK, NoPacketTwice, WorkerForward
<1>2. UNCHANGED <<inHand, packetChan, window, snap, dropped, skipped, abandoned, unflushed,
                  reported>>
  BY DEF WorkerForward
<1>3. /\ {held[w]} \subseteq Places["held"]
      /\ Places'["held"] = Places["held"] \ {held[w]}
      /\ Places'["parsedChan"] = Places["parsedChan"] \cup {held[w]}
      /\ \A c \in DOMAIN Places \ {"held", "parsedChan"} : Places'[c] = Places[c]
  BY <1>1, <1>2, PlaceNames, PlaceContents, PlaceContentsNext
<1>4. Apart(Places')
  BY <1>3, MovedApart, PlaceNames DEF NoPacketTwice
<1> QED
  BY <1>1, <1>2, <1>4 DEF NoPacketTwice, Distinct, HeldApart

\* A worker gives up the packet it holds.
LEMMA WorkerAbandonApart ==
    ASSUME Inv, NoPacketTwice, NEW w \in Workers, WorkerAbandon(w) PROVE NoPacketTwice'
<1>1. /\ HeldApart' /\ HeldByWorkers' = HeldByWorkers \ {held[w]} /\ held[w] \in HeldByWorkers
      /\ abandoned' = abandoned \cup {held[w]}
  BY HeldReleased DEF Inv, HandsMatchPCs, NoPacketTwice, WorkerAbandon
<1>2. UNCHANGED <<inHand, packetChan, parsedChan, window, snap, dropped, skipped,
                  unflushed, reported>>
  BY DEF WorkerAbandon
<1>3. /\ {held[w]} \subseteq Places["held"]
      /\ Places'["held"] = Places["held"] \ {held[w]}
      /\ Places'["abandoned"] = Places["abandoned"] \cup {held[w]}
      /\ \A c \in DOMAIN Places \ {"held", "abandoned"} : Places'[c] = Places[c]
  BY <1>1, <1>2, PlaceNames, PlaceContents, PlaceContentsNext
<1>4. Apart(Places')
  BY <1>3, MovedApart, PlaceNames DEF NoPacketTwice
<1> QED
  BY <1>1, <1>2, <1>4 DEF NoPacketTwice, Distinct, HeldApart

\* A draining worker throws a packet of packetChan away.
LEMMA WorkerDrainApart ==
    ASSUME Inv, NoPacketTwice, NEW w \in Workers, WorkerDrain(w) PROVE NoPacketTwice'
<1>1. /\ Distinct(packetChan') /\ Head(packetChan) \in Buffered(packetChan)
      /\ Buffered(packetChan') = Buffered(packetChan) \ {Head(packetChan)}
      /\ abandoned' = abandoned \cup {Head(packetChan)}
  BY DistinctTail, BufferedTail DEF Inv, TypeOK, NoPacketTwice, WorkerDrain
<1>2. /\ UNCHANGED <<inHand, held, parsedChan, window, snap, dropped, skipped, unflushed,
                       reported>>
      /\ HeldByWorkers' = HeldByWorkers
  BY DEF WorkerDrain, HeldByWorkers
<1>3. /\ {Head(packetChan)} \subseteq Places["packetChan"]
      /\ Places'["packetChan"] = Places["packetChan"] \ {Head(packetChan)}
      /\ Places'["abandoned"] = Places["abandoned"] \cup {Head(packetChan)}
      /\ \A c \in DOMAIN Places \ {"packetChan", "abandoned"} : Places'[c] = Places[c]
  BY <1>1, <1>2, PlaceNames, PlaceContents, PlaceContentsNext
<1>4. Apart(Places')
  BY <1>3, MovedApart, PlaceNames DEF NoPacketTwice
<1> QED
  BY <1>1, <1>2, <1>4 DEF NoPacketTwice, Distinct, HeldApart

\* A packet moves from parsedChan into the window.
LEMMA AggregatorReceiveApart ==
    ASSUME Inv, NoPacketTwice, AggregatorReceive PROVE NoPacketTwice'
<1>1. /\ Distinct(parsedChan') /\ Head(parsedChan) \in Buffered(parsedChan)
      /\ Buffered(parsedChan') = Buffered(parsedChan) \ {Head(parsedChan)}
      /\ window' = window \cup {Head(parsedChan)}
  BY DistinctTail, BufferedTail DEF Inv, TypeOK, NoPacketTwice, AggregatorReceive
<1>2. /\ UNCHANGED <<inHand, packetChan, held, snap, dropped, skipped, abandoned,
                       unflushed, reported>>
      /\ HeldByWorkers' = HeldByWorkers
  BY DEF AggregatorReceive, HeldByWorkers
<1>3. /\ {Head(parsedChan)} \subseteq Places["parsedChan"]
      /\ Places'["parsedChan"] = Places["parsedChan"] \ {Head(parsedChan)}
      /\ Places'["window"] = Places["window"] \cup {Head(parsedChan)}
      /\ \A c \in DOMAIN Places \ {"parsedChan", "window"} : Places'[c] = Places[c]
  BY <1>1, <1>2, PlaceNames, PlaceContents, PlaceContentsNext
<1>4. Apart(Places')
  BY <1>3, MovedApart, PlaceNames DEF NoPacketTwice
<1> QED
  BY <1>1, <1>2, <1>4 DEF NoPacketTwice, Distinct, HeldApart

\* The window moves into a snapshot.
LEMMA AggregatorTickApart ==
    ASSUME Inv, NoPacketTwice, AggregatorTick PROVE NoPacketTwice'
<1>1. snap = {} /\ snap' = window /\ window' = {}
  BY DEF Inv, HandsMatchPCs, AggregatorTick, Flush
<1>2. /\ UNCHANGED <<inHand, packetChan, held, parsedChan, dropped, skipped, abandoned,
                       unflushed, reported>>
      /\ HeldByWorkers' = HeldByWorkers
  BY DEF AggregatorTick, Flush, HeldByWorkers
<1>3. /\ window \subseteq Places["window"]
      /\ Places'["window"] = Places["window"] \ window
      /\ Places'["snap"] = Places["snap"] \cup window
      /\ \A c \in DOMAIN Places \ {"window", "snap"} : Places'[c] = Places[c]
  BY <1>1, <1>2, PlaceNames, PlaceContents, PlaceContentsNext
<1>4. Apart(Places')
  BY <1>3, MovedApart, PlaceNames DEF NoPacketTwice
<1> QED
  BY <1>1, <1>2, <1>4 DEF NoPacketTwice, Distinct, HeldApart

\* The window moves into the final snapshot.
LEMMA AggregatorEOFApart ==
    ASSUME Inv, NoPacketTwice, AggregatorEOF PROVE NoPacketTwice'
<1>1. snap = {} /\ snap' = window /\ window' = {}
  BY DEF Inv, HandsMatchPCs, AggregatorEOF, Flush
<1>2. /\ UNCHANGED <<inHand, packetChan, held, parsedChan, dropped, skipped, abandoned,
                       unflushed, reported>>
      /\ HeldByWorkers' = HeldByWorkers
  BY DEF AggregatorEOF, Flush, HeldByWorkers
<1>3. /\ window \subseteq Places["window"]
      /\ Places'["window"] = Places["window"] \ window
      /\ Places'["snap"] = Places["snap"] \cup window
      /\ \A c \in DOMAIN Places \ {"window", "snap"} : Places'[c] = Places[c]
  BY <1>1, <1>2, PlaceNames, PlaceContents, PlaceContentsNext
<1>4. Apart(Places')
  BY <1>3, MovedApart, PlaceNames DEF NoPacketTwice
<1> QED
  BY <1>1, <1>2, <1>4 DEF NoPacketTwice, Distinct, HeldApart

\* The snapshot has been handled.
LEMMA AggregatorReportedApart ==
    ASSUME Inv, NoPacketTwice, AggregatorReported PROVE NoPacketTwice'
<1>1. reported' = reported \cup snap /\ snap' = {}
  BY DEF AggregatorReported
<1>2. /\ UNCHANGED <<inHand, packetChan, held, parsedChan, window, dropped, skipped,
                       abandoned, unflushed>>
      /\ HeldByWorkers' = HeldByWorkers
  BY DEF AggregatorReported, HeldByWorkers
<1>3. /\ snap \subseteq Places["snap"]
      /\ Places'["snap"] = Places["snap"] \ snap
      /\ Places'["reported"] = Places["reported"] \cup snap
      /\ \A c \in DOMAIN Places \ {"snap", "reported"} : Places'[c] = Places[c]
  BY <1>1, <1>2, PlaceNames, PlaceContents, PlaceContentsNext
<1>4. Apart(Places')
  BY <1>3, MovedApart, PlaceNames DEF NoPacketTwice
<1> QED
  BY <1>1, <1>2, <1>4 DEF NoPacketTwice, Distinct, HeldApart

\* The window is thrown away.
LEMMA AggregatorCancelledApart ==
    ASSUME Inv, NoPacketTwice, AggregatorCancelled PROVE NoPacketTwice'
<1>1. unflushed' = unflushed \cup window /\ window' = {}
  BY DEF AggregatorCancelled
<1>2. /\ UNCHANGED <<inHand, packetChan, held, parsedChan, snap, dropped, skipped,
                       abandoned, reported>>
      /\ HeldByWorkers' = HeldByWorkers
  BY DEF AggregatorCancelled, HeldByWorkers
<1>3. /\ window \subseteq Places["window"]
      /\ Places'["window"] = Places["window"] \ window
      /\ Places'["unflushed"] = Places["unflushed"] \cup window
      /\ \A c \in DOMAIN Places \ {"window", "unflushed"} : Places'[c] = Places[c]
  BY <1>1, <1>2, PlaceNames, PlaceContents, PlaceContentsNext
<1>4. Apart(Places')
  BY <1>3, MovedApart, PlaceNames DEF NoPacketTwice
<1> QED
  BY <1>1, <1>2, <1>4 DEF NoPacketTwice, Distinct, HeldApart

\* The draining Aggregator throws a packet of parsedChan away.
LEMMA AggregatorDrainApart ==
    ASSUME Inv, NoPacketTwice, AggregatorDrain PROVE NoPacketTwice'
<1>1. /\ Distinct(parsedChan') /\ Head(parsedChan) \in Buffered(parsedChan)
      /\ Buffered(parsedChan') = Buffered(parsedChan) \ {Head(parsedChan)}
      /\ unflushed' = unflushed \cup {Head(parsedChan)}
  BY DistinctTail, BufferedTail DEF Inv, TypeOK, NoPacketTwice, AggregatorDrain
<1>2. /\ UNCHANGED <<inHand, packetChan, held, window, snap, dropped, skipped, abandoned,
                       reported>>
      /\ HeldByWorkers' = HeldByWorkers
  BY DEF AggregatorDrain, HeldByWorkers
<1>3. /\ {Head(parsedChan)} \subseteq Places["parsedChan"]
      /\ Places'["parsedChan"] = Places["parsedChan"] \ {Head(parsedChan)}
      /\ Places'["unflushed"] = Places["unflushed"] \cup {Head(parsedChan)}
      /\ \A c \in DOMAIN Places \ {"parsedChan", "unflushed"} : Places'[c] = Places[c]
  BY <1>1, <1>2, PlaceNames, PlaceContents, PlaceContentsNext
<1>4. Apart(Places')
  BY <1>3, MovedApart, PlaceNames DEF NoPacketTwice
<1> QED
  BY <1>1, <1>2, <1>4 DEF NoPacketTwice, Distinct, HeldApart

\* No step puts a packet in two places.
LEMMA NoPacketTwiceNext == Inv /\ NoPacketTwice /\ [Next]_vars => NoPacketTwice'
<1> SUFFICES ASSUME Inv, NoPacketTwice, [Next]_vars PROVE NoPacketTwice'
  OBVIOUS
<1>1. CASE CaptureStep \/ CaptureInput
  <2>1. CASE CaptureCheck \/ CaptureReadFails \/ CapturePaced \/ CaptureClose \/ CaptureLeave
    BY <2>1, NothingMoved
      DEF CaptureCheck, CaptureReadFails, CapturePaced, CaptureClose, CaptureLeave
  <2> QED
    BY <1>1, <2>1, CaptureReadApart, CaptureInterruptedApart, CaptureSendApart, CaptureDropApart
      DEF CaptureStep, CaptureInput
<1>2. ASSUME NEW w \in Workers, WorkerStep(w) PROVE NoPacketTwice'
  <2>1. CASE WorkerCancelled(w) \/ WorkerEOF(w) \/ WorkerDrained(w)
    BY <2>1, NothingMoved DEF WorkerCancelled, WorkerEOF, WorkerDrained
  <2> QED
    BY <1>2, <2>1, WorkerReceiveApart, WorkerSkipApart, WorkerForwardApart, WorkerAbandonApart,
      WorkerDrainApart DEF WorkerStep
<1>3. CASE Cancel \/ PoolStep \/ Terminated \/ UNCHANGED vars
  BY <1>3, NothingMoved DEF Cancel, PoolStep, PoolClose, PoolLeave, Terminated, vars
<1>4. CASE AggregatorStep
  <2>1. CASE AggregatorDrained
    BY <2>1, NothingMoved DEF AggregatorDrained
  <2> QED
    BY <1>4, <2>1, AggregatorReceiveApart, AggregatorTickApart, AggregatorEOFApart,
      AggregatorReportedApart, AggregatorCancelledApart, AggregatorDrainApart DEF AggregatorStep
<1> QED
  BY <1>1, <1>2, <1>3, <1>4 DEF Next

\* No packet is counted twice: not by two workers, not in two intervals, not as
\* dropped and forwarded, however long the run is.
THEOREM PacketsAreNotDoubled == Spec => []NoPacketTwice
<1>1. Init => NoPacketTwice
  BY DEF Init, NoPacketTwice, Distinct, HeldApart, Apart, Places, Buffered, HeldByWorkers
<1> QED
  BY <1>1, NoPacketTwiceNext, PipelineInvariant, PTL DEF Spec

-------------------------------------------------------------------------------
(* The end of the channels *)

\* No worker sends on the channel that Pool.Run closes.
THEOREM SendsAreSafe == Spec => []NoSendOnClosed
<1>1. Inv => NoSendOnClosed
  BY DEF Inv, StagesEndInOrder, NoSendOnClosed
<1> QED
  BY <1>1, PipelineInvariant, PTL

\* Without a cancellation the end of parsedChan means that packetChan is closed
\* and empty and that no worker has a packet.
LEMMA EndOfParsedChan ==
    ASSUME Inv, ParsedChanClosed, ~cancelled
    PROVE  /\ packetChan = <<>> /\ PacketChanClosed
           /\ HeldByWorkers = {}
<1>1. PICK w \in Workers : wpc[w] = "done"
  BY PipelineAssumption DEF Inv, StagesEndInOrder
<1>2. packetChan = <<>> /\ PacketChanClosed
  BY <1>1 DEF Inv, StagesEndInOrder
<1>3. HeldByWorkers = {}
  BY DEF Inv, StagesEndInOrder, HandsMatchPCs, HeldByWorkers
<1> QED
  BY <1>2, <1>3

\* Without a cancellation the final snapshot is complete: nothing is in flight,
\* and the drops it reports are all there will be.
THEOREM FinalSnapshot == Spec => []FinalSnapshotIsComplete
<1>1. ASSUME Inv, agg = "final", ~cancelled
      PROVE  /\ InFlight = {} /\ window = {}
             /\ snapDrops = Cardinality(dropped) /\ cap \in {"closed", "done"}
  <2>1. parsedChan = <<>> /\ ParsedChanClosed /\ window = {}
    BY <1>1 DEF Inv, StagesEndInOrder
  <2>2. packetChan = <<>> /\ PacketChanClosed /\ HeldByWorkers = {}
    BY <1>1, <2>1, EndOfParsedChan
  <2>3. inHand = NoPacket
    BY <1>1, <2>2 DEF Inv, HandsMatchPCs, PacketChanClosed
  <2>4. snapDrops = Cardinality(dropped)
    BY <1>1 DEF Inv, DropsAreCounted
  <2> QED
    BY <2>1, <2>2, <2>3, <2>4, BufferedEmpty DEF InFlight, PacketChanClosed
<1>2. Inv => FinalSnapshotIsComplete
  BY <1>1 DEF FinalSnapshotIsComplete
<1> QED
  BY <1>2, PipelineInvariant, PTL

\* When every stage has returned, none of them has left a packet anywhere but in
\* packetChan, and there only after a cancellation.
THEOREM NothingLeftBehind == Spec => []QuiescentWhenDone
<1>1. ASSUME Inv, AllDone
      PROVE  /\ InFlight = Buffered(packetChan) /\ window = {} /\ snap = {}
             /\ ~cancelled => packetChan = <<>>
  <2>1. inHand = NoPacket /\ HeldByWorkers = {} /\ snap = {}
    BY <1>1 DEF AllDone, Inv, HandsMatchPCs, HeldByWorkers, StagesEndInOrder, ParsedChanClosed
  <2>2. parsedChan = <<>> /\ window = {}
    BY <1>1 DEF AllDone, Inv, StagesEndInOrder
  <2>3. ~cancelled => packetChan = <<>>
    BY <1>1, EndOfParsedChan DEF AllDone, ParsedChanClosed
  <2> QED
    BY <2>1, <2>2, <2>3, BufferedEmpty DEF InFlight
<1>2. Inv => QuiescentWhenDone
  BY <1>1 DEF QuiescentWhenDone
<1> QED
  BY <1>2, PipelineInvariant, PTL

-------------------------------------------------------------------------------
(* The contract of the stages *)

\* A stage returns only after a cancellation or the end of the capture loop.
LEMMA StagesEndForAReason ==
    ASSUME Inv, cap = "closed" \/ pool = "closed" \/ agg \in {"final", "drain"}
    PROVE  cancelled \/ failed
<1>1. PacketChanClosed => cancelled \/ failed
  BY DEF Inv, StagesEndInOrder, PacketChanClosed
<1>2. ParsedChanClosed => cancelled \/ failed
  BY <1>1, EndOfParsedChan
<1> QED
  BY <1>1, <1>2 DEF Inv, StagesEndInOrder, PacketChanClosed, ParsedChanClosed

\* The stages are launched as StageGroup says, and each of their steps is one of
\* StageGroup's or changes nothing it can see.
LEMMA StepSimulation == Inv /\ [Next]_vars => [SG!Next]_(SG!vars)
<1> SUFFICES ASSUME Inv, [Next]_vars PROVE [SG!Next]_(SG!vars)
  OBVIOUS
<1> USE DEF alive, SG!vars
<1>1. CASE Cancel
  BY <1>1 DEF Cancel, SG!Next, SG!Cancel
<1>2. CASE CaptureReadFails
  BY <1>2 DEF CaptureReadFails, SG!Next, SG!Fail
<1>3. CASE CaptureLeave
  <2>1. SG!Leave("capture")
    BY <1>3, StagesEndForAReason DEF CaptureLeave, SG!Leave
  <2> QED
    BY <2>1 DEF SG!Next, SG!Stages
<1>4. CASE PoolLeave
  <2>1. SG!Leave("processor")
    BY <1>4, StagesEndForAReason DEF PoolLeave, SG!Leave
  <2> QED
    BY <2>1 DEF SG!Next, SG!Stages
<1>5. CASE (AggregatorReported /\ agg = "final") \/ AggregatorDrained
  <2>1. SG!Leave("aggregator")
    BY <1>5, StagesEndForAReason DEF AggregatorReported, AggregatorDrained, SG!Leave
  <2> QED
    BY <2>1 DEF SG!Next, SG!Stages
<1>6. CASE (CaptureStep /\ ~CaptureLeave) \/ CaptureRead
  BY <1>6 DEF CaptureStep, CaptureCheck, CapturePaced, CaptureInterrupted, CaptureSend,
    CaptureClose, CaptureRead, Inv, TypeOK
<1>7. ASSUME NEW w \in Workers, WorkerStep(w) PROVE UNCHANGED SG!vars
  BY <1>7 DEF WorkerStep, WorkerCancelled, WorkerReceive, WorkerSkip, WorkerEOF, WorkerForward,
    WorkerAbandon, WorkerDrain, WorkerDrained
<1>8. CASE PoolClose
  BY <1>8 DEF PoolClose
<1>9. CASE AggregatorReceive \/ AggregatorTick \/ AggregatorEOF \/ AggregatorCancelled
           \/ AggregatorDrain \/ (AggregatorReported /\ agg = "report")
  BY <1>9 DEF AggregatorReceive, AggregatorTick, AggregatorEOF, AggregatorCancelled,
    AggregatorDrain, AggregatorReported
<1>10. CASE Terminated \/ UNCHANGED vars
  BY <1>10 DEF Terminated, vars
<1> QED
  BY <1>1, <1>2, <1>3, <1>4, <1>5, <1>6, <1>7, <1>8, <1>9, <1>10
    DEF Next, CaptureStep, CaptureInput, PoolStep, AggregatorStep, AggregatorReported

\* The pipeline implements the safety part of StageGroup's contract: CaptureService
\* may rely on no stage returning before a cancellation or the end of the capture.
THEOREM PipelineKeepsContract == Spec => SG!Init /\ [][SG!Next]_(SG!vars)
<1>1. Init => SG!Init
  BY DEF Init, SG!Init, SG!Stages, alive
<1> QED
  BY <1>1, StepSimulation, PipelineInvariant, PTL DEF Spec

-------------------------------------------------------------------------------
(* How long a shutdown takes *)

\* The steps that a goroutine may still take after a cancellation, together with those
\* that others take with the packet it passes on: a packet in packetChan is good for
\* three, one in parsedChan for one.  Ticks are not counted.
CaptureLeft    == [read |-> 9, pace |-> 8, send |-> 7, check |-> 3, exit |-> 2, closed |-> 1, done |-> 0]
WorkerLeft     == [send |-> 4, select |-> 2, drain |-> 1, done |-> 0]
PoolLeft       == [wait |-> 2, closed |-> 1, done |-> 0]
AggregatorLeft == [select |-> 2, report |-> 2, final |-> 1, drain |-> 1, done |-> 0]

WorkersLeft == SumFunctionOnSet([w \in Workers |-> WorkerLeft[wpc[w]]], Workers)

\* What the capture loop, the workers and the two stages after them still have to do.
ReadLeft  == CaptureLeft[cap] + 3 * Len(packetChan)
WorkLeft  == WorkersLeft + Len(parsedChan)
EndLeft   == PoolLeft[pool] + AggregatorLeft[agg]
StepsLeft == ReadLeft + WorkLeft + EndLeft

\* After a cancellation every step brings the end nearer, but for a tick and its report.
ShutdownShrinks ==
    [][cancelled => \/ StepsLeft' < StepsLeft
                    \/ StepsLeft' = StepsLeft /\ (AggregatorTick \/ AggregatorReported)]_vars

LeftTyped ==
    /\ CaptureLeft[cap] \in Nat /\ PoolLeft[pool] \in Nat /\ AggregatorLeft[agg] \in Nat
    /\ \A w \in Workers : WorkerLeft[wpc[w]] \in Nat
    /\ Len(packetChan) \in Nat /\ Len(parsedChan) \in Nat /\ WorkersLeft \in Nat
    /\ ReadLeft \in Nat /\ WorkLeft \in Nat /\ EndLeft \in Nat
LeftBounded ==
    /\ ReadLeft <= 9 + 3 * PacketChanCap
    /\ WorkLeft <= 4 * Cardinality(Workers) + ParsedChanCap
    /\ EndLeft <= 4

\* The summands are numbers, before a step and after it.
LEMMA LeftTypes == TypeOK => LeftTyped /\ LeftBounded
<1> SUFFICES ASSUME TypeOK
             PROVE  LeftTyped /\ LeftBounded
  OBVIOUS
<1>1. CaptureLeft[cap] \in Nat /\ CaptureLeft[cap] <= 9
  BY DEF TypeOK, CapturePC, CaptureLeft
<1>2. /\ PoolLeft[pool] \in Nat /\ PoolLeft[pool] <= 2
      /\ AggregatorLeft[agg] \in Nat /\ AggregatorLeft[agg] <= 2
  BY DEF TypeOK, PoolPC, AggregatorPC, PoolLeft, AggregatorLeft
<1>3. \A w \in Workers : WorkerLeft[wpc[w]] \in Nat /\ WorkerLeft[wpc[w]] <= 4
  BY DEF TypeOK, WorkerPC, WorkerLeft
<1>4. /\ Len(packetChan) \in Nat /\ Len(packetChan) <= PacketChanCap
      /\ Len(parsedChan) \in Nat /\ Len(parsedChan) <= ParsedChanCap
  BY DEF TypeOK
<1>5. WorkersLeft \in Nat /\ WorkersLeft <= 4 * Cardinality(Workers)
  <2> DEFINE f == [w \in Workers |-> WorkerLeft[wpc[w]]]
  <2>1. \A w \in Workers : f[w] \in Nat /\ f[w] <= 4
    BY <1>3
  <2> HIDE DEF f
  <2>2. SumFunctionOnSet(f, Workers) \in Nat
    BY <2>1, SumNat, PipelineAssumption
  <2>3. SumFunctionOnSet(f, Workers) <= 4 * Cardinality(Workers)
    BY <2>1, SumBound, PipelineAssumption
  <2> QED
    BY <2>2, <2>3 DEF WorkersLeft, f
<1>6. ReadLeft \in Nat /\ ReadLeft <= 9 + 3 * PacketChanCap
  BY <1>1, <1>4, PipelineAssumption DEF ReadLeft
<1>7. Cardinality(Workers) \in Nat
  BY FS_CardinalityType, PipelineAssumption
<1>8. WorkLeft \in Nat /\ WorkLeft <= 4 * Cardinality(Workers) + ParsedChanCap
  BY <1>4, <1>5, <1>7, PipelineAssumption DEF WorkLeft
<1>9. EndLeft \in Nat /\ EndLeft <= 4
  BY <1>2 DEF EndLeft
<1> QED
  BY <1>1, <1>2, <1>3, <1>4, <1>5, <1>6, <1>8, <1>9 DEF LeftTyped, LeftBounded

LEMMA LeftTypesNext == TypeOK' => LeftTyped'
  BY LeftTypes, PTL

\* A worker that moves leaves the others where they are.
LEMMA WorkersLeftChange ==
    ASSUME TypeOK, TypeOK', NEW w \in Workers, \A v \in Workers : v # w => wpc'[v] = wpc[v]
    PROVE  WorkersLeft' + WorkerLeft[wpc[w]] = WorkersLeft + WorkerLeft[wpc'[w]]
<1> DEFINE f == [v \in Workers |-> WorkerLeft[wpc[v]]]
           g == [v \in Workers |-> WorkerLeft[wpc'[v]]]
<1>1. \A v \in Workers : f[v] \in Nat /\ g[v] \in Nat
  BY DEF TypeOK, WorkerPC, WorkerLeft
<1>2. \A v \in Workers : v # w => g[v] = f[v]
  OBVIOUS
<1>3. f[w] = WorkerLeft[wpc[w]] /\ g[w] = WorkerLeft[wpc'[w]]
  OBVIOUS
<1>4. WorkersLeft = SumFunctionOnSet(f, Workers) /\ WorkersLeft' = SumFunctionOnSet(g, Workers)
  BY DEF WorkersLeft
<1> HIDE DEF f, g
<1>5. SumFunctionOnSet(g, Workers) + f[w] = SumFunctionOnSet(f, Workers) + g[w]
  BY <1>1, <1>2, SumChange, PipelineAssumption
<1> QED
  BY <1>3, <1>4, <1>5

\* The capture loop, which reads no more.
LEMMA CaptureShrinks ==
    ASSUME Inv, Inv', cancelled = TRUE, CaptureStep \/ CaptureInput
    PROVE  StepsLeft' < StepsLeft
<1>1. UNCHANGED <<wpc, parsedChan, pool, agg>>
  BY DEF CaptureStep, CaptureInput, CaptureCheck, CaptureRead, CaptureReadFails, CapturePaced,
    CaptureInterrupted, CaptureSend, CaptureClose, CaptureLeave, poolVars, aggVars
<1>2. WorkLeft' = WorkLeft /\ EndLeft' = EndLeft
  BY <1>1 DEF WorkLeft, EndLeft, WorkersLeft
<1>3. Len(packetChan) \in Nat /\ Len(packetChan') \in Nat
  BY DEF Inv, TypeOK
<1>4. CASE CaptureSend
  <2>1. Len(packetChan') <= Len(packetChan) + 1 /\ cap = "send" /\ cap' = "check"
    BY <1>4 DEF CaptureSend, Inv, TypeOK
  <2>2. CaptureLeft[cap] = 7 /\ CaptureLeft[cap'] = 3
    BY <2>1 DEF CaptureLeft
  <2>3. ReadLeft' < ReadLeft
    BY <1>3, <2>1, <2>2 DEF ReadLeft
  <2> QED
    BY <1>2, <2>3, LeftTypes, LeftTypesNext DEF Inv, LeftTyped, StepsLeft
<1>5. CASE ~CaptureSend
  <2>1. \/ cap = "check" /\ cap' = "exit"
        \/ cap = "read" /\ cap' \in {"pace", "send", "exit"}
        \/ cap = "pace" /\ cap' \in {"send", "exit"}
        \/ cap = "exit" /\ cap' = "closed"
        \/ cap = "closed" /\ cap' = "done"
    BY <1>5 DEF CaptureStep, CaptureInput, CaptureCheck, CaptureRead, CaptureReadFails, CapturePaced,
      CaptureInterrupted, CaptureClose, CaptureLeave
  <2>2. CaptureLeft[cap'] < CaptureLeft[cap]
    BY <2>1 DEF CaptureLeft
  <2>3. packetChan' = packetChan
    BY <1>5 DEF CaptureStep, CaptureInput, CaptureCheck, CaptureRead, CaptureReadFails, CapturePaced,
      CaptureInterrupted, CaptureClose, CaptureLeave
  <2>4. CaptureLeft[cap] \in Nat /\ CaptureLeft[cap'] \in Nat
    BY LeftTypes, LeftTypesNext DEF Inv, LeftTyped
  <2>5. ReadLeft' < ReadLeft
    BY <1>3, <2>2, <2>3, <2>4 DEF ReadLeft
  <2> QED
    BY <1>2, <2>5, LeftTypes, LeftTypesNext DEF Inv, LeftTyped, StepsLeft
<1> QED
  BY <1>4, <1>5

\* A worker, with the packet it takes or passes on.
LEMMA WorkerShrinks ==
    ASSUME Inv, Inv', NEW w \in Workers, WorkerStep(w)
    PROVE  StepsLeft' < StepsLeft
<1> DEFINE was == WorkerLeft[wpc[w]]
           is  == WorkerLeft[wpc'[w]]
           Smaller == 3 * Len(packetChan') + is + Len(parsedChan')
                          < 3 * Len(packetChan) + was + Len(parsedChan)
<1>1. UNCHANGED <<cap, pool, agg>>
  BY DEF WorkerStep, WorkerCancelled, WorkerReceive, WorkerSkip, WorkerEOF, WorkerForward,
    WorkerAbandon, WorkerDrain, WorkerDrained, capVars, poolVars, aggVars
<1>2. \A v \in Workers : v # w => wpc'[v] = wpc[v]
  BY DEF WorkerStep, WorkerCancelled, WorkerReceive, WorkerSkip, WorkerEOF, WorkerForward,
    WorkerAbandon, WorkerDrain, WorkerDrained, poolVars, Inv, TypeOK
<1>3. packetChan # <<>> => Len(Tail(packetChan)) = Len(packetChan) - 1
  BY DEF Inv, TypeOK
<1>4. Len(packetChan) \in Nat /\ Len(parsedChan) \in Nat
  BY DEF Inv, TypeOK
<1>5. was \in Nat /\ is \in Nat
  BY LeftTypes, LeftTypesNext DEF Inv, LeftTyped
<1>6. ASSUME WorkerCancelled(w) \/ WorkerEOF(w) \/ WorkerDrained(w) \/ WorkerAbandon(w)
      PROVE  Smaller
  <2>1. UNCHANGED <<packetChan, parsedChan>>
    BY <1>6 DEF WorkerCancelled, WorkerEOF, WorkerDrained, WorkerAbandon
  <2>2. \/ wpc[w] = "select" /\ wpc'[w] \in {"drain", "done"}
        \/ wpc[w] \in {"send", "drain"} /\ wpc'[w] = "done"
    BY <1>6 DEF WorkerCancelled, WorkerEOF, WorkerDrained, WorkerAbandon, Inv, TypeOK
  <2>3. is < was
    BY <2>2 DEF WorkerLeft
  <2> QED
    BY <1>4, <1>5, <2>1, <2>3
<1>7. ASSUME WorkerReceive(w)
      PROVE  Smaller
  <2>1. /\ packetChan # <<>> /\ packetChan' = Tail(packetChan) /\ parsedChan' = parsedChan
        /\ wpc[w] = "select" /\ wpc'[w] = "send"
    BY <1>7 DEF WorkerReceive, Inv, TypeOK
  <2>2. was = 2 /\ is = 4
    BY <2>1 DEF WorkerLeft
  <2> QED
    BY <1>3, <1>4, <2>1, <2>2
<1>8. ASSUME WorkerSkip(w) \/ WorkerDrain(w)
      PROVE  Smaller
  <2>1. packetChan # <<>> /\ packetChan' = Tail(packetChan) /\ UNCHANGED <<parsedChan, wpc>>
    BY <1>8 DEF WorkerSkip, WorkerDrain, poolVars
  <2> QED
    BY <1>3, <1>4, <1>5, <2>1
<1>9. ASSUME WorkerForward(w)
      PROVE  Smaller
  <2>1. /\ packetChan' = packetChan /\ Len(parsedChan') = Len(parsedChan) + 1
        /\ wpc[w] = "send" /\ wpc'[w] = "select"
    BY <1>9 DEF WorkerForward, Inv, TypeOK
  <2>2. was = 4 /\ is = 2
    BY <2>1 DEF WorkerLeft
  <2> QED
    BY <1>4, <2>1, <2>2
<1>10. Smaller
  BY <1>6, <1>7, <1>8, <1>9 DEF WorkerStep
<1>11. WorkersLeft' + was = WorkersLeft + is
  BY <1>2, WorkersLeftChange DEF Inv
<1>12. /\ WorkersLeft \in Nat /\ WorkersLeft' \in Nat /\ CaptureLeft[cap] \in Nat
       /\ Len(packetChan') \in Nat /\ Len(parsedChan') \in Nat
  BY LeftTypes, LeftTypesNext DEF Inv, LeftTyped
<1> HIDE DEF was, is
<1>13. 3 * Len(packetChan') + WorkersLeft' + Len(parsedChan')
          < 3 * Len(packetChan) + WorkersLeft + Len(parsedChan)
  <2>1. \A p, p1, q, q1, n, n1, a, b \in Nat :
            3 * p1 + b + q1 < 3 * p + a + q /\ n1 + a = n + b => 3 * p1 + n1 + q1 < 3 * p + n + q
    OBVIOUS
  <2> QED
    BY <1>4, <1>5, <1>10, <1>11, <1>12, <2>1
<1>14. ReadLeft' + WorkLeft' < ReadLeft + WorkLeft
  BY <1>1, <1>4, <1>12, <1>13 DEF ReadLeft, WorkLeft
<1>15. EndLeft' = EndLeft
  BY <1>1 DEF EndLeft
<1> QED
  BY <1>14, <1>15, LeftTypes, LeftTypesNext DEF Inv, LeftTyped, StepsLeft

\* Pool.Run, whose workers have returned.
LEMMA PoolShrinks ==
    ASSUME Inv, Inv', PoolStep
    PROVE  StepsLeft' < StepsLeft
<1>1. UNCHANGED <<cap, wpc, packetChan, parsedChan, agg>>
  BY DEF PoolStep, PoolClose, PoolLeave, capVars, aggVars
<1>2. ReadLeft' = ReadLeft /\ WorkLeft' = WorkLeft
  BY <1>1 DEF ReadLeft, WorkLeft, WorkersLeft
<1>3. \/ pool = "wait" /\ pool' = "closed"
      \/ pool = "closed" /\ pool' = "done"
  BY DEF PoolStep, PoolClose, PoolLeave
<1>4. PoolLeft[pool'] < PoolLeft[pool]
  BY <1>3 DEF PoolLeft
<1>5. PoolLeft[pool] \in Nat /\ PoolLeft[pool'] \in Nat /\ AggregatorLeft[agg] \in Nat
  BY LeftTypes, LeftTypesNext DEF Inv, LeftTyped
<1>6. EndLeft' < EndLeft
  BY <1>1, <1>4, <1>5 DEF EndLeft
<1> QED
  BY <1>2, <1>6, LeftTypes, LeftTypesNext DEF Inv, LeftTyped, StepsLeft

\* The Aggregator, whose ticks come whenever they like.
LEMMA AggregatorShrinks ==
    ASSUME Inv, Inv', AggregatorStep
    PROVE  \/ StepsLeft' < StepsLeft
           \/ StepsLeft' = StepsLeft /\ (AggregatorTick \/ AggregatorReported)
<1>1. UNCHANGED <<cap, wpc, packetChan, pool>>
  BY DEF AggregatorStep, AggregatorReceive, AggregatorTick, AggregatorEOF, AggregatorReported,
    AggregatorCancelled, AggregatorDrain, AggregatorDrained, capVars, poolVars
<1>2. ReadLeft' = ReadLeft /\ WorkersLeft' = WorkersLeft
  BY <1>1 DEF ReadLeft, WorkersLeft
<1>3. /\ PoolLeft[pool] \in Nat /\ AggregatorLeft[agg] \in Nat /\ AggregatorLeft[agg'] \in Nat
      /\ WorkersLeft \in Nat /\ Len(parsedChan) \in Nat /\ Len(parsedChan') \in Nat
  BY LeftTypes, LeftTypesNext DEF Inv, LeftTyped
<1>4. CASE AggregatorReceive \/ AggregatorDrain
  <2>1. parsedChan # <<>> /\ parsedChan' = Tail(parsedChan) /\ agg' = agg
    BY <1>4 DEF AggregatorReceive, AggregatorDrain
  <2>2. Len(parsedChan') = Len(parsedChan) - 1
    BY <2>1 DEF Inv, TypeOK
  <2>3. WorkLeft' < WorkLeft
    BY <1>2, <1>3, <2>2 DEF WorkLeft
  <2>4. EndLeft' = EndLeft
    BY <1>1, <2>1 DEF EndLeft
  <2> QED
    BY <1>2, <2>3, <2>4, LeftTypes, LeftTypesNext DEF Inv, LeftTyped, StepsLeft
<1>5. CASE AggregatorEOF \/ AggregatorCancelled \/ AggregatorDrained
  <2>1. /\ parsedChan' = parsedChan
        /\ \/ agg = "select" /\ agg' \in {"final", "drain"}
           \/ agg = "drain" /\ agg' = "done"
    BY <1>5 DEF AggregatorEOF, AggregatorCancelled, AggregatorDrained
  <2>2. AggregatorLeft[agg'] < AggregatorLeft[agg]
    BY <2>1 DEF AggregatorLeft
  <2>3. WorkLeft' = WorkLeft
    BY <1>2, <2>1 DEF WorkLeft
  <2>4. EndLeft' < EndLeft
    BY <1>1, <1>3, <2>2 DEF EndLeft
  <2> QED
    BY <1>2, <2>3, <2>4, LeftTypes, LeftTypesNext DEF Inv, LeftTyped, StepsLeft
<1>6. CASE AggregatorTick \/ AggregatorReported
  <2>1. /\ parsedChan' = parsedChan
        /\ \/ agg = "select" /\ agg' = "report"
           \/ agg = "report" /\ agg' = "select"
           \/ agg = "final" /\ agg' = "done"
    BY <1>6 DEF AggregatorTick, AggregatorReported
  <2>2. AggregatorLeft[agg'] <= AggregatorLeft[agg]
    BY <2>1 DEF AggregatorLeft
  <2>3. WorkLeft' = WorkLeft
    BY <1>2, <2>1 DEF WorkLeft
  <2>4. EndLeft' <= EndLeft
    BY <1>1, <1>3, <2>2 DEF EndLeft
  <2>5. /\ ReadLeft \in Nat /\ WorkLeft \in Nat
        /\ EndLeft \in Nat /\ EndLeft' \in Nat
    BY LeftTypes, LeftTypesNext DEF Inv, LeftTyped
  <2>6. CASE EndLeft' < EndLeft
    BY <1>2, <2>3, <2>6, LeftTypes, LeftTypesNext DEF Inv, LeftTyped, StepsLeft
  <2>7. CASE EndLeft' = EndLeft
    BY <1>2, <1>6, <2>3, <2>7 DEF StepsLeft
  <2> QED
    BY <2>4, <2>5, <2>6, <2>7
<1> QED
  BY <1>4, <1>5, <1>6 DEF AggregatorStep

\* A shutdown is bounded, whatever is in the channels and whichever stage is blocked:
\* every step after a cancellation but the Aggregator's ticks uses up one of StepsLeft,
\* of which there are at most a constant and three for each place in packetChan, one for
\* each place in parsedChan and four for each worker (capture_service.go:181-217).
THEOREM ShutdownIsBounded ==
    Spec => /\ ShutdownShrinks
            /\ [](StepsLeft \in Nat
                     /\ StepsLeft <= 13 + 3 * PacketChanCap + ParsedChanCap + 4 * Cardinality(Workers))
<1>1. Inv /\ Inv' /\ [Next]_vars =>
        [cancelled => \/ StepsLeft' < StepsLeft
                      \/ StepsLeft' = StepsLeft /\ (AggregatorTick \/ AggregatorReported)]_vars
  <2> SUFFICES ASSUME Inv, Inv', Next, cancelled, ~UNCHANGED vars
               PROVE  \/ StepsLeft' < StepsLeft
                      \/ StepsLeft' = StepsLeft /\ (AggregatorTick \/ AggregatorReported)
    OBVIOUS
  <2>1. ~Cancel /\ ~Terminated /\ cancelled = TRUE
    BY DEF Cancel, Terminated, Inv, TypeOK
  <2> QED
    BY <2>1, CaptureShrinks, WorkerShrinks, PoolShrinks, AggregatorShrinks DEF Next
<1>2. Inv => /\ StepsLeft \in Nat
             /\ StepsLeft <= 13 + 3 * PacketChanCap + ParsedChanCap + 4 * Cardinality(Workers)
  <2> SUFFICES ASSUME Inv
               PROVE  /\ StepsLeft \in Nat
                      /\ StepsLeft <= 13 + 3 * PacketChanCap + ParsedChanCap + 4 * Cardinality(Workers)
    OBVIOUS
  <2>1. Cardinality(Workers) \in Nat
    BY FS_CardinalityType, PipelineAssumption
  <2> QED
    BY <2>1, LeftTypes, PipelineAssumption DEF Inv, LeftTyped, LeftBounded, StepsLeft
<1> QED
  BY <1>1, <1>2, PipelineInvariant, PTL DEF Spec, ShutdownShrinks
===============================================================================
