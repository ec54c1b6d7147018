-------------------------- MODULE BidOrderProofs --------------------------
(* Theorems about BidOrder, with or without a timeout and for any number of restarts. *)
EXTENDS BidOrder, TLAPS

\* A new order has only asked for its group.
LEMMA InitIInv == Init => IInv
  <1> SUFFICES ASSUME Init PROVE IInv
    OBVIOUS
  <1> USE OrderParameters DEF Init, NoCalls, Calls
  <1>1. TypeOK
    <2>1. FlagTypes
      BY DEF FlagTypes
    <2>2. StateTypes
      BY DEF StateTypes, Phases
    <2>3. QueueTypes
      BY DEF QueueTypes
    <2> QED
      BY <2>1, <2>2, <2>3 DEF TypeOK
  <1>2. OneCallAtATime /\ CallOrder /\ ReservationKnown
    BY DEF OneCallAtATime, CallOrder, ReservationKnown
  <1>3. Idle /\ OwnBid /\ BidsAreBacked /\ WinsAreBacked /\ NothingLeftReserved
    BY DEF Idle, OwnBid, BidsAreBacked, WinsAreBacked, NothingLeftReserved
  <1> QED
    BY <1>1, <1>2, <1>3 DEF IInv

\* Queues are emptied, shortened or extended by one element.
LEMMA QueueStep ==
  ASSUME TypeOK,
         \/ events' = events
         \/ events' = <<>>
         \/ \E e \in {"won", "lost", "closed"} : events' = Append(events, e),
         \/ mempool' = mempool
         \/ mempool # <<>> /\ mempool' = Tail(mempool)
         \/ \E t \in {"create", "close"} : mempool' = Append(mempool, t)
  PROVE  QueueTypes'
  <1>1. events' \in Seq({"won", "lost", "closed"})
    <2>1. events \in Seq({"won", "lost", "closed"})
      BY DEF TypeOK, QueueTypes
    <2>2. CASE events' = events
      BY <2>1, <2>2
    <2>3. CASE events' = <<>>
      BY <2>3
    <2>4. CASE \E e \in {"won", "lost", "closed"} : events' = Append(events, e)
      BY <2>1, <2>4
    <2> QED
      BY <2>2, <2>3, <2>4
  <1>2. mempool' \in Seq({"create", "close"})
    <2>1. mempool \in Seq({"create", "close"})
      BY DEF TypeOK, QueueTypes
    <2>2. CASE mempool' = mempool
      BY <2>1, <2>2
    <2>3. CASE mempool # <<>> /\ mempool' = Tail(mempool)
      BY <2>1, <2>3
    <2>4. CASE \E t \in {"create", "close"} : mempool' = Append(mempool, t)
      BY <2>1, <2>4
    <2> QED
      BY <2>2, <2>3, <2>4
  <1> QED
    BY <1>1, <1>2 DEF QueueTypes

\* Reading the answer of a reservation after the loop.
LEMMA ClusterRead ==
  ASSUME TypeOK, OneCallAtATime, CallOrder,
         call' = [call EXCEPT !["cluster"] = "none"],
         phase' # "loop", UNCHANGED <<hidden, group, recovered>>
  PROVE  OneCallAtATime' /\ CallOrder'
  <1>1. OneCallAtATime'
    BY DEF TypeOK, Calls, OneCallAtATime
  <1>2. CallOrder'
    BY DEF TypeOK, Calls, CallOrder
  <1> QED
    BY <1>1, <1>2

\* Every step of the order, its calls, the chain and a restart keeps the invariant.
LEMMA NextIInv == IInv /\ [Next]_vars => IInv'
  <1> SUFFICES ASSUME IInv, [Next]_vars PROVE IInv'
    OBVIOUS
  <1> USE OrderParameters
  <1>1. CASE Shutdown
    <2> USE <1>1 DEF Shutdown, Exit, loopVars, chainVars, historyVars
    <2>1. FlagTypes'
      BY DEF IInv, TypeOK, FlagTypes
    <2>2. (StateTypes /\ QueueTypes)'
      BY DEF IInv, TypeOK, StateTypes, QueueTypes, Phases
    <2>3. TypeOK'
      BY <2>1, <2>2 DEF IInv, TypeOK, Calls, NoCalls
    <2>4. (OneCallAtATime /\ CallOrder /\ ReservationKnown)'
      BY DEF IInv, TypeOK, Calls, NoCalls, OneCallAtATime, CallOrder, ReservationKnown, Idle
    <2>5. (Idle /\ OwnBid)'
      BY DEF IInv, TypeOK, Calls, NoCalls, Idle, OwnBid
    <2>6. (BidsAreBacked /\ WinsAreBacked)'
      BY DEF IInv, BidsAreBacked, WinsAreBacked, Idle
    <2>7. NothingLeftReserved' /\ (won => phase # "loop")'
      BY DEF IInv, TypeOK, Calls, NoCalls, NothingLeftReserved, Idle
    <2> QED
      BY <2>3, <2>4, <2>5, <2>6, <2>7 DEF IInv
  <1>2. CASE QueryBidResult
    <2> USE <1>2 DEF QueryBidResult, Exit, Stay, Answered, loopVars, chainVars, historyVars
    <2>1. (call \in [Calls -> {"none", "running", "ok", "no", "err"}])'
      BY DEF IInv, TypeOK, Calls, NoCalls
    <2>2. FlagTypes'
      BY DEF IInv, TypeOK, FlagTypes
    <2>3. QueueTypes'
      BY QueueStep DEF IInv
    <2>4. StateTypes'
      BY DEF IInv, TypeOK, StateTypes, Phases
    <2>5. OneCallAtATime'
      BY DEF IInv, TypeOK, Calls, NoCalls, OneCallAtATime
    <2>6. CallOrder'
      BY DEF IInv, TypeOK, FlagTypes, Calls, NoCalls, OneCallAtATime, CallOrder,
         ReservationKnown, Idle
    <2>7. ReservationKnown'
      BY DEF IInv, TypeOK, FlagTypes, Calls, NoCalls, OneCallAtATime, CallOrder,
         ReservationKnown, NothingLeftReserved, Idle
    <2>8. Idle'
      BY DEF IInv, TypeOK, FlagTypes, Calls, NoCalls, Idle
    <2>9. OwnBid'
      BY DEF IInv, TypeOK, FlagTypes, QueueTypes, StateTypes, Calls, CallOrder, OwnBid, Idle
    <2>10. BidsAreBacked' /\ WinsAreBacked'
      BY DEF IInv, TypeOK, FlagTypes, QueueTypes, Calls, CallOrder, ReservationKnown, OwnBid,
         BidsAreBacked, WinsAreBacked, Idle
    <2>11. NothingLeftReserved' /\ (won => phase # "loop")'
      BY DEF IInv, TypeOK, FlagTypes, Calls, NoCalls, OneCallAtATime, ReservationKnown,
         NothingLeftReserved, Idle
    <2>t. TypeOK'
      BY <2>1, <2>2, <2>3, <2>4 DEF TypeOK
    <2> QED
      BY <2>t, <2>1, <2>2, <2>3, <2>4, <2>5, <2>6, <2>7, <2>8, <2>9, <2>10, <2>11 DEF IInv
  <1>3. CASE Event
    <2> USE <1>3 DEF Event, Exit, loopVars, chainVars, historyVars
    <2>1. (call \in [Calls -> {"none", "running", "ok", "no", "err"}])'
      BY DEF IInv, TypeOK, Calls, NoCalls
    <2>2. FlagTypes'
      BY DEF IInv, TypeOK, FlagTypes
    <2>3. QueueTypes'
      BY QueueStep DEF IInv
    <2>4. StateTypes'
      BY DEF IInv, TypeOK, StateTypes, Phases
    <2>5. OneCallAtATime'
      BY DEF IInv, TypeOK, Calls, NoCalls, OneCallAtATime
    <2>6. CallOrder'
      BY DEF IInv, TypeOK, FlagTypes, Calls, NoCalls, OneCallAtATime, CallOrder,
         ReservationKnown, Idle
    <2>7. ReservationKnown'
      BY DEF IInv, TypeOK, FlagTypes, Calls, NoCalls, OneCallAtATime, CallOrder,
         ReservationKnown, NothingLeftReserved, Idle
    <2>8. Idle'
      BY DEF IInv, TypeOK, FlagTypes, Calls, NoCalls, Idle
    <2>9. OwnBid'
      BY DEF IInv, TypeOK, FlagTypes, QueueTypes, StateTypes, Calls, CallOrder, OwnBid, Idle
    <2>10. BidsAreBacked' /\ WinsAreBacked'
      BY DEF IInv, TypeOK, FlagTypes, QueueTypes, Calls, CallOrder, ReservationKnown, OwnBid,
         BidsAreBacked, WinsAreBacked, Idle
    <2>11. NothingLeftReserved' /\ (won => phase # "loop")'
      BY DEF IInv, TypeOK, FlagTypes, Calls, NoCalls, OneCallAtATime, ReservationKnown,
         NothingLeftReserved, Idle
    <2>t. TypeOK'
      BY <2>1, <2>2, <2>3, <2>4 DEF TypeOK
    <2> QED
      BY <2>t, <2>1, <2>2, <2>3, <2>4, <2>5, <2>6, <2>7, <2>8, <2>9, <2>10, <2>11 DEF IInv
  <1>4. CASE GroupResult
    <2> USE <1>4 DEF GroupResult, Exit, Stay, Answered, loopVars, chainVars, historyVars
    <2>1. (call \in [Calls -> {"none", "running", "ok", "no", "err"}])'
      BY DEF IInv, TypeOK, Calls, NoCalls
    <2>2. FlagTypes'
      BY DEF IInv, TypeOK, FlagTypes
    <2>3. QueueTypes'
      BY QueueStep DEF IInv
    <2>4. StateTypes'
      BY DEF IInv, TypeOK, StateTypes, Phases
    <2>5. OneCallAtATime'
      BY DEF IInv, TypeOK, Calls, NoCalls, OneCallAtATime
    <2>6. CallOrder'
      BY DEF IInv, TypeOK, FlagTypes, Calls, NoCalls, OneCallAtATime, CallOrder,
         ReservationKnown, Idle
    <2>7. ReservationKnown'
      BY DEF IInv, TypeOK, FlagTypes, Calls, NoCalls, OneCallAtATime, CallOrder,
         ReservationKnown, NothingLeftReserved, Idle
    <2>8. Idle'
      BY DEF IInv, TypeOK, FlagTypes, Calls, NoCalls, Idle
    <2>9. OwnBid'
      BY DEF IInv, TypeOK, FlagTypes, QueueTypes, StateTypes, Calls, CallOrder, OwnBid, Idle
    <2>10. BidsAreBacked' /\ WinsAreBacked'
      BY DEF IInv, TypeOK, FlagTypes, QueueTypes, Calls, CallOrder, ReservationKnown, OwnBid,
         BidsAreBacked, WinsAreBacked, Idle
    <2>11. NothingLeftReserved' /\ (won => phase # "loop")'
      BY DEF IInv, TypeOK, FlagTypes, Calls, NoCalls, OneCallAtATime, ReservationKnown,
         NothingLeftReserved, Idle
    <2>t. TypeOK'
      BY <2>1, <2>2, <2>3, <2>4 DEF TypeOK
    <2> QED
      BY <2>t, <2>1, <2>2, <2>3, <2>4, <2>5, <2>6, <2>7, <2>8, <2>9, <2>10, <2>11 DEF IInv
  <1>5. CASE ShouldBidResult
    <2> USE <1>5 DEF ShouldBidResult, Exit, Stay, Answered, loopVars, chainVars, historyVars
    <2>1. (call \in [Calls -> {"none", "running", "ok", "no", "err"}])'
      BY DEF IInv, TypeOK, Calls, NoCalls
    <2>2. FlagTypes'
      BY DEF IInv, TypeOK, FlagTypes
    <2>3. QueueTypes'
      BY QueueStep DEF IInv
    <2>4. StateTypes'
      BY DEF IInv, TypeOK, StateTypes, Phases
    <2>5. OneCallAtATime'
      BY DEF IInv, TypeOK, Calls, NoCalls, OneCallAtATime
    <2>6. CallOrder'
      BY DEF IInv, TypeOK, FlagTypes, Calls, NoCalls, OneCallAtATime, CallOrder,
         ReservationKnown, Idle
    <2>7. ReservationKnown'
      BY DEF IInv, TypeOK, FlagTypes, Calls, NoCalls, OneCallAtATime, CallOrder,
         ReservationKnown, NothingLeftReserved, Idle
    <2>8. Idle'
      BY DEF IInv, TypeOK, FlagTypes, Calls, NoCalls, Idle
    <2>9. OwnBid'
      BY DEF IInv, TypeOK, FlagTypes, QueueTypes, StateTypes, Calls, CallOrder, OwnBid, Idle
    <2>10. BidsAreBacked' /\ WinsAreBacked'
      BY DEF IInv, TypeOK, FlagTypes, QueueTypes, Calls, CallOrder, ReservationKnown, OwnBid,
         BidsAreBacked, WinsAreBacked, Idle
    <2>11. NothingLeftReserved' /\ (won => phase # "loop")'
      BY DEF IInv, TypeOK, FlagTypes, Calls, NoCalls, OneCallAtATime, ReservationKnown,
         NothingLeftReserved, Idle
    <2>t. TypeOK'
      BY <2>1, <2>2, <2>3, <2>4 DEF TypeOK
    <2> QED
      BY <2>t, <2>1, <2>2, <2>3, <2>4, <2>5, <2>6, <2>7, <2>8, <2>9, <2>10, <2>11 DEF IInv
  <1>6. CASE ClusterResult
    <2> USE <1>6 DEF ClusterResult, Exit, Stay, Answered, loopVars, chainVars, historyVars
    <2>1. (call \in [Calls -> {"none", "running", "ok", "no", "err"}])'
      BY DEF IInv, TypeOK, Calls, NoCalls
    <2>2. FlagTypes'
      BY DEF IInv, TypeOK, FlagTypes
    <2>3. QueueTypes'
      BY QueueStep DEF IInv
    <2>4. StateTypes'
      BY DEF IInv, TypeOK, StateTypes, Phases
    <2>5. OneCallAtATime'
      BY DEF IInv, TypeOK, Calls, NoCalls, OneCallAtATime
    <2>6. CallOrder'
      BY DEF IInv, TypeOK, FlagTypes, Calls, NoCalls, OneCallAtATime, CallOrder,
         ReservationKnown, Idle
    <2>7. ReservationKnown'
      BY DEF IInv, TypeOK, FlagTypes, Calls, NoCalls, OneCallAtATime, CallOrder,
         ReservationKnown, NothingLeftReserved, Idle
    <2>8. Idle'
      BY DEF IInv, TypeOK, FlagTypes, Calls, NoCalls, Idle
    <2>9. OwnBid'
      BY DEF IInv, TypeOK, FlagTypes, QueueTypes, StateTypes, Calls, CallOrder, OwnBid, Idle
    <2>10. BidsAreBacked' /\ WinsAreBacked'
      BY DEF IInv, TypeOK, FlagTypes, QueueTypes, Calls, CallOrder, ReservationKnown, OwnBid,
         BidsAreBacked, WinsAreBacked, Idle
    <2>11. NothingLeftReserved' /\ (won => phase # "loop")'
      BY DEF IInv, TypeOK, FlagTypes, Calls, NoCalls, OneCallAtATime, ReservationKnown,
         NothingLeftReserved, Idle
    <2>t. TypeOK'
      BY <2>1, <2>2, <2>3, <2>4 DEF TypeOK
    <2> QED
      BY <2>t, <2>1, <2>2, <2>3, <2>4, <2>5, <2>6, <2>7, <2>8, <2>9, <2>10, <2>11 DEF IInv
  <1>7. CASE PriceResult
    <2> USE <1>7 DEF PriceResult, Exit, Stay, Answered, loopVars, chainVars, historyVars
    <2>1. (call \in [Calls -> {"none", "running", "ok", "no", "err"}])'
      BY DEF IInv, TypeOK, Calls, NoCalls
    <2>2. FlagTypes'
      BY DEF IInv, TypeOK, FlagTypes
    <2>3. QueueTypes'
      BY QueueStep DEF IInv
    <2>4. StateTypes'
      BY DEF IInv, TypeOK, StateTypes, Phases
    <2>5. OneCallAtATime'
      BY DEF IInv, TypeOK, Calls, NoCalls, OneCallAtATime
    <2>6. CallOrder'
      BY DEF IInv, TypeOK, FlagTypes, Calls, NoCalls, OneCallAtATime, CallOrder,
         ReservationKnown, Idle
    <2>7. ReservationKnown'
      BY DEF IInv, TypeOK, FlagTypes, Calls, NoCalls, OneCallAtATime, CallOrder,
         ReservationKnown, NothingLeftReserved, Idle
    <2>8. Idle'
      BY DEF IInv, TypeOK, FlagTypes, Calls, NoCalls, Idle
    <2>9. OwnBid'
      BY DEF IInv, TypeOK, FlagTypes, QueueTypes, StateTypes, Calls, CallOrder, OwnBid, Idle
    <2>10. BidsAreBacked' /\ WinsAreBacked'
      BY DEF IInv, TypeOK, FlagTypes, QueueTypes, Calls, CallOrder, ReservationKnown, OwnBid,
         BidsAreBacked, WinsAreBacked, Idle
    <2>11. NothingLeftReserved' /\ (won => phase # "loop")'
      BY DEF IInv, TypeOK, FlagTypes, Calls, NoCalls, OneCallAtATime, ReservationKnown,
         NothingLeftReserved, Idle
    <2>t. TypeOK'
      BY <2>1, <2>2, <2>3, <2>4 DEF TypeOK
    <2> QED
      BY <2>t, <2>1, <2>2, <2>3, <2>4, <2>5, <2>6, <2>7, <2>8, <2>9, <2>10, <2>11 DEF IInv
  <1>8. CASE BidResult
    <2> USE <1>8 DEF BidResult, Exit, Stay, Answered, loopVars, chainVars, historyVars
    <2>1. (call \in [Calls -> {"none", "running", "ok", "no", "err"}])'
      BY DEF IInv, TypeOK, Calls, NoCalls
    <2>2. FlagTypes'
      BY DEF IInv, TypeOK, FlagTypes
    <2>3. QueueTypes'
      BY QueueStep DEF IInv
    <2>4. StateTypes'
      BY DEF IInv, TypeOK, StateTypes, Phases
    <2>5. OneCallAtATime'
      BY DEF IInv, TypeOK, Calls, NoCalls, OneCallAtATime
    <2>6. CallOrder'
      BY DEF IInv, TypeOK, FlagTypes, Calls, NoCalls, OneCallAtATime, CallOrder,
         ReservationKnown, Idle
    <2>7. ReservationKnown'
      BY DEF IInv, TypeOK, FlagTypes, Calls, NoCalls, OneCallAtATime, CallOrder,
         ReservationKnown, NothingLeftReserved, Idle
    <2>8. Idle'
      BY DEF IInv, TypeOK, FlagTypes, Calls, NoCalls, Idle
    <2>9. OwnBid'
      BY DEF IInv, TypeOK, FlagTypes, QueueTypes, StateTypes, Calls, CallOrder, OwnBid, Idle
    <2>10. BidsAreBacked' /\ WinsAreBacked'
      BY DEF IInv, TypeOK, FlagTypes, QueueTypes, Calls, CallOrder, ReservationKnown, OwnBid,
         BidsAreBacked, WinsAreBacked, Idle
    <2>11. NothingLeftReserved' /\ (won => phase # "loop")'
      BY DEF IInv, TypeOK, FlagTypes, Calls, NoCalls, OneCallAtATime, ReservationKnown,
         NothingLeftReserved, Idle
    <2>t. TypeOK'
      BY <2>1, <2>2, <2>3, <2>4 DEF TypeOK
    <2> QED
      BY <2>t, <2>1, <2>2, <2>3, <2>4, <2>5, <2>6, <2>7, <2>8, <2>9, <2>10, <2>11 DEF IInv
  <1>9. CASE Timeout
    <2> USE <1>9 DEF Timeout, Exit, loopVars, chainVars, historyVars
    <2>1. FlagTypes'
      BY DEF IInv, TypeOK, FlagTypes
    <2>2. (StateTypes /\ QueueTypes)'
      BY DEF IInv, TypeOK, StateTypes, QueueTypes, Phases
    <2>3. TypeOK'
      BY <2>1, <2>2 DEF IInv, TypeOK, Calls, NoCalls
    <2>4. (OneCallAtATime /\ CallOrder /\ ReservationKnown)'
      BY DEF IInv, TypeOK, Calls, NoCalls, OneCallAtATime, CallOrder, ReservationKnown, Idle
    <2>5. (Idle /\ OwnBid)'
      BY DEF IInv, TypeOK, Calls, NoCalls, Idle, OwnBid
    <2>6. (BidsAreBacked /\ WinsAreBacked)'
      BY DEF IInv, BidsAreBacked, WinsAreBacked, Idle
    <2>7. NothingLeftReserved' /\ (won => phase # "loop")'
      BY DEF IInv, TypeOK, Calls, NoCalls, NothingLeftReserved, Idle
    <2> QED
      BY <2>3, <2>4, <2>5, <2>6, <2>7 DEF IInv
  <1>10. CASE Unreserve
    <2> USE <1>10 DEF Unreserve, loopVars, chainVars, historyVars
    <2>1. (call \in [Calls -> {"none", "running", "ok", "no", "err"}])'
      BY DEF IInv, TypeOK, Calls, NoCalls
    <2>2. FlagTypes'
      BY DEF IInv, TypeOK, FlagTypes
    <2>3. QueueTypes'
      BY QueueStep DEF IInv
    <2>4. StateTypes'
      BY DEF IInv, TypeOK, StateTypes, Phases
    <2>5. OneCallAtATime'
      <3>1. CASE won
        BY <3>1 DEF IInv, TypeOK, Calls, NoCalls, OneCallAtATime
      <3>2. CASE ~won
        BY <3>2, ClusterRead DEF IInv
      <3> QED
        BY <3>1, <3>2
    <2>6. CallOrder'
      <3>1. CASE won
        BY <3>1 DEF IInv, TypeOK, FlagTypes, Calls, NoCalls, OneCallAtATime, CallOrder,
           ReservationKnown, Idle
      <3>2. CASE ~won
        BY <3>2, ClusterRead DEF IInv
      <3> QED
        BY <3>1, <3>2
    <2>7. ReservationKnown'
      BY DEF IInv, TypeOK, FlagTypes, Calls, NoCalls, OneCallAtATime, CallOrder,
         ReservationKnown, NothingLeftReserved, Idle
    <2>8. Idle'
      BY DEF IInv, TypeOK, FlagTypes, Calls, NoCalls, Idle
    <2>9. OwnBid'
      BY DEF IInv, TypeOK, FlagTypes, QueueTypes, StateTypes, Calls, CallOrder, OwnBid, Idle
    <2>10. BidsAreBacked' /\ WinsAreBacked'
      BY DEF IInv, TypeOK, FlagTypes, QueueTypes, Calls, CallOrder, ReservationKnown, OwnBid,
         BidsAreBacked, WinsAreBacked, Idle
    <2>11. NothingLeftReserved' /\ (won => phase # "loop")'
      BY DEF IInv, TypeOK, FlagTypes, Calls, NoCalls, OneCallAtATime, ReservationKnown,
         NothingLeftReserved, Idle
    <2>t. TypeOK'
      BY <2>1, <2>2, <2>3, <2>4 DEF TypeOK
    <2> QED
      BY <2>t, <2>1, <2>2, <2>3, <2>4, <2>5, <2>6, <2>7, <2>8, <2>9, <2>10, <2>11 DEF IInv
  <1>11. CASE CloseBid
    <2> USE <1>11 DEF CloseBid, loopVars, chainVars, historyVars
    <2>1. (call \in [Calls -> {"none", "running", "ok", "no", "err"}])'
      BY DEF IInv, TypeOK, Calls, NoCalls
    <2>2. FlagTypes'
      <3>1. FlagTypes
        BY DEF IInv, TypeOK
      <3>2. closeFailed' \in BOOLEAN
        BY <3>1 DEF FlagTypes
      <3> QED
        BY <3>1, <3>2 DEF FlagTypes
    <2>3. QueueTypes'
      BY QueueStep DEF IInv
    <2>4. StateTypes'
      BY DEF IInv, TypeOK, StateTypes, Phases
    <2>5. OneCallAtATime'
      BY DEF IInv, TypeOK, Calls, NoCalls, OneCallAtATime
    <2>6. CallOrder'
      BY DEF IInv, TypeOK, FlagTypes, Calls, NoCalls, OneCallAtATime, CallOrder,
         ReservationKnown, Idle
    <2>7. ReservationKnown'
      BY DEF IInv, TypeOK, FlagTypes, Calls, NoCalls, OneCallAtATime, CallOrder,
         ReservationKnown, NothingLeftReserved, Idle
    <2>8. Idle'
      BY DEF IInv, TypeOK, FlagTypes, Calls, NoCalls, Idle
    <2>9. OwnBid'
      BY DEF IInv, TypeOK, FlagTypes, QueueTypes, StateTypes, Calls, CallOrder, OwnBid, Idle
    <2>10. BidsAreBacked' /\ WinsAreBacked'
      BY DEF IInv, TypeOK, FlagTypes, QueueTypes, Calls, CallOrder, ReservationKnown, OwnBid,
         BidsAreBacked, WinsAreBacked, Idle
    <2>11. NothingLeftReserved' /\ (won => phase # "loop")'
      BY DEF IInv, TypeOK, FlagTypes, Calls, NoCalls, OneCallAtATime, ReservationKnown,
         NothingLeftReserved, Idle
    <2>t. TypeOK'
      BY <2>1, <2>2, <2>3, <2>4 DEF TypeOK
    <2> QED
      BY <2>t, <2>1, <2>2, <2>3, <2>4, <2>5, <2>6, <2>7, <2>8, <2>9, <2>10, <2>11 DEF IInv
  <1>12. CASE Drain
    <2> USE <1>12 DEF Drain, loopVars, chainVars, historyVars
    <2>1. FlagTypes'
      BY DEF IInv, TypeOK, FlagTypes
    <2>2. (StateTypes /\ QueueTypes)'
      BY DEF IInv, TypeOK, StateTypes, QueueTypes, Phases
    <2>3. TypeOK'
      BY <2>1, <2>2 DEF IInv, TypeOK, Calls, NoCalls
    <2>4. (OneCallAtATime /\ CallOrder /\ ReservationKnown)'
      BY DEF IInv, TypeOK, Calls, NoCalls, OneCallAtATime, CallOrder, ReservationKnown, Idle
    <2>5. (Idle /\ OwnBid)'
      BY DEF IInv, TypeOK, Calls, NoCalls, Idle, OwnBid
    <2>6. (BidsAreBacked /\ WinsAreBacked)'
      BY DEF IInv, BidsAreBacked, WinsAreBacked, Idle
    <2>7. NothingLeftReserved' /\ (won => phase # "loop")'
      BY DEF IInv, TypeOK, Calls, NoCalls, NothingLeftReserved, Idle
    <2> QED
      BY <2>3, <2>4, <2>5, <2>6, <2>7 DEF IInv
  <1>13. CASE Returns
    <2> USE <1>13 DEF Returns, loopVars, chainVars, historyVars
    <2>1. FlagTypes'
      BY DEF IInv, TypeOK, FlagTypes
    <2>2. (StateTypes /\ QueueTypes)'
      BY DEF IInv, TypeOK, StateTypes, QueueTypes, Phases
    <2>3. TypeOK'
      BY <2>1, <2>2 DEF IInv, TypeOK, Calls, NoCalls
    <2>4. (OneCallAtATime /\ CallOrder /\ ReservationKnown)'
      BY DEF IInv, TypeOK, Calls, NoCalls, OneCallAtATime, CallOrder, ReservationKnown, Idle
    <2>5. (Idle /\ OwnBid)'
      BY DEF IInv, TypeOK, Calls, NoCalls, Idle, OwnBid
    <2>6. (BidsAreBacked /\ WinsAreBacked)'
      BY DEF IInv, BidsAreBacked, WinsAreBacked, Idle
    <2>7. NothingLeftReserved' /\ (won => phase # "loop")'
      BY DEF IInv, TypeOK, Calls, NoCalls, NothingLeftReserved, Idle
    <2> QED
      BY <2>3, <2>4, <2>5, <2>6, <2>7 DEF IInv
  <1>14. CASE ReserveReturns
    <2> USE <1>14 DEF ReserveReturns, loopVars, chainVars, historyVars
    <2>1. (call \in [Calls -> {"none", "running", "ok", "no", "err"}])'
      BY DEF IInv, TypeOK, Calls, NoCalls
    <2>2. FlagTypes'
      <3>1. FlagTypes
        BY DEF IInv, TypeOK
      <3>2. reserved' \in BOOLEAN
        BY <3>1 DEF FlagTypes
      <3> QED
        BY <3>1, <3>2 DEF FlagTypes
    <2>3. QueueTypes'
      BY QueueStep DEF IInv
    <2>4. StateTypes'
      BY DEF IInv, TypeOK, StateTypes, Phases
    <2>5. OneCallAtATime'
      BY DEF IInv, TypeOK, Calls, NoCalls, OneCallAtATime
    <2>6. CallOrder'
      BY DEF IInv, TypeOK, FlagTypes, Calls, NoCalls, OneCallAtATime, CallOrder,
         ReservationKnown, Idle
    <2>7. ReservationKnown'
      BY DEF IInv, TypeOK, FlagTypes, Calls, NoCalls, OneCallAtATime, CallOrder,
         ReservationKnown, NothingLeftReserved, Idle
    <2>8. Idle'
      BY DEF IInv, TypeOK, FlagTypes, Calls, NoCalls, Idle
    <2>9. OwnBid'
      BY DEF IInv, TypeOK, FlagTypes, QueueTypes, StateTypes, Calls, CallOrder, OwnBid, Idle
    <2>10. BidsAreBacked' /\ WinsAreBacked'
      BY DEF IInv, TypeOK, FlagTypes, QueueTypes, Calls, CallOrder, ReservationKnown, OwnBid,
         BidsAreBacked, WinsAreBacked, Idle
    <2>11. NothingLeftReserved' /\ (won => phase # "loop")'
      BY DEF IInv, TypeOK, FlagTypes, Calls, NoCalls, OneCallAtATime, ReservationKnown,
         NothingLeftReserved, Idle
    <2>t. TypeOK'
      BY <2>1, <2>2, <2>3, <2>4 DEF TypeOK
    <2> QED
      BY <2>t, <2>1, <2>2, <2>3, <2>4, <2>5, <2>6, <2>7, <2>8, <2>9, <2>10, <2>11 DEF IInv
  <1>15. CASE BidReturns
    <2> USE <1>15 DEF BidReturns, loopVars, chainVars, historyVars
    <2>1. (call \in [Calls -> {"none", "running", "ok", "no", "err"}])'
      BY DEF IInv, TypeOK, Calls, NoCalls
    <2>2. FlagTypes'
      BY DEF IInv, TypeOK, FlagTypes
    <2>3. QueueTypes'
      BY QueueStep DEF IInv
    <2>4. StateTypes'
      BY DEF IInv, TypeOK, StateTypes, Phases
    <2>5. OneCallAtATime'
      BY DEF IInv, TypeOK, Calls, NoCalls, OneCallAtATime
    <2>6. CallOrder'
      BY DEF IInv, TypeOK, FlagTypes, Calls, NoCalls, OneCallAtATime, CallOrder,
         ReservationKnown, Idle
    <2>7. ReservationKnown'
      BY DEF IInv, TypeOK, FlagTypes, Calls, NoCalls, OneCallAtATime, CallOrder,
         ReservationKnown, NothingLeftReserved, Idle
    <2>8. Idle'
      BY DEF IInv, TypeOK, FlagTypes, Calls, NoCalls, Idle
    <2>9. OwnBid'
      BY DEF IInv, TypeOK, FlagTypes, QueueTypes, StateTypes, Calls, CallOrder, OwnBid, Idle
    <2>10. BidsAreBacked' /\ WinsAreBacked'
      BY DEF IInv, TypeOK, FlagTypes, QueueTypes, Calls, CallOrder, ReservationKnown, OwnBid,
         BidsAreBacked, WinsAreBacked, Idle
    <2>11. NothingLeftReserved' /\ (won => phase # "loop")'
      BY DEF IInv, TypeOK, FlagTypes, Calls, NoCalls, OneCallAtATime, ReservationKnown,
         NothingLeftReserved, Idle
    <2>t. TypeOK'
      BY <2>1, <2>2, <2>3, <2>4 DEF TypeOK
    <2> QED
      BY <2>t, <2>1, <2>2, <2>3, <2>4, <2>5, <2>6, <2>7, <2>8, <2>9, <2>10, <2>11 DEF IInv
  <1>16. CASE Execute
    <2> USE <1>16 DEF Execute, Emit, loopVars, chainVars, historyVars
    <2>1. (call \in [Calls -> {"none", "running", "ok", "no", "err"}])'
      BY DEF IInv, TypeOK, Calls, NoCalls
    <2>2. FlagTypes'
      BY DEF IInv, TypeOK, FlagTypes
    <2>3. QueueTypes'
      BY QueueStep DEF IInv
    <2>4. StateTypes'
      BY DEF IInv, TypeOK, StateTypes, Phases
    <2>5. OneCallAtATime'
      BY DEF IInv, TypeOK, Calls, NoCalls, OneCallAtATime
    <2>6. CallOrder'
      BY DEF IInv, TypeOK, FlagTypes, Calls, NoCalls, OneCallAtATime, CallOrder,
         ReservationKnown, Idle
    <2>7. ReservationKnown'
      BY DEF IInv, TypeOK, FlagTypes, Calls, NoCalls, OneCallAtATime, CallOrder,
         ReservationKnown, NothingLeftReserved, Idle
    <2>8. Idle'
      BY DEF IInv, TypeOK, FlagTypes, Calls, NoCalls, Idle
    <2>9. OwnBid'
      BY DEF IInv, TypeOK, FlagTypes, QueueTypes, StateTypes, Calls, CallOrder, OwnBid, Idle
    <2>10. BidsAreBacked' /\ WinsAreBacked'
      BY DEF IInv, TypeOK, FlagTypes, QueueTypes, Calls, CallOrder, ReservationKnown, OwnBid,
         BidsAreBacked, WinsAreBacked, Idle
    <2>11. NothingLeftReserved' /\ (won => phase # "loop")'
      BY DEF IInv, TypeOK, FlagTypes, Calls, NoCalls, OneCallAtATime, ReservationKnown,
         NothingLeftReserved, Idle
    <2>t. TypeOK'
      BY <2>1, <2>2, <2>3, <2>4 DEF TypeOK
    <2> QED
      BY <2>t, <2>1, <2>2, <2>3, <2>4, <2>5, <2>6, <2>7, <2>8, <2>9, <2>10, <2>11 DEF IInv
  <1>17. CASE CreateLease
    <2> USE <1>17 DEF CreateLease, Emit, loopVars, chainVars, historyVars
    <2>1. (call \in [Calls -> {"none", "running", "ok", "no", "err"}])'
      BY DEF IInv, TypeOK, Calls, NoCalls
    <2>2. FlagTypes'
      BY DEF IInv, TypeOK, FlagTypes
    <2>3. QueueTypes'
      BY QueueStep DEF IInv
    <2>4. StateTypes'
      BY DEF IInv, TypeOK, StateTypes, Phases
    <2>5. OneCallAtATime'
      BY DEF IInv, TypeOK, Calls, NoCalls, OneCallAtATime
    <2>6. CallOrder'
      BY DEF IInv, TypeOK, FlagTypes, Calls, NoCalls, OneCallAtATime, CallOrder,
         ReservationKnown, Idle
    <2>7. ReservationKnown'
      BY DEF IInv, TypeOK, FlagTypes, Calls, NoCalls, OneCallAtATime, CallOrder,
         ReservationKnown, NothingLeftReserved, Idle
    <2>8. Idle'
      BY DEF IInv, TypeOK, FlagTypes, Calls, NoCalls, Idle
    <2>9. OwnBid'
      <3>1. CASE phase # "loop"
        BY <3>1 DEF OwnBid
      <3>2. CASE phase = "loop" /\ bid = "open" /\ events' = Append(events, "won")
        BY <3>2 DEF IInv, TypeOK, QueueTypes, OwnBid
      <3>3. CASE phase = "loop" /\ bid' # "open" /\ events' = Append(events, "lost")
        <4>1. bid # "none" <=> bid' # "none"
          BY <3>3
        <4> QED
          BY <3>3, <4>1 DEF IInv, TypeOK, QueueTypes, OwnBid
      <3>4. CASE phase = "loop" /\ ~publisher
        BY <3>4 DEF IInv, OwnBid
      <3> QED
        BY <3>1, <3>2, <3>3, <3>4
    <2>10. BidsAreBacked' /\ WinsAreBacked'
      BY DEF IInv, TypeOK, FlagTypes, QueueTypes, Calls, CallOrder, ReservationKnown, OwnBid,
         BidsAreBacked, WinsAreBacked, Idle
    <2>11. NothingLeftReserved' /\ (won => phase # "loop")'
      BY DEF IInv, TypeOK, FlagTypes, Calls, NoCalls, OneCallAtATime, ReservationKnown,
         NothingLeftReserved, Idle
    <2>t. TypeOK'
      BY <2>1, <2>2, <2>3, <2>4 DEF TypeOK
    <2> QED
      BY <2>t, <2>1, <2>2, <2>3, <2>4, <2>5, <2>6, <2>7, <2>8, <2>9, <2>10, <2>11 DEF IInv
  <1>18. CASE CloseOrder
    <2> USE <1>18 DEF CloseOrder, Emit, loopVars, chainVars, historyVars
    <2>1. FlagTypes'
      BY DEF IInv, TypeOK, FlagTypes
    <2>2. (StateTypes /\ QueueTypes)'
      BY DEF IInv, TypeOK, StateTypes, QueueTypes, Phases
    <2>3. TypeOK'
      BY <2>1, <2>2 DEF IInv, TypeOK, Calls, NoCalls
    <2>4. (OneCallAtATime /\ CallOrder /\ ReservationKnown)'
      BY DEF IInv, TypeOK, Calls, NoCalls, OneCallAtATime, CallOrder, ReservationKnown, Idle
    <2>5. (Idle /\ OwnBid)'
      BY DEF IInv, TypeOK, Calls, NoCalls, Idle, OwnBid
    <2>6. (BidsAreBacked /\ WinsAreBacked)'
      BY DEF IInv, BidsAreBacked, WinsAreBacked, Idle
    <2>7. NothingLeftReserved' /\ (won => phase # "loop")'
      BY DEF IInv, TypeOK, Calls, NoCalls, NothingLeftReserved, Idle
    <2> QED
      BY <2>3, <2>4, <2>5, <2>6, <2>7 DEF IInv
  <1>19. CASE Crash
    <2> USE <1>19 DEF Crash, loopVars, chainVars, historyVars
    <2>1. (call \in [Calls -> {"none", "running", "ok", "no", "err"}])'
      BY DEF IInv, TypeOK, Calls, NoCalls
    <2>2. FlagTypes'
      BY DEF IInv, TypeOK, FlagTypes
    <2>3. QueueTypes'
      BY QueueStep DEF IInv
    <2>4. StateTypes'
      BY DEF IInv, TypeOK, StateTypes, Phases
    <2>5. OneCallAtATime'
      BY DEF IInv, TypeOK, Calls, NoCalls, OneCallAtATime
    <2>6. CallOrder'
      BY DEF IInv, TypeOK, FlagTypes, Calls, NoCalls, OneCallAtATime, CallOrder,
         ReservationKnown, Idle
    <2>7. ReservationKnown'
      BY DEF IInv, TypeOK, FlagTypes, Calls, NoCalls, OneCallAtATime, CallOrder,
         ReservationKnown, NothingLeftReserved, Idle
    <2>8. Idle'
      BY DEF IInv, TypeOK, FlagTypes, Calls, NoCalls, Idle
    <2>9. OwnBid'
      BY DEF IInv, TypeOK, FlagTypes, QueueTypes, StateTypes, Calls, CallOrder, OwnBid, Idle
    <2>10. BidsAreBacked' /\ WinsAreBacked'
      BY DEF IInv, TypeOK, FlagTypes, QueueTypes, Calls, CallOrder, ReservationKnown, OwnBid,
         BidsAreBacked, WinsAreBacked, Idle
    <2>11. NothingLeftReserved' /\ (won => phase # "loop")'
      BY DEF IInv, TypeOK, FlagTypes, Calls, NoCalls, OneCallAtATime, ReservationKnown,
         NothingLeftReserved, Idle
    <2>t. TypeOK'
      BY <2>1, <2>2, <2>3, <2>4 DEF TypeOK
    <2> QED
      BY <2>t, <2>1, <2>2, <2>3, <2>4, <2>5, <2>6, <2>7, <2>8, <2>9, <2>10, <2>11 DEF IInv
  <1>20. CASE QueryExistingOrders
    <2> USE <1>20 DEF QueryExistingOrders, loopVars, chainVars, historyVars
    <2>1. FlagTypes'
      BY DEF IInv, TypeOK, FlagTypes
    <2>2. (StateTypes /\ QueueTypes)'
      BY DEF IInv, TypeOK, StateTypes, QueueTypes, Phases
    <2>3. TypeOK'
      BY <2>1, <2>2 DEF IInv, TypeOK, Calls, NoCalls
    <2>4. (OneCallAtATime /\ CallOrder /\ ReservationKnown)'
      BY DEF IInv, TypeOK, Calls, NoCalls, OneCallAtATime, CallOrder, ReservationKnown, Idle
    <2>5. (Idle /\ OwnBid)'
      BY DEF IInv, TypeOK, Calls, NoCalls, Idle, OwnBid
    <2>6. (BidsAreBacked /\ WinsAreBacked)'
      BY DEF IInv, BidsAreBacked, WinsAreBacked, Idle
    <2>7. NothingLeftReserved' /\ (won => phase # "loop")'
      BY DEF IInv, TypeOK, Calls, NoCalls, NothingLeftReserved, Idle
    <2> QED
      BY <2>3, <2>4, <2>5, <2>6, <2>7 DEF IInv
  <1>21. CASE CatchUp
    <2> USE <1>21 DEF CatchUp, loopVars, chainVars, historyVars
    <2>1. FlagTypes'
      BY DEF IInv, TypeOK, FlagTypes
    <2>2. (StateTypes /\ QueueTypes)'
      BY DEF IInv, TypeOK, StateTypes, QueueTypes, Phases
    <2>3. TypeOK'
      BY <2>1, <2>2 DEF IInv, TypeOK, Calls, NoCalls
    <2>4. (OneCallAtATime /\ CallOrder /\ ReservationKnown)'
      BY DEF IInv, TypeOK, Calls, NoCalls, OneCallAtATime, CallOrder, ReservationKnown, Idle
    <2>5. (Idle /\ OwnBid)'
      BY DEF IInv, TypeOK, Calls, NoCalls, Idle, OwnBid
    <2>6. (BidsAreBacked /\ WinsAreBacked)'
      BY DEF IInv, BidsAreBacked, WinsAreBacked, Idle
    <2>7. NothingLeftReserved' /\ (won => phase # "loop")'
      BY DEF IInv, TypeOK, Calls, NoCalls, NothingLeftReserved, Idle
    <2> QED
      BY <2>3, <2>4, <2>5, <2>6, <2>7 DEF IInv
  <1>22. CASE UNCHANGED vars
    <2> USE <1>22 DEF vars, loopVars, chainVars, historyVars
    <2>1. TypeOK'
      <3>1. FlagTypes'
        BY DEF IInv, TypeOK, FlagTypes
      <3>2. (StateTypes /\ QueueTypes)'
        BY DEF IInv, TypeOK, StateTypes, QueueTypes
      <3> QED
        BY <3>1, <3>2 DEF IInv, TypeOK
    <2>2. (OneCallAtATime /\ CallOrder /\ ReservationKnown)'
      BY DEF IInv, OneCallAtATime, CallOrder, ReservationKnown
    <2>3. (Idle /\ OwnBid)'
      BY DEF IInv, Idle, OwnBid, NoCalls
    <2>4. (BidsAreBacked /\ WinsAreBacked /\ NothingLeftReserved)'
      BY DEF IInv, BidsAreBacked, WinsAreBacked, NothingLeftReserved
    <2> QED
      BY <2>1, <2>2, <2>3, <2>4 DEF IInv
  <1>23. CASE PublisherStarts
    <2> USE <1>23 DEF PublisherStarts, loopVars, historyVars
    <2>1. FlagTypes'
      BY DEF IInv, TypeOK, FlagTypes
    <2>2. (StateTypes /\ QueueTypes)'
      BY DEF IInv, TypeOK, StateTypes, QueueTypes, Phases
    <2>3. TypeOK'
      BY <2>1, <2>2 DEF IInv, TypeOK, Calls, NoCalls
    <2>4. (OneCallAtATime /\ CallOrder /\ ReservationKnown)'
      BY DEF IInv, TypeOK, Calls, NoCalls, OneCallAtATime, CallOrder, ReservationKnown, Idle
    <2>5. (Idle /\ OwnBid)'
      BY DEF IInv, TypeOK, Calls, NoCalls, Idle, OwnBid
    <2>6. (BidsAreBacked /\ WinsAreBacked)'
      BY DEF IInv, BidsAreBacked, WinsAreBacked, Idle
    <2>7. NothingLeftReserved' /\ (won => phase # "loop")'
      BY DEF IInv, TypeOK, Calls, NoCalls, NothingLeftReserved, Idle
    <2> QED
      BY <2>3, <2>4, <2>5, <2>6, <2>7 DEF IInv
  <1> QED
    BY <1>1, <1>2, <1>3, <1>4, <1>5, <1>6, <1>7, <1>8, <1>9, <1>10, <1>11, <1>12, <1>13,
       <1>14, <1>15, <1>16, <1>17, <1>18, <1>19, <1>20, <1>21, <1>22, <1>23 DEF Next

\* The inductive invariant holds in every state of every behaviour.
THEOREM Invariance == Spec => []IInv
  BY InitIInv, NextIInv, PTL DEF Spec

\* Each call of the fulfilment is made after the one it needs has answered.
THEOREM OneCall == Spec => []OneCallAtATime
  <1>1. IInv => OneCallAtATime
    BY DEF IInv
  <1> QED
    BY <1>1, Invariance, PTL

\* An order waits on a bid of its own only while the cluster holds its
\* capacity.
THEOREM BidsBacked == Spec => []BidsAreBacked
  <1>1. IInv => BidsAreBacked
    BY DEF IInv
  <1> QED
    BY <1>1, Invariance, PTL

\* A lease won without a restart is published with its group and its capacity
\* is kept, whatever else arrived before the lease.
THEOREM WinsBacked == Spec => []WinsAreBacked
  <1>1. IInv => WinsAreBacked
    BY DEF IInv
  <1> QED
    BY <1>1, Invariance, PTL

\* However the loop ends, an order that did not win leaves no reservation
\* behind.
THEOREM ReservationsReturned == Spec => []NothingLeftReserved
  <1>1. IInv => NothingLeftReserved
    BY DEF IInv
  <1> QED
    BY <1>1, Invariance, PTL

\* The reservation follows the bid: kept for a lease that is won, given back when
\* the order ends without one (order.go:361-378).
THEOREM CapacityFollows == Spec => []CapacityFollowsBid
  <1>1. IInv => CapacityFollowsBid
    BY DEF IInv, CapacityFollowsBid
  <1> QED
    BY <1>1, Invariance, PTL
=============================================================================
