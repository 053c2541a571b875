----------------------------- MODULE RpcProofs ------------------------------
(***************************************************************************)
(* The RPC client, for any number of callers, calls, providers, starts and *)
(* lost sessions: first the safety of RpcClient's monitor, then what holds *)
(* of the client's map of channels.                                        *)
(***************************************************************************)
EXTENDS RpcClient, RpcRegistry, SequenceTheorems, FiniteSetTheorems, TLAPS

\* What is left of a queue, and what is taken from it.
LEMMA Popped ==
  ASSUME NEW S, NEW q \in Seq(S), q # <<>>
  PROVE  /\ Head(q) = q[1] /\ Head(q) \in S /\ Tail(q) \in Seq(S)
         /\ Len(q) \in Nat \ {0} /\ Len(Tail(q)) = Len(q) - 1
         /\ \A i \in 1 .. Len(Tail(q)) : Tail(q)[i] = q[i + 1] /\ i + 1 \in 1 .. Len(q)
<1>1. Head(q) = q[1]
  OBVIOUS
<1>2. Len(q) \in Nat \ {0}
  BY EmptySeq
<1> QED BY <1>1, <1>2, HeadTailProperties

\* The callers that wait for a notify are finitely many.
LEMMA OutstandingFinite ==
  IsFiniteSet(Outstanding) /\ Cardinality(Outstanding) \in Nat
<1>1. Outstanding \subseteq Callers
  BY DEF Outstanding
<1> QED BY <1>1, ConstantsAssumption, FS_Subset, FS_CardinalityType

\* The actions of a caller, of the wire and of the event loop keep the types.
LEMMA TypeNext == TypeOK /\ [Next]_vars => TypeOK'
<1> SUFFICES ASSUME TypeOK, [Next]_vars PROVE TypeOK'
  OBVIOUS
<1> USE ConstantsAssumption DEF TypeOK
<1>a. Len(toServer) \in Nat /\ Len(toClient) \in Nat
  BY LenProperties
<1>1. ASSUME NEW c \in Callers, Send(c) PROVE TypeOK'
  <2>1. calls' \in [Callers -> 0 .. MaxCalls] /\ <<c, calls'[c]>> \in Requests
    BY <1>1 DEF Send, Requests
  <2>2. toServer' \in Seq(Requests) /\ lost' \in Nat
    <3>1. CASE open
      <4>1. toServer' = Append(toServer, <<c, calls'[c]>>) /\ lost' = lost
        BY <1>1, <3>1 DEF Send
      <4> QED BY <2>1, <4>1, AppendProperties
    <3>2. CASE ~open
      BY <1>1, <3>2 DEF Send
    <3> QED BY <3>1, <3>2
  <2>3. overlapped' \in BOOLEAN
    BY <1>1 DEF Send
  <2> QED BY <1>1, <2>1, <2>2, <2>3 DEF Send
<1>2. ASSUME NEW c \in Callers, WaitSelf(c) PROVE TypeOK'
  BY <1>2 DEF WaitSelf
<1>3. ASSUME NEW c \in Callers, SpuriousWakeup(c) PROVE TypeOK'
  BY <1>3 DEF SpuriousWakeup
<1>4. ASSUME NEW c \in Callers, Return(c) PROVE TypeOK'
  <2>1. PICK m \in readable[c] : answer' = [answer EXCEPT ![c] = m]
    BY <1>4 DEF Return
  <2>2. m \in Requests \cup {NoMsg}
    BY <2>1
  <2> QED BY <1>4, <2>1, <2>2 DEF Return
<1>5. ASSUME Serve PROVE TypeOK'
  <2>1. Head(toServer) \in Requests /\ toServer' \in Seq(Requests)
    BY <1>5, Popped DEF Serve
  <2> QED BY <1>5, <2>1, AppendProperties DEF Serve
<1>6. ASSUME ChannelRead0 PROVE TypeOK'
  <2>1. responseMsg' \in Requests /\ toClient' \in Seq(Requests)
    BY <1>6, Popped DEF ChannelRead0
  <2> QED BY <1>6, <2>1 DEF ChannelRead0
<1>7. ASSUME NotifySelf PROVE TypeOK'
  <2>1. CASE Waiting = {}
    <3>1. /\ published' = responseMsg /\ notifying' = FALSE /\ lost' = lost + 1
          /\ UNCHANGED <<pc, readable>>
      BY <1>7, <2>1 DEF NotifySelf
    <3>2. UNCHANGED <<calls, toServer, toClient, responseMsg, answer, open, spurious,
                      discards, overlapped>>
      BY <1>7 DEF NotifySelf
    <3>3. published' \in Requests \cup {NoMsg}
      BY <3>1
    <3>4. notifying' \in BOOLEAN
      BY <3>1
    <3>5. lost' \in Nat
      BY <3>1
    <3>6. UNCHANGED <<pc, readable>>
      BY <3>1
    <3> QED BY <3>2, <3>3, <3>4, <3>5, <3>6
  <2>2. CASE Waiting # {}
    <3>1. PICK c \in Waiting : /\ pc' = [pc EXCEPT ![c] = "woken"]
                              /\ readable' = [readable EXCEPT ![c] = {responseMsg}]
      BY <1>7, <2>2 DEF NotifySelf
    <3> QED BY <1>7, <2>2, <3>1 DEF NotifySelf, Waiting
  <2> QED BY <2>1, <2>2
<1>8. ASSUME DiscardLongLine PROVE TypeOK'
  <2>1. CASE toServer # <<>> /\ toServer' = Tail(toServer) /\ UNCHANGED toClient
    BY <1>8, <2>1, Popped DEF DiscardLongLine
  <2>2. CASE toClient # <<>> /\ toClient' = Tail(toClient) /\ UNCHANGED toServer
    BY <1>8, <2>2, Popped DEF DiscardLongLine
  <2> QED BY <1>8, <2>1, <2>2 DEF DiscardLongLine
<1>9. ASSUME Close PROVE TypeOK'
  <2>1. toServer' \in Seq(Requests) /\ toClient' \in Seq(Requests)
    BY <1>9, EmptySeq DEF Close
  <2>2. lost' \in Nat
    BY <1>9, <1>a DEF Close
  <2> QED BY <1>9, <2>1, <2>2 DEF Close
<1>10. CASE UNCHANGED vars
  BY <1>10 DEF vars
<1> QED
  BY <1>1, <1>2, <1>3, <1>4, <1>5, <1>6, <1>7, <1>8, <1>9, <1>10
  DEF Next, EventLoop

\* A step that wakes nobody and sends nothing leaves the same callers waiting.
LEMMA AccountingNext ==
  TypeOK /\ WakeupAccounting /\ [Next]_vars => WakeupAccounting'
<1> SUFFICES ASSUME TypeOK, WakeupAccounting, [Next]_vars PROVE WakeupAccounting'
  OBVIOUS
<1>a. /\ Len(toServer) \in Nat /\ Len(toClient) \in Nat
      /\ lost \in Nat /\ spurious \in Nat
      /\ Cardinality(Outstanding) \in Nat
  BY LenProperties, OutstandingFinite, ConstantsAssumption DEF TypeOK
<1>1. ASSUME NEW c \in Callers, Send(c) PROVE WakeupAccounting'
  <2>1. Outstanding' = Outstanding \cup {c} /\ c \notin Outstanding
    BY <1>1 DEF TypeOK, Send, Outstanding
  <2>2. Cardinality(Outstanding') = Cardinality(Outstanding) + 1
    BY <2>1, OutstandingFinite, FS_AddElement
  <2>3. <<c, calls'[c]>> \in Requests
    BY <1>1, ConstantsAssumption DEF TypeOK, Send, Requests
  <2>4. CASE open
    <3>1. Len(toServer') = Len(toServer) + 1
      BY <1>1, <2>3, <2>4, AppendProperties DEF TypeOK, Send
    <3>2. lost' = lost /\ UNCHANGED <<toClient, notifying, spurious>>
      BY <1>1, <2>4 DEF Send
    <3> QED BY <1>a, <2>2, <3>1, <3>2 DEF WakeupAccounting, Pending
  <2>5. CASE ~open
    BY <1>1, <1>a, <2>2, <2>5 DEF Send, WakeupAccounting, Pending
  <2> QED BY <2>4, <2>5
<1>2. ASSUME NEW c \in Callers, WaitSelf(c) PROVE WakeupAccounting'
  <2>1. Outstanding' = Outstanding
    BY <1>2 DEF TypeOK, WaitSelf, Outstanding
  <2> QED BY <1>2, <2>1 DEF WaitSelf, WakeupAccounting, Pending
<1>3. ASSUME NEW c \in Callers, SpuriousWakeup(c) PROVE WakeupAccounting'
  <2>1. Outstanding' = Outstanding \ {c} /\ c \in Outstanding
    BY <1>3 DEF TypeOK, SpuriousWakeup, Outstanding
  <2>2. Cardinality(Outstanding') = Cardinality(Outstanding) - 1
    BY <2>1, OutstandingFinite, FS_RemoveElement
  <2> QED BY <1>3, <1>a, <2>2 DEF SpuriousWakeup, WakeupAccounting, Pending
<1>4. ASSUME NEW c \in Callers, Return(c) PROVE WakeupAccounting'
  <2>1. Outstanding' = Outstanding
    BY <1>4 DEF TypeOK, Return, Outstanding
  <2> QED BY <1>4, <2>1 DEF Return, WakeupAccounting, Pending
<1>5. ASSUME Serve PROVE WakeupAccounting'
  <2>1. Head(toServer) \in Requests /\ Len(toServer') = Len(toServer) - 1
    BY <1>5, Popped DEF TypeOK, Serve
  <2>2. Len(toClient') = Len(toClient) + 1
    BY <1>5, <2>1, AppendProperties DEF TypeOK, Serve
  <2>3. Outstanding' = Outstanding
    BY <1>5 DEF Serve, Outstanding
  <2> QED BY <1>5, <1>a, <2>1, <2>2, <2>3 DEF Serve, WakeupAccounting, Pending
<1>6. ASSUME ChannelRead0 PROVE WakeupAccounting'
  <2>1. Len(toClient') = Len(toClient) - 1
    BY <1>6, Popped DEF TypeOK, ChannelRead0
  <2>2. Outstanding' = Outstanding
    BY <1>6 DEF ChannelRead0, Outstanding
  <2> QED BY <1>6, <1>a, <2>1, <2>2 DEF ChannelRead0, WakeupAccounting, Pending
<1>7. ASSUME NotifySelf PROVE WakeupAccounting'
  <2>1. CASE Waiting = {}
    <3>1. Outstanding' = Outstanding
      BY <1>7, <2>1 DEF NotifySelf, Outstanding
    <3> QED BY <1>7, <1>a, <2>1, <3>1 DEF NotifySelf, WakeupAccounting, Pending
  <2>2. CASE Waiting # {}
    <3>1. PICK c \in Waiting : pc' = [pc EXCEPT ![c] = "woken"]
      BY <1>7, <2>2 DEF NotifySelf
    <3>2. Outstanding' = Outstanding \ {c} /\ c \in Outstanding
      BY <3>1 DEF TypeOK, Outstanding, Waiting
    <3>3. Cardinality(Outstanding') = Cardinality(Outstanding) - 1
      BY <3>2, OutstandingFinite, FS_RemoveElement
    <3> QED BY <1>7, <1>a, <2>2, <3>3 DEF NotifySelf, WakeupAccounting, Pending
  <2> QED BY <2>1, <2>2
<1>8. ASSUME DiscardLongLine PROVE WakeupAccounting'
  <2>1. Len(toServer') + Len(toClient') = Len(toServer) + Len(toClient) - 1
    <3>1. CASE toServer # <<>> /\ toServer' = Tail(toServer) /\ UNCHANGED toClient
      BY <1>a, <3>1, Popped DEF TypeOK
    <3>2. CASE toClient # <<>> /\ toClient' = Tail(toClient) /\ UNCHANGED toServer
      BY <1>a, <3>2, Popped DEF TypeOK
    <3> QED BY <1>8, <3>1, <3>2 DEF DiscardLongLine
  <2>2. Len(toServer') \in Nat /\ Len(toClient') \in Nat
    BY TypeNext, LenProperties DEF TypeOK
  <2>3. Outstanding' = Outstanding
    BY <1>8 DEF DiscardLongLine, Outstanding
  <2> QED BY <1>8, <1>a, <2>1, <2>2, <2>3 DEF DiscardLongLine, WakeupAccounting, Pending
<1>9. ASSUME Close PROVE WakeupAccounting'
  <2>1. Len(toServer') = 0 /\ Len(toClient') = 0
    BY <1>9 DEF Close
  <2>2. Outstanding' = Outstanding
    BY <1>9 DEF Close, Outstanding
  <2> QED BY <1>9, <1>a, <2>1, <2>2 DEF Close, WakeupAccounting, Pending
<1>10. CASE UNCHANGED vars
  BY <1>10 DEF vars, WakeupAccounting, Pending, Outstanding
<1> QED
  BY <1>1, <1>2, <1>3, <1>4, <1>5, <1>6, <1>7, <1>8, <1>9, <1>10
  DEF Next, EventLoop

\* A caller that is awake has a response to read, unless it woke by itself.
LEMMA NullNext ==
  TypeOK /\ NullInv /\ NoNullAnswer /\ [Next]_vars => NullInv' /\ NoNullAnswer'
<1> SUFFICES ASSUME TypeOK, NullInv, NoNullAnswer, [Next]_vars, spurious' = 0
             PROVE  /\ notifying' => responseMsg' # NoMsg
                    /\ \A c \in Callers : pc'[c] = "woken" => NoMsg \notin readable'[c]
                    /\ \A c \in Callers : pc'[c] = "idle" /\ calls'[c] > 0 => answer'[c] # NoMsg
  BY DEF NullInv, NoNullAnswer
<1> DEFINE Goal == /\ notifying' => responseMsg' # NoMsg
                   /\ \A c \in Callers : pc'[c] = "woken" => NoMsg \notin readable'[c]
                   /\ \A c \in Callers : pc'[c] = "idle" /\ calls'[c] > 0 => answer'[c] # NoMsg
<1>a. NoMsg \notin Requests
  BY ConstantsAssumption DEF Requests
<1> USE DEF TypeOK, NullInv, NoNullAnswer
<1>1. ASSUME NEW c \in Callers, Send(c) PROVE Goal
  BY <1>1 DEF Send
<1>2. ASSUME NEW c \in Callers, WaitSelf(c) PROVE Goal
  BY <1>2 DEF WaitSelf
<1>3. ASSUME NEW c \in Callers, SpuriousWakeup(c) PROVE Goal
  BY <1>3, ConstantsAssumption DEF SpuriousWakeup
<1>4. ASSUME NEW c \in Callers, Return(c) PROVE Goal
  BY <1>4 DEF Return
<1>5. ASSUME Serve PROVE Goal
  BY <1>5 DEF Serve
<1>6. ASSUME ChannelRead0 PROVE Goal
  <2>1. responseMsg' # NoMsg
    BY <1>6, <1>a, Popped DEF ChannelRead0
  <2> QED BY <1>6, <2>1 DEF ChannelRead0
<1>7. ASSUME NotifySelf PROVE Goal
  BY <1>7 DEF NotifySelf, Waiting
<1>8. ASSUME DiscardLongLine PROVE Goal
  BY <1>8 DEF DiscardLongLine
<1>9. ASSUME Close PROVE Goal
  BY <1>9 DEF Close
<1>10. CASE UNCHANGED vars
  BY <1>10 DEF vars
<1> QED
  BY <1>1, <1>2, <1>3, <1>4, <1>5, <1>6, <1>7, <1>8, <1>9, <1>10
  DEF Next, EventLoop

\* Once the only active caller has been notified nothing is left on the wire.
LEMMA WireIsEmpty ==
  ASSUME TypeOK, WakeupAccounting, notifying, spurious = 0, NEW c \in Callers,
         \A d \in Callers : pc[d] \in {"sent", "waiting"} => d = c
  PROVE  Len(toServer) = 0 /\ Len(toClient) = 0
<1>1. Outstanding \subseteq {c}
  BY DEF Outstanding
<1>2. Cardinality(Outstanding) <= 1
  <2>1. IsFiniteSet({c}) /\ Cardinality({c}) = 1
    BY FS_Singleton
  <2>2. Cardinality(Outstanding) <= Cardinality({c})
    BY <1>1, <2>1, FS_Subset
  <2> QED BY <2>1, <2>2
<1>3. Len(toServer) \in Nat /\ Len(toClient) \in Nat /\ lost \in Nat
  BY LenProperties DEF TypeOK
<1> QED BY <1>2, <1>3, OutstandingFinite DEF WakeupAccounting, Pending

\* Calls that do not overlap get their own responses.
LEMMA SequentialNext ==
  TypeOK /\ WakeupAccounting /\ SequentialInv /\ SequentialUseIsSound /\ [Next]_vars
  => SequentialInv' /\ SequentialUseIsSound'
<1> DEFINE One == \A c, d \in Callers : pc[c] # "idle" /\ pc[d] # "idle" => c = d
           Wire == /\ \A i \in 1 .. Len(toServer) : Awaited(toServer[i])
                   /\ \A i \in 1 .. Len(toClient) : Awaited(toClient[i])
                   /\ notifying => Awaited(responseMsg)
           Own == /\ \A c \in Callers : pc[c] = "woken" => readable[c] = {<<c, calls[c]>>}
                  /\ \A c \in Callers :
                       pc[c] = "idle" /\ calls[c] > 0 => answer[c] = <<c, calls[c]>>
<1> SUFFICES ASSUME TypeOK, WakeupAccounting, SequentialInv, SequentialUseIsSound,
                    [Next]_vars, ~overlapped'
             PROVE  One' /\ (spurious' = 0 => Wire' /\ Own')
  BY DEF SequentialInv, SequentialUseIsSound
<1>a. ~overlapped
  <2>1. ASSUME NEW c \in Callers, Send(c) PROVE ~overlapped
    BY <2>1 DEF Send
  <2>2. ASSUME UNCHANGED overlapped PROVE ~overlapped
    BY <2>2
  <2> QED
    BY <2>1, <2>2 DEF Next, vars, WaitSelf, SpuriousWakeup, Return, Serve,
       EventLoop, ChannelRead0, NotifySelf, DiscardLongLine, Close
<1>b. ASSUME spurious' = 0 PROVE spurious = 0
  <2>1. ASSUME NEW c \in Callers, SpuriousWakeup(c) PROVE FALSE
    BY <1>b, <2>1, ConstantsAssumption DEF TypeOK, SpuriousWakeup
  <2>2. ASSUME UNCHANGED spurious PROVE spurious = 0
    BY <1>b, <2>2
  <2> QED
    BY <2>1, <2>2 DEF Next, vars, Send, WaitSelf, Return, Serve,
       EventLoop, ChannelRead0, NotifySelf, DiscardLongLine, Close
<1>c. One /\ (spurious' = 0 => Wire /\ Own)
  BY <1>a, <1>b DEF SequentialInv, SequentialUseIsSound
<1>1. ASSUME NEW c \in Callers, Send(c) PROVE One' /\ (spurious' = 0 => Wire' /\ Own')
  <2>1. \A d \in Callers : pc[d] = "idle"
    BY <1>1 DEF Send
  <2>2. One'
    BY <1>1, <2>1 DEF TypeOK, Send
  <2>3. ASSUME spurious' = 0 PROVE Wire' /\ Own'
    <3>1. Len(toServer) = 0 /\ Len(toClient) = 0 /\ ~notifying
      <4>1. \A m : ~Awaited(m)
        BY <2>1 DEF Awaited
      <4>2. Len(toServer) \in Nat /\ Len(toClient) \in Nat
        BY LenProperties DEF TypeOK
      <4>3. Wire
        BY <1>c, <2>3
      <4>4. Len(toServer) = 0 /\ Len(toClient) = 0
        BY <4>1, <4>2, <4>3
      <4>5. ~notifying
        BY <4>1, <4>3
      <4> QED BY <4>4, <4>5
    <3>2. pc'[c] = "sent" /\ <<c, calls'[c]>> \in Requests
      BY <1>1, ConstantsAssumption DEF TypeOK, Send, Requests
    <3>3. \A i \in 1 .. Len(toServer') : toServer'[i] = <<c, calls'[c]>>
      BY <1>1, <3>1, <3>2, AppendProperties DEF TypeOK, Send
    <3>4. Wire'
      BY <1>1, <3>1, <3>2, <3>3 DEF Send, Awaited
    <3>5. Own'
      BY <1>1, <1>c, <2>1, <2>3 DEF TypeOK, Send
    <3> QED BY <3>4, <3>5
  <2> QED BY <2>2, <2>3
<1>2. ASSUME NEW c \in Callers, WaitSelf(c) PROVE One' /\ (spurious' = 0 => Wire' /\ Own')
  <2>1. \A d \in Callers : pc'[d] \in {"sent", "waiting"} <=> pc[d] \in {"sent", "waiting"}
    BY <1>2 DEF TypeOK, WaitSelf
  <2>2. One'
    BY <1>2, <1>c DEF TypeOK, WaitSelf
  <2>3. spurious' = 0 => Wire'
    BY <1>2, <1>c, <2>1 DEF WaitSelf, Awaited
  <2>4. spurious' = 0 => Own'
    BY <1>2, <1>c DEF TypeOK, WaitSelf
  <2> QED BY <2>2, <2>3, <2>4
<1>3. ASSUME NEW c \in Callers, SpuriousWakeup(c)
      PROVE One' /\ (spurious' = 0 => Wire' /\ Own')
  <2>1. One'
    BY <1>3, <1>c DEF TypeOK, SpuriousWakeup
  <2>2. spurious' # 0
    BY <1>3, ConstantsAssumption DEF TypeOK, SpuriousWakeup
  <2> QED BY <2>1, <2>2
<1>4. ASSUME NEW c \in Callers, Return(c) PROVE One' /\ (spurious' = 0 => Wire' /\ Own')
  <2>1. \A d \in Callers : pc'[d] \in {"sent", "waiting"} <=> pc[d] \in {"sent", "waiting"}
    BY <1>4 DEF TypeOK, Return
  <2>2. One'
    BY <1>4, <1>c DEF TypeOK, Return
  <2>3. spurious' = 0 => Wire'
    BY <1>4, <1>c, <2>1 DEF Return, Awaited
  <2>4. spurious' = 0 => Own'
    BY <1>4, <1>c DEF TypeOK, Return
  <2> QED BY <2>2, <2>3, <2>4
<1>5. ASSUME Serve PROVE One' /\ (spurious' = 0 => Wire' /\ Own')
  <2>1. One' /\ (spurious' = 0 => Own')
    BY <1>5, <1>c DEF Serve
  <2>2. ASSUME spurious' = 0 PROVE Wire'
    <3>1. Head(toServer) \in Requests /\ Awaited(Head(toServer))
      BY <1>5, <1>c, <2>2, Popped DEF TypeOK, Serve
    <3>2. \A i \in 1 .. Len(toServer') : Awaited(toServer'[i])
      BY <1>5, <1>c, <2>2, Popped DEF TypeOK, Serve
    <3>3. \A i \in 1 .. Len(toClient') : Awaited(toClient'[i])
      BY <1>5, <1>c, <2>2, <3>1, AppendProperties, LenProperties DEF TypeOK, Serve
    <3> QED BY <1>5, <1>c, <2>2, <3>2, <3>3 DEF Serve, Awaited
  <2> QED BY <2>1, <2>2
<1>6. ASSUME ChannelRead0 PROVE One' /\ (spurious' = 0 => Wire' /\ Own')
  <2>1. One'
    BY <1>6, <1>c DEF ChannelRead0
  <2>2. ASSUME spurious' = 0 PROVE Wire' /\ Own'
    <3>1. Awaited(responseMsg') /\ \A i \in 1 .. Len(toClient') : Awaited(toClient'[i])
      BY <1>6, <1>c, <2>2, Popped DEF TypeOK, ChannelRead0
    <3>2. \A d \in Callers : pc[d] # "woken"
      BY <1>c, <3>1 DEF Awaited
    <3> QED BY <1>6, <1>c, <2>2, <3>1, <3>2 DEF ChannelRead0, Awaited
  <2> QED BY <2>1, <2>2
<1>7. ASSUME NotifySelf PROVE One' /\ (spurious' = 0 => Wire' /\ Own')
  <2>1. CASE Waiting = {}
    BY <1>7, <1>c, <2>1 DEF NotifySelf, Awaited
  <2>2. CASE Waiting # {}
    <3>1. PICK c \in Waiting : /\ pc' = [pc EXCEPT ![c] = "woken"]
                              /\ readable' = [readable EXCEPT ![c] = {responseMsg}]
      BY <1>7, <2>2 DEF NotifySelf
    <3>2. c \in Callers /\ pc[c] = "waiting" /\ pc'[c] = "woken"
      BY <3>1 DEF TypeOK, Waiting
    <3>3. One'
      BY <1>c, <3>1, <3>2 DEF TypeOK
    <3>4. ASSUME spurious' = 0 PROVE Wire' /\ Own'
      <4>1. Len(toServer) = 0 /\ Len(toClient) = 0
        BY <1>7, <1>b, <1>c, <3>2, <3>4, WireIsEmpty DEF NotifySelf
      <4>2. responseMsg = <<c, calls[c]>>
        BY <1>7, <1>c, <3>2, <3>4 DEF NotifySelf, Awaited
      <4>3. Wire'
        BY <1>7, <4>1 DEF NotifySelf
      <4>4. Own'
        BY <1>7, <1>c, <3>1, <3>2, <3>4, <4>2 DEF TypeOK, NotifySelf
      <4> QED BY <4>3, <4>4
    <3> QED BY <3>3, <3>4
  <2> QED BY <2>1, <2>2
<1>8. ASSUME DiscardLongLine PROVE One' /\ (spurious' = 0 => Wire' /\ Own')
  <2>1. One' /\ (spurious' = 0 => Own')
    BY <1>8, <1>c DEF DiscardLongLine
  <2>2. ASSUME spurious' = 0 PROVE Wire'
    <3>1. CASE toServer # <<>> /\ toServer' = Tail(toServer) /\ UNCHANGED toClient
      BY <1>8, <1>c, <2>2, <3>1, Popped DEF TypeOK, DiscardLongLine, Awaited
    <3>2. CASE toClient # <<>> /\ toClient' = Tail(toClient) /\ UNCHANGED toServer
      BY <1>8, <1>c, <2>2, <3>2, Popped DEF TypeOK, DiscardLongLine, Awaited
    <3> QED BY <1>8, <3>1, <3>2 DEF DiscardLongLine
  <2> QED BY <2>1, <2>2
<1>9. ASSUME Close PROVE One' /\ (spurious' = 0 => Wire' /\ Own')
  BY <1>9, <1>c DEF Close, Awaited
<1>10. CASE UNCHANGED vars
  BY <1>10, <1>c DEF vars, Awaited
<1> QED
  BY <1>1, <1>2, <1>3, <1>4, <1>5, <1>6, <1>7, <1>8, <1>9, <1>10
  DEF Next, EventLoop
-----------------------------------------------------------------------------
\* The initial states satisfy the inductive invariant.
LEMMA InitInv == Init => ClientInv
<1> SUFFICES ASSUME Init PROVE ClientInv
  OBVIOUS
<1>1. TypeOK
  <2>1. toServer \in Seq(Requests) /\ toClient \in Seq(Requests)
    BY EmptySeq DEF Init
  <2>2. notifying \in BOOLEAN /\ open \in BOOLEAN /\ overlapped \in BOOLEAN
    BY DEF Init
  <2> QED BY <2>1, <2>2, ConstantsAssumption DEF Init, TypeOK
<1>2. WakeupAccounting
  <2>1. Outstanding = {}
    BY DEF Init, Outstanding
  <2> QED BY <2>1, FS_EmptySet DEF Init, WakeupAccounting, Pending
<1>3. NullInv /\ NoNullAnswer
  BY DEF Init, NullInv, NoNullAnswer
<1>4. SequentialInv /\ SequentialUseIsSound
  BY DEF Init, SequentialInv, SequentialUseIsSound
<1> QED BY <1>1, <1>2, <1>3, <1>4 DEF ClientInv

\* The inductive invariant holds of every state the client can reach.
THEOREM Invariance == Spec => []ClientInv
<1>1. ClientInv /\ [Next]_vars => ClientInv'
  BY TypeNext, AccountingNext, NullNext, SequentialNext DEF ClientInv
<1> QED BY <1>1, InitInv, PTL DEF Spec

\* The client's state keeps its types, whatever the interleaving.
THEOREM TypeCorrect == Spec => []TypeOK
<1>1. ClientInv => TypeOK
  BY DEF ClientInv
<1> QED BY <1>1, Invariance, PTL

\* Lost notifications and stranded callers are equally many (lines 61 and 77).
THEOREM AccountingHolds == Spec => []WakeupAccounting
<1>1. ClientInv => WakeupAccounting
  BY DEF ClientInv
<1> QED BY <1>1, Invariance, PTL

\* One call at a time, each send() returns its own response (lines 70 to 74).
THEOREM SequentialHolds == Spec => []SequentialUseIsSound
<1>1. ClientInv => SequentialUseIsSound
  BY DEF ClientInv
<1> QED BY <1>1, Invariance, PTL

\* No send() returns null before a spurious wake-up (lines 60, 61 and 73).
THEOREM NoNullHolds == Spec => []NoNullAnswer
<1>1. ClientInv => NoNullAnswer
  BY DEF ClientInv
<1> QED BY <1>1, Invariance, PTL
-----------------------------------------------------------------------------
EventRecords == [type : EventTypes, service : Services]

\* An event waiting is one of the three types about some provider.
LEMMA EventRecord ==
  ASSUME NEW type \in EventTypes, NEW s \in Services
  PROVE  /\ Event(type, s) \in EventRecords
         /\ Event(type, s).service = s /\ Event(type, s).type = type
BY DEF Event, EventRecords

\* What the listener leaves of the queue.
LEMMA Handled ==
  ASSUME RegistryTypeOK, NEW type \in EventTypes, NEW s \in Services, Handles(type, s)
  PROVE  /\ events[1] = Event(type, s) /\ events' \in Seq(EventRecords)
         /\ Len(events) \in Nat \ {0} /\ Len(events') = Len(events) - 1
         /\ \A i \in 1 .. Len(events') : events'[i] = events[i + 1]
<1>1. events \in Seq(EventRecords) /\ events # <<>> /\ events' = Tail(events)
  BY DEF RegistryTypeOK, Handles, EventRecords
<1>2. Head(events) = events[1] /\ Head(events) = Event(type, s)
  BY DEF Handles
<1>3. Len(events) \in Nat \ {0}
  BY <1>1, EmptySeq
<1> QED BY <1>1, <1>2, <1>3, HeadTailProperties

\* What the cache makes of the queue.
LEMMA Queued ==
  ASSUME RegistryTypeOK, NEW s \in Services, Refresh(s)
  PROVE  \E type \in EventTypes :
           /\ events' = Append(events, Event(type, s))
           /\ events' \in Seq(EventRecords)
           /\ Len(events) \in Nat /\ Len(events') = Len(events) + 1
           /\ events'[Len(events) + 1] = Event(type, s)
           /\ \A i \in 1 .. Len(events) : events'[i] = events[i]
           /\ type = "added" <=> seen[s] = 0
           /\ type = "removed" <=> seen[s] # 0 /\ node[s] = 0
<1> DEFINE type == CASE seen[s] = 0 -> "added" [] node[s] = 0 -> "removed" [] OTHER -> "updated"
<1>0. node[s] # seen[s]
  BY DEF Refresh
<1>1. /\ type \in EventTypes
      /\ type = "added" <=> seen[s] = 0
      /\ type = "removed" <=> seen[s] # 0 /\ node[s] = 0
  BY <1>0 DEF EventTypes
<1>2. events' = Append(events, Event(type, s))
  BY DEF Refresh
<1>3. events \in Seq(EventRecords)
  BY DEF RegistryTypeOK, EventRecords
<1> HIDE DEF type
<1>4. Event(type, s) \in EventRecords
  BY <1>1, EventRecord
<1> QED BY <1>1, <1>2, <1>3, <1>4, AppendProperties, LenProperties

\* The actions of a provider, of ZooKeeper, of the cache and of the listener keep
\* the types.
LEMMA RegistryTypeNext == RegistryTypeOK /\ [RegistryNext]_registryVars => RegistryTypeOK'
<1> SUFFICES ASSUME RegistryTypeOK, [RegistryNext]_registryVars PROVE RegistryTypeOK'
  OBVIOUS
<1> USE RegistryAssumption
<1>1. ASSUME NEW s \in Services, Start(s) PROVE RegistryTypeOK'
  BY <1>1 DEF RegistryTypeOK, Start, registry, watch, consumer
<1>2. ASSUME NEW s \in Services, ReportServerMsg(s) PROVE RegistryTypeOK'
  BY <1>2 DEF RegistryTypeOK, ReportServerMsg, watch, consumer
<1>3. ASSUME NEW s \in Services, Stop(s) PROVE RegistryTypeOK'
  BY <1>3 DEF RegistryTypeOK, Stop, registry, watch, consumer
<1>4. ASSUME NEW s \in Services, ExpireSession(s) PROVE RegistryTypeOK'
  BY <1>4 DEF RegistryTypeOK, ExpireSession, provider, watch, consumer
<1>5. ASSUME NEW s \in Services, LoseSession(s) PROVE RegistryTypeOK'
  BY <1>5 DEF RegistryTypeOK, LoseSession, watch, consumer
<1>6. ASSUME NEW s \in Services, Refresh(s) PROVE RegistryTypeOK'
  <2>1. events' \in Seq(EventRecords)
    BY <1>6, Queued
  <2> QED BY <1>6, <2>1 DEF RegistryTypeOK, Refresh, provider, registry, consumer, EventRecords
<1>7. ASSUME NEW s \in Services, ConnectProviderService(s) PROVE RegistryTypeOK'
  <2>1. events' \in Seq(EventRecords)
    BY <1>7, Handled DEF ConnectProviderService, EventTypes
  <2>2. refused' \subseteq Services
    BY <1>7 DEF RegistryTypeOK, ConnectProviderService
  <2>3. client' \in [Services -> 0 .. MaxBoots] /\ leaked' \in Nat
    BY <1>7 DEF RegistryTypeOK, ConnectProviderService
  <2> QED BY <1>7, <2>1, <2>2, <2>3
    DEF RegistryTypeOK, ConnectProviderService, provider, registry, EventRecords
<1>8. ASSUME NEW s \in Services, DisconnectProviderService(s) PROVE RegistryTypeOK'
  <2>1. events' \in Seq(EventRecords)
    BY <1>8, Handled DEF DisconnectProviderService, EventTypes
  <2> QED BY <1>8, <2>1
    DEF RegistryTypeOK, DisconnectProviderService, provider, registry, EventRecords
<1>9. ASSUME NEW s \in Services, Ignore(s) PROVE RegistryTypeOK'
  <2>1. events' \in Seq(EventRecords)
    BY <1>9, Handled DEF Ignore, EventTypes
  <2> QED BY <1>9, <2>1 DEF RegistryTypeOK, Ignore, provider, registry, consumer, EventRecords
<1>10. ASSUME Destroy PROVE RegistryTypeOK'
  BY <1>10 DEF RegistryTypeOK, Destroy, provider, registry, watch
<1>11. CASE UNCHANGED registryVars
  BY <1>11 DEF RegistryTypeOK, registryVars, provider, registry, watch, consumer
<1> QED
  BY <1>1, <1>2, <1>3, <1>4, <1>5, <1>6, <1>7, <1>8, <1>9, <1>10, <1>11 DEF RegistryNext, Listener

\* The node of a provider that registered stays until its session is lost: the
\* session of a provider that is up and owns its node does not expire.
LEMMA RunsNext == RegistryTypeOK /\ RunsRegistered /\ [RegistryNext]_registryVars => RunsRegistered'
<1> SUFFICES ASSUME RegistryTypeOK, RunsRegistered, [RegistryNext]_registryVars PROVE RunsRegistered'
  OBVIOUS
<1> USE DEF RunsRegistered
<1>1. ASSUME NEW s \in Services, Start(s) PROVE RunsRegistered'
  BY <1>1 DEF RegistryTypeOK, Start, registry
<1>2. ASSUME NEW s \in Services, ReportServerMsg(s) PROVE RunsRegistered'
  BY <1>2 DEF RegistryTypeOK, ReportServerMsg
<1>3. ASSUME NEW s \in Services, Stop(s) PROVE RunsRegistered'
  BY <1>3 DEF Stop, registry
<1>4. ASSUME NEW s \in Services, ExpireSession(s) PROVE RunsRegistered'
  BY <1>4 DEF RegistryTypeOK, ExpireSession, provider
<1>5. ASSUME NEW s \in Services, LoseSession(s) PROVE RunsRegistered'
  BY <1>5 DEF RegistryTypeOK, LoseSession
<1>6. ASSUME UNCHANGED <<provider, registry>> PROVE RunsRegistered'
  BY <1>6 DEF provider, registry
<1> QED
  BY <1>1, <1>2, <1>3, <1>4, <1>5, <1>6
  DEF RegistryNext, Listener, Refresh, ConnectProviderService, DisconnectProviderService, Ignore,
      Destroy, registryVars

\* The node of an "added" event that comes up is not known yet, that of any other
\* one is.
LEMMA HeadFits ==
  ASSUME RegistryTypeOK, Alternation, NEW type \in EventTypes, NEW s \in Services, Handles(type, s)
  PROVE  type = "added" <=> client[s] = 0 /\ s \notin refused
<1>1. PICK h \in [0 .. Len(events) -> {0, 1}] : Course(s, h)
  BY DEF Alternation
<1>2. events[1] = Event(type, s) /\ 1 \in 1 .. Len(events) /\ 1 - 1 = 0
  BY Handled
<1>3. /\ events[1] = Event("added", s) => h[0] = 0
      /\ events[1] = Event("removed", s) => h[0] = 1
      /\ events[1] = Event("updated", s) => h[0] = 1
  BY <1>1, <1>2 DEF Course
<1>4. type = "added" <=> h[0] = 0
  BY <1>2, <1>3 DEF EventTypes
<1> QED BY <1>1, <1>4 DEF Course, Known

\* A provider that is up has been started, and refused it has no entry.
LEMMA EntryNext == RegistryTypeOK /\ EntryInv /\ Alternation /\ [RegistryNext]_registryVars => EntryInv'
<1> SUFFICES ASSUME RegistryTypeOK, EntryInv, Alternation, [RegistryNext]_registryVars PROVE EntryInv'
  OBVIOUS
<1> USE DEF EntryInv
<1>1. ASSUME NEW s \in Services, Start(s) PROVE EntryInv'
  BY <1>1 DEF RegistryTypeOK, Start, consumer
<1>2. ASSUME NEW s \in Services, Stop(s) PROVE EntryInv'
  BY <1>2 DEF Stop, consumer
<1>3. ASSUME NEW s \in Services, ConnectProviderService(s) PROVE EntryInv'
  <2>1. client[s] = 0
    BY <1>3, HeadFits DEF ConnectProviderService, EventTypes
  <2>2. CASE client' = client
    BY <1>3, <2>1, <2>2 DEF RegistryTypeOK, ConnectProviderService, provider
  <2>3. CASE refused' = refused \ {s} /\ client' = [client EXCEPT ![s] = boot[s]]
    BY <1>3, <2>1, <2>3 DEF RegistryTypeOK, ConnectProviderService, provider
  <2> QED BY <1>3, <2>1, <2>2, <2>3 DEF ConnectProviderService
<1>4. ASSUME NEW s \in Services, DisconnectProviderService(s) PROVE EntryInv'
  BY <1>4 DEF RegistryTypeOK, DisconnectProviderService, provider
<1>5. ASSUME UNCHANGED <<boot, up, client, refused>> PROVE EntryInv'
  BY <1>5
<1> QED
  BY <1>1, <1>2, <1>3, <1>4, <1>5
  DEF RegistryNext, Listener, ReportServerMsg, ExpireSession, LoseSession, Refresh, Ignore, Destroy,
      registryVars, provider, consumer

\* putIfAbsent never meets an entry.
LEMMA LeakNext ==
  RegistryTypeOK /\ Alternation /\ NoChannelLeaks /\ [RegistryNext]_registryVars => NoChannelLeaks'
<1> SUFFICES ASSUME RegistryTypeOK, Alternation, NoChannelLeaks, [RegistryNext]_registryVars PROVE NoChannelLeaks'
  OBVIOUS
<1>1. ASSUME NEW s \in Services, ConnectProviderService(s) PROVE NoChannelLeaks'
  <2>1. client[s] = 0
    BY <1>1, HeadFits DEF ConnectProviderService, EventTypes
  <2> QED BY <1>1, <2>1 DEF ConnectProviderService, NoChannelLeaks
<1>2. ASSUME UNCHANGED leaked PROVE NoChannelLeaks'
  BY <1>2 DEF NoChannelLeaks
<1> QED
  BY <1>1, <1>2
  DEF RegistryNext, Listener, Start, Stop, ReportServerMsg, ExpireSession, LoseSession, Refresh,
      DisconnectProviderService, Ignore, Destroy, registryVars, consumer

\* Handling the first event moves the course of every node on by one.
LEMMA CourseShifts ==
  ASSUME RegistryTypeOK, NEW type \in EventTypes, NEW s \in Services, Handles(type, s),
         NEW d \in Services, NEW h \in [0 .. Len(events) -> {0, 1}], Course(d, h),
         seen' = seen, Known(d)' = h[1]
  PROVE  \E g \in [0 .. Len(events') -> {0, 1}] : Course(d, g)'
<1> DEFINE n == Len(events)
           g == [i \in 0 .. Len(events') |-> h[i + 1]]
<1>1. /\ n \in Nat \ {0} /\ Len(events') = n - 1
      /\ \A i \in 1 .. Len(events') : events'[i] = events[i + 1]
  BY Handled
<1>2. g \in [0 .. Len(events') -> {0, 1}]
  BY <1>1
<1>3. \A i \in 0 .. n - 1 : g[i] = h[i + 1]
  BY <1>1
<1> HIDE DEF g, n
<1>4. g[0] = Known(d)'
  BY <1>1, <1>3
<1>5. g[Len(events')] = Present(seen[d])'
  <2>1. h[n] = Present(seen[d])
    BY DEF Course, n
  <2>2. g[n - 1] = h[n]
    BY <1>1, <1>3
  <2> QED BY <1>1, <2>1, <2>2 DEF Present
<1>6. ASSUME NEW i \in 1 .. Len(events')
      PROVE  /\ events'[i] = Event("added", d) => g[i - 1] = 0 /\ g[i] = 1
             /\ events'[i] = Event("removed", d) => g[i - 1] = 1 /\ g[i] = 0
             /\ events'[i] = Event("updated", d) => g[i - 1] = 1 /\ g[i] = 1
             /\ events'[i].service # d => g[i] = g[i - 1]
  <2>1. i + 1 \in 1 .. n /\ events'[i] = events[i + 1]
    BY <1>1
  <2>2. g[i] = h[i + 1] /\ g[i - 1] = h[i]
    BY <1>1, <1>3
  <2>3. i + 1 - 1 = i
    BY <1>1
  <2> QED BY <2>1, <2>2, <2>3 DEF Course, n
<1>7. ASSUME NEW i \in 0 .. Len(events'), g[i] # g[Len(events')]
      PROVE  \E k \in i + 1 .. Len(events') : events'[k].service = d
  <2>1. h[i + 1] # h[n] /\ i + 1 \in 0 .. n
    BY <1>1, <1>3, <1>7
  <2>2. PICK k \in i + 2 .. n : events[k].service = d
    BY <1>1, <2>1 DEF Course, n
  <2>3. k - 1 \in i + 1 .. Len(events') /\ k - 1 \in 1 .. Len(events') /\ (k - 1) + 1 = k
    BY <1>1, <2>2
  <2> QED BY <1>1, <2>2, <2>3
<1> QED BY <1>2, <1>4, <1>5, <1>6, <1>7 DEF Course, Event

\* What the cache adds at the end continues the course of every node.
LEMMA CourseGrows ==
  ASSUME RegistryTypeOK, NEW s \in Services, Refresh(s),
         NEW d \in Services, NEW h \in [0 .. Len(events) -> {0, 1}], Course(d, h)
  PROVE  \E g \in [0 .. Len(events') -> {0, 1}] : Course(d, g)'
<1> DEFINE n == Len(events)
           last == IF d = s THEN Present(node[s]) ELSE h[n]
           g == [i \in 0 .. Len(events') |-> IF i = n + 1 THEN last ELSE h[i]]
<1>1. PICK type \in EventTypes :
        /\ n \in Nat /\ Len(events') = n + 1
        /\ events'[n + 1] = Event(type, s)
        /\ \A i \in 1 .. n : events'[i] = events[i]
        /\ type = "added" <=> seen[s] = 0
        /\ type = "removed" <=> seen[s] # 0 /\ node[s] = 0
  BY Queued
<1>2. /\ node[s] # seen[s] /\ node' = node
      /\ seen' = [seen EXCEPT ![s] = node[s]]
      /\ Known(d)' = Known(d)
  BY DEF Refresh, registry, consumer, Known
<1>3. last \in {0, 1}
  BY <1>1 DEF Present
<1>4. g \in [0 .. Len(events') -> {0, 1}]
  BY <1>1, <1>3
<1>5. g[n + 1] = last /\ \A i \in 0 .. n : g[i] = h[i]
  BY <1>1
<1>6. /\ h[0] = Known(d) /\ h[n] = Present(seen[d])
      /\ \A i \in 0 .. n : h[i] # h[n] => \E k \in i + 1 .. n : events[k].service = d
  BY DEF Course
<1>7. d = s => last = Present(node[s])
  OBVIOUS
<1>8. d # s => last = h[n]
  OBVIOUS
<1> HIDE DEF g, last, n
<1>9. g[0] = Known(d)'
  BY <1>1, <1>2, <1>5, <1>6
<1>10. g[Len(events')] = Present(seen[d])'
  BY <1>1, <1>2, <1>5, <1>6, <1>7, <1>8 DEF RegistryTypeOK, Present
<1>11. ASSUME NEW i \in 1 .. Len(events')
       PROVE  /\ events'[i] = Event("added", d) => g[i - 1] = 0 /\ g[i] = 1
              /\ events'[i] = Event("removed", d) => g[i - 1] = 1 /\ g[i] = 0
              /\ events'[i] = Event("updated", d) => g[i - 1] = 1 /\ g[i] = 1
              /\ events'[i].service # d => g[i] = g[i - 1]
  <2>1. CASE i = n + 1
    <3>1. events'[i] = Event(type, s) /\ g[i] = last /\ g[i - 1] = h[n]
      BY <1>1, <1>5, <2>1
    <3>2. CASE d = s
      <4>1. h[n] = Present(seen[s]) /\ last = Present(node[s])
        BY <1>6, <1>7, <3>2
      <4>2. type = "added" => g[i - 1] = 0 /\ g[i] = 1
        BY <1>1, <1>2, <3>1, <4>1 DEF Present
      <4>3. type = "removed" => g[i - 1] = 1 /\ g[i] = 0
        BY <1>1, <1>2, <3>1, <4>1 DEF Present
      <4>4. type = "updated" => g[i - 1] = 1 /\ g[i] = 1
        BY <1>1, <1>2, <3>1, <4>1 DEF Present
      <4> QED BY <3>1, <3>2, <4>2, <4>3, <4>4 DEF Event
    <3>3. CASE d # s
      BY <1>8, <3>1, <3>3 DEF Event
    <3> QED BY <3>2, <3>3
  <2>2. CASE i # n + 1
    <3>1. i \in 1 .. n /\ events'[i] = events[i] /\ g[i] = h[i] /\ g[i - 1] = h[i - 1]
      BY <1>1, <1>5, <2>2
    <3> QED BY <3>1 DEF Course, n
  <2> QED BY <2>1, <2>2
<1>12. ASSUME NEW i \in 0 .. Len(events'), g[i] # g[Len(events')]
       PROVE  \E k \in i + 1 .. Len(events') : events'[k].service = d
  <2>1. i \in 0 .. n /\ g[i] = h[i] /\ h[i] # last
    BY <1>1, <1>5, <1>12
  <2>2. CASE d = s
    <3>1. n + 1 \in i + 1 .. Len(events') /\ events'[n + 1].service = d
      BY <1>1, <2>1, <2>2 DEF Event
    <3> QED BY <3>1
  <2>3. CASE d # s
    <3>1. PICK k \in i + 1 .. n : events[k].service = d
      BY <1>6, <1>8, <2>1, <2>3
    <3>2. k \in i + 1 .. Len(events') /\ events'[k] = events[k]
      BY <1>1, <2>1, <3>1
    <3> QED BY <3>1, <3>2
  <2> QED BY <2>2, <2>3
<1> QED BY <1>4, <1>9, <1>10, <1>11, <1>12 DEF Course, Event

\* Every step keeps a course for every node.
LEMMA AlternationNext ==
  RegistryTypeOK /\ EntryInv /\ Alternation /\ [RegistryNext]_registryVars => Alternation'
<1> SUFFICES ASSUME RegistryTypeOK, EntryInv, Alternation, [RegistryNext]_registryVars, NEW d \in Services
             PROVE  (\E h \in [0 .. Len(events) -> {0, 1}] : Course(d, h))'
  BY DEF Alternation
<1>1. PICK h \in [0 .. Len(events) -> {0, 1}] : Course(d, h)
  BY DEF Alternation
<1>2. ASSUME NEW s \in Services, Refresh(s)
      PROVE  \E g \in [0 .. Len(events') -> {0, 1}] : Course(d, g)'
  BY <1>1, <1>2, CourseGrows
<1>3. ASSUME NEW type \in EventTypes, NEW s \in Services, Handles(type, s)
      PROVE  /\ s # d => h[1] = Known(d)
             /\ type = "added" /\ s = d => h[1] = 1
             /\ type = "removed" /\ s = d => h[1] = 0
             /\ type = "updated" /\ s = d => h[1] = 1 /\ Known(d) = 1
  <2>1. events[1] = Event(type, s) /\ 1 \in 1 .. Len(events) /\ 1 - 1 = 0
    BY <1>3, Handled
  <2>2. events[1].service = s
    BY <2>1, EventRecord
  <2> QED BY <1>1, <2>1, <2>2 DEF Course
<1>4. ASSUME NEW s \in Services, ConnectProviderService(s)
      PROVE  \E g \in [0 .. Len(events') -> {0, 1}] : Course(d, g)'
  <2>1. Handles("added", s) /\ "added" \in EventTypes /\ seen' = seen
    BY <1>4 DEF ConnectProviderService, EventTypes
  <2>2. client[s] = 0
    BY <2>1, HeadFits
  <2>3. CASE s = d
    <3>1. client'[d] # 0 \/ d \in refused'
      BY <1>4, <2>2, <2>3 DEF ConnectProviderService, RegistryTypeOK, EntryInv
    <3>2. Known(d)' = h[1]
      BY <1>3, <2>1, <2>3, <3>1 DEF Known
    <3> QED BY <1>1, <2>1, <3>2, CourseShifts
  <2>4. CASE s # d
    <3>1. client'[d] = client[d] /\ (d \in refused' <=> d \in refused)
      BY <1>4, <2>4 DEF ConnectProviderService, RegistryTypeOK
    <3>2. Known(d)' = h[1]
      BY <1>3, <2>1, <2>4, <3>1 DEF Known
    <3> QED BY <1>1, <2>1, <3>2, CourseShifts
  <2> QED BY <2>3, <2>4
<1>5. ASSUME NEW s \in Services, DisconnectProviderService(s)
      PROVE  \E g \in [0 .. Len(events') -> {0, 1}] : Course(d, g)'
  <2>1. Handles("removed", s) /\ "removed" \in EventTypes /\ seen' = seen
    BY <1>5 DEF DisconnectProviderService, EventTypes
  <2>2. CASE s = d
    <3>1. client'[d] = 0 /\ d \notin refused'
      BY <1>5, <2>2 DEF DisconnectProviderService, RegistryTypeOK
    <3>2. Known(d)' = h[1]
      BY <1>3, <2>1, <2>2, <3>1 DEF Known
    <3> QED BY <1>1, <2>1, <3>2, CourseShifts
  <2>3. CASE s # d
    <3>1. client'[d] = client[d] /\ (d \in refused' <=> d \in refused)
      BY <1>5, <2>3 DEF DisconnectProviderService, RegistryTypeOK
    <3>2. Known(d)' = h[1]
      BY <1>3, <2>1, <2>3, <3>1 DEF Known
    <3> QED BY <1>1, <2>1, <3>2, CourseShifts
  <2> QED BY <2>2, <2>3
<1>6. ASSUME NEW s \in Services, Ignore(s)
      PROVE  \E g \in [0 .. Len(events') -> {0, 1}] : Course(d, g)'
  <2>1. Handles("updated", s) /\ "updated" \in EventTypes /\ seen' = seen
    BY <1>6 DEF Ignore, EventTypes
  <2>2. Known(d)' = h[1]
    BY <1>3, <1>6, <2>1 DEF Known, Ignore, consumer
  <2> QED BY <1>1, <2>1, <2>2, CourseShifts
<1>7. ASSUME UNCHANGED <<seen, events, client, refused>>
      PROVE  \E g \in [0 .. Len(events') -> {0, 1}] : Course(d, g)'
  BY <1>1, <1>7 DEF Course, Known, Present, Event
<1> QED
  BY <1>2, <1>4, <1>5, <1>6, <1>7
  DEF RegistryNext, Listener, Start, Stop, ReportServerMsg, ExpireSession, LoseSession, Destroy,
      registryVars, watch, consumer

\* An event that the listener handles leaves what it will hear last of another node.
LEMMA StaysUpToDate ==
  ASSUME RegistryTypeOK, NEW type \in EventTypes, NEW s \in Services, Handles(type, s),
         NEW d \in Services, UpToDate(d), seen' = seen, UNCHANGED client[d],
         s # d \/ type # "added"
  PROVE  UpToDate(d)'
<1>1. /\ events[1] = Event(type, s) /\ Len(events) \in Nat \ {0}
      /\ Len(events') = Len(events) - 1
      /\ \A i \in 1 .. Len(events') : events'[i] = events[i + 1]
  BY Handled
<1>2. ASSUME NEW i \in 1 .. Len(events), events[i] = Event("added", d),
             \A j \in i + 1 .. Len(events) : events[j].service # d
      PROVE  UpToDate(d)'
  <2>1. i # 1
    BY <1>1, <1>2 DEF Event
  <2>2. i - 1 \in 1 .. Len(events') /\ events'[i - 1] = Event("added", d)
    BY <1>1, <1>2, <2>1
  <2>3. ASSUME NEW j \in (i - 1) + 1 .. Len(events') PROVE events'[j].service # d
    <3>1. j \in 1 .. Len(events') /\ j + 1 \in i + 1 .. Len(events)
      BY <1>1, <2>1
    <3> QED BY <1>1, <1>2, <3>1
  <2> QED BY <2>2, <2>3 DEF UpToDate, Event
<1>3. ASSUME \A i \in 1 .. Len(events) : events[i].service # d, client[d] = 0 \/ seen[d] <= client[d]
      PROVE  UpToDate(d)'
  <2>1. \A i \in 1 .. Len(events') : i + 1 \in 1 .. Len(events) /\ events'[i] = events[i + 1]
    BY <1>1
  <2> QED BY <1>3, <2>1 DEF UpToDate
<1> QED BY <1>2, <1>3 DEF UpToDate

\* What the cache adds about another node does not outdate the last event of this one.
LEMMA QueuedUpToDate ==
  ASSUME RegistryTypeOK, NEW s \in Services, Refresh(s), NEW d \in Services,
         s # d => UpToDate(d), s = d => seen[s] = 0
  PROVE  UpToDate(d)'
<1>1. PICK type \in EventTypes :
        /\ Len(events) \in Nat /\ Len(events') = Len(events) + 1
        /\ events'[Len(events) + 1] = Event(type, s)
        /\ \A i \in 1 .. Len(events) : events'[i] = events[i]
        /\ type = "added" <=> seen[s] = 0
  BY Queued
<1>2. CASE s = d
  <2>1. Len(events) + 1 \in 1 .. Len(events') /\ events'[Len(events) + 1] = Event("added", d)
    BY <1>1, <1>2
  <2>2. (Len(events) + 1) + 1 .. Len(events') = {}
    BY <1>1
  <2> QED BY <2>1, <2>2 DEF UpToDate, Event
<1>3. CASE s # d
  <2>1. events'[Len(events) + 1].service # d
    BY <1>1, <1>3 DEF Event
  <2>2. client'[d] = client[d] /\ seen'[d] = seen[d]
    BY <1>3 DEF Refresh, consumer, RegistryTypeOK
  <2>3. ASSUME NEW i \in 1 .. Len(events), events[i] = Event("added", d),
               \A j \in i + 1 .. Len(events) : events[j].service # d
        PROVE  UpToDate(d)'
    <3>1. i \in 1 .. Len(events') /\ events'[i] = Event("added", d)
      BY <1>1, <2>3
    <3>2. ASSUME NEW j \in i + 1 .. Len(events') PROVE events'[j].service # d
      <4>1. CASE j = Len(events) + 1
        BY <2>1, <4>1
      <4>2. CASE j # Len(events) + 1
        <5>1. j \in i + 1 .. Len(events) /\ j \in 1 .. Len(events)
          BY <1>1, <4>2
        <5> QED BY <1>1, <2>3, <5>1
      <4> QED BY <4>1, <4>2
    <3> QED BY <3>1, <3>2 DEF UpToDate, Event
  <2>4. ASSUME \A i \in 1 .. Len(events) : events[i].service # d, client[d] = 0 \/ seen[d] <= client[d]
        PROVE  UpToDate(d)'
    <3>1. \A i \in 1 .. Len(events') : events'[i].service # d
      BY <1>1, <2>1, <2>4
    <3> QED BY <2>2, <2>4, <3>1 DEF UpToDate
  <2> QED BY <1>3, <2>3, <2>4 DEF UpToDate
<1> QED BY <1>2, <1>3

\* The entry made for the last "added" event leads to the boot that is running then,
\* which is no older than the node that the event is about.
LEMMA OwnersNext ==
  RegistryTypeOK /\ EntryInv /\ Alternation /\ OwnersInv /\ [RegistryNext]_registryVars => OwnersInv'
<1> SUFFICES ASSUME RegistryTypeOK, EntryInv, Alternation, OwnersInv, [RegistryNext]_registryVars PROVE OwnersInv'
  OBVIOUS
<1> DEFINE NotAhead == \A s \in Services : node[s] <= boot[s] /\ seen[s] <= boot[s] /\ client[s] <= boot[s]
           Open == ~destroyed => shut = {}
           Fresh == \A s \in Services \ replaced : seen[s] # 0 => UpToDate(s)
<1>0. NotAhead /\ Open /\ Fresh
  BY DEF OwnersInv
<1>1. NotAhead'
  <2>1. ASSUME NEW s \in Services, Start(s) PROVE NotAhead'
    BY <1>0, <2>1, RegistryAssumption DEF Start, RegistryTypeOK, registry, watch, consumer
  <2>2. ASSUME NEW s \in Services,
               \/ node' = node
               \/ node' = [node EXCEPT ![s] = 0]
               \/ node' = [node EXCEPT ![s] = boot[s]],
               UNCHANGED <<boot, seen, client>>
        PROVE  NotAhead'
    <3>1. \A t \in Services : node'[t] \in {node[t], 0, boot[t]} /\ boot[t] \in Nat
      BY <2>2, RegistryAssumption DEF RegistryTypeOK
    <3> QED BY <1>0, <2>2, <3>1
  <2>3. ASSUME NEW s \in Services, Refresh(s) PROVE NotAhead'
    BY <1>0, <2>3 DEF Refresh, RegistryTypeOK, provider, registry, consumer
  <2>4. ASSUME NEW s \in Services,
               \/ client' = client
               \/ client' = [client EXCEPT ![s] = 0]
               \/ client' = [client EXCEPT ![s] = boot[s]],
               UNCHANGED <<boot, seen, node>>
        PROVE  NotAhead'
    <3>1. \A t \in Services : client'[t] \in {client[t], 0, boot[t]} /\ boot[t] \in Nat
      BY <2>4, RegistryAssumption DEF RegistryTypeOK
    <3> QED BY <1>0, <2>4, <3>1
  <2>5. ASSUME UNCHANGED <<node, seen, client, boot>> PROVE NotAhead'
    BY <1>0, <2>5
  <2> QED
    BY <2>1, <2>2, <2>3, <2>4, <2>5
    DEF RegistryNext, Stop, ReportServerMsg, ExpireSession, LoseSession, Listener, ConnectProviderService,
        DisconnectProviderService, Ignore, Destroy, registryVars, provider, registry, watch, consumer
<1>2. Open'
  BY <1>0
  DEF RegistryNext, Start, ReportServerMsg, Stop, ExpireSession, LoseSession, Refresh, Listener,
      ConnectProviderService, DisconnectProviderService, Ignore, Destroy, registryVars, consumer
<1>3. Fresh'
  <2> SUFFICES ASSUME NEW d \in Services, d \notin replaced', seen'[d] # 0 PROVE UpToDate(d)'
    OBVIOUS
  <2>1. ASSUME NEW s \in Services, Refresh(s) PROVE UpToDate(d)'
    <3>1. CASE s = d
      <4>1. seen[s] = 0
        BY <2>1, <3>1 DEF Refresh, RegistryTypeOK
      <4> QED BY <2>1, <3>1, <4>1, QueuedUpToDate
    <3>2. CASE s # d
      <4>1. d \notin replaced /\ seen[d] # 0
        BY <2>1, <3>2 DEF Refresh, RegistryTypeOK
      <4>2. UpToDate(d)
        BY <1>0, <4>1
      <4> QED BY <2>1, <3>2, <4>2, QueuedUpToDate
    <3> QED BY <3>1, <3>2
  <2>2. ASSUME d \notin replaced, seen' = seen PROVE UpToDate(d)
    BY <1>0, <2>2
  <2>3. ASSUME NEW s \in Services, ConnectProviderService(s) PROVE UpToDate(d)'
    <3>1. Handles("added", s) /\ "added" \in EventTypes /\ seen' = seen /\ replaced' = replaced
      BY <2>3 DEF ConnectProviderService, EventTypes
    <3>2. UpToDate(d)
      BY <2>2, <3>1
    <3>3. CASE s # d
      <4>1. client'[d] = client[d]
        BY <2>3, <3>3 DEF ConnectProviderService, RegistryTypeOK
      <4> QED BY <3>1, <3>2, <3>3, <4>1, StaysUpToDate
    <3>4. CASE s = d
      <4>1. client[d] = 0
        BY <3>1, <3>4, HeadFits
      <4>2. client'[d] = 0 \/ seen'[d] <= client'[d]
        BY <1>0, <2>3, <3>1, <3>4, <4>1 DEF ConnectProviderService, RegistryTypeOK
      <4>3. /\ events[1] = Event("added", d) /\ Len(events) \in Nat \ {0}
            /\ Len(events') = Len(events) - 1
            /\ \A i \in 1 .. Len(events') : events'[i] = events[i + 1]
        BY <3>1, <3>4, Handled
      <4>4. PICK i \in 1 .. Len(events) :
              /\ events[i] = Event("added", d)
              /\ \A j \in i + 1 .. Len(events) : events[j].service # d
        <5>1. 1 \in 1 .. Len(events) /\ events[1].service = d
          BY <4>3 DEF Event
        <5> QED BY <3>2, <5>1 DEF UpToDate
      <4>5. CASE i = 1
        <5>1. \A j \in 1 .. Len(events') : events'[j].service # d
          BY <4>3, <4>4, <4>5
        <5> QED BY <4>2, <5>1 DEF UpToDate
      <4>6. CASE i # 1
        <5>1. i - 1 \in 1 .. Len(events') /\ events'[i - 1] = Event("added", d)
          BY <4>3, <4>4, <4>6
        <5>2. ASSUME NEW j \in (i - 1) + 1 .. Len(events') PROVE events'[j].service # d
          <6>1. j \in 1 .. Len(events') /\ j + 1 \in i + 1 .. Len(events)
            BY <4>3, <4>4, <4>6
          <6> QED BY <4>3, <4>4, <6>1
        <5> QED BY <5>1, <5>2 DEF UpToDate, Event
      <4> QED BY <4>5, <4>6
    <3> QED BY <3>3, <3>4
  <2>4. ASSUME NEW s \in Services, DisconnectProviderService(s) PROVE UpToDate(d)'
    <3>1. Handles("removed", s) /\ "removed" \in EventTypes /\ seen' = seen /\ replaced' = replaced
      BY <2>4 DEF DisconnectProviderService, EventTypes
    <3>2. UpToDate(d)
      BY <2>2, <3>1
    <3>3. CASE s # d
      <4>1. client'[d] = client[d]
        BY <2>4, <3>3 DEF DisconnectProviderService, RegistryTypeOK
      <4> QED BY <3>1, <3>2, <3>3, <4>1, StaysUpToDate
    <3>4. CASE s = d
      <4>1. PICK i \in 1 .. Len(events) :
              /\ events[i] = Event("added", d)
              /\ \A j \in i + 1 .. Len(events) : events[j].service # d
        <5>1. 1 \in 1 .. Len(events) /\ events[1] = Event("removed", d)
          BY <3>1, <3>4, Handled
        <5>2. events[1].service = d
          BY <5>1 DEF Event
        <5> QED BY <3>2, <5>1, <5>2 DEF UpToDate
      <4>2. /\ events[1] = Event("removed", d) /\ Len(events) \in Nat \ {0}
            /\ Len(events') = Len(events) - 1
            /\ \A j \in 1 .. Len(events') : events'[j] = events[j + 1]
        BY <3>1, <3>4, Handled
      <4>3. i # 1
        BY <4>1, <4>2 DEF Event
      <4>4. i - 1 \in 1 .. Len(events') /\ events'[i - 1] = Event("added", d)
        BY <4>1, <4>2, <4>3
      <4>5. ASSUME NEW j \in (i - 1) + 1 .. Len(events') PROVE events'[j].service # d
        <5>1. j \in 1 .. Len(events') /\ j + 1 \in i + 1 .. Len(events)
          BY <4>1, <4>2, <4>3
        <5> QED BY <4>1, <4>2, <5>1
      <4> QED BY <4>4, <4>5 DEF UpToDate, Event
    <3> QED BY <3>3, <3>4
  <2>5. ASSUME NEW s \in Services, Ignore(s) PROVE UpToDate(d)'
    <3>1. /\ Handles("updated", s) /\ "updated" \in EventTypes /\ "updated" # "added"
          /\ seen' = seen /\ replaced' = replaced /\ client' = client
      BY <2>5 DEF Ignore, EventTypes, consumer
    <3> QED BY <2>2, <3>1, StaysUpToDate
  <2>6. ASSUME UNCHANGED <<seen, events, client, replaced>> PROVE UpToDate(d)'
    BY <2>2, <2>6 DEF UpToDate, Event
  <2> QED
    BY <2>1, <2>3, <2>4, <2>5, <2>6
    DEF RegistryNext, Listener, Start, Stop, ReportServerMsg, ExpireSession, LoseSession, Destroy,
        registryVars, watch, consumer
<1> QED BY <1>1, <1>2, <1>3 DEF OwnersInv

\* Before anything has started no event waits and nothing is known.
LEMMA RegistryInitInv == RegistryInit => RegistryInv
<1> SUFFICES ASSUME RegistryInit PROVE RegistryInv
  OBVIOUS
<1> USE RegistryAssumption
<1>1. events = <<>> /\ Len(events) = 0 /\ events \in Seq([type : EventTypes, service : Services])
  BY EmptySeq DEF RegistryInit
<1>2. RegistryTypeOK
  <2>1. [s \in Services |-> 0] \in [Services -> 0 .. MaxBoots]
    OBVIOUS
  <2>2. /\ boot \in [Services -> 0 .. MaxBoots] /\ node \in [Services -> 0 .. MaxBoots]
        /\ seen \in [Services -> 0 .. MaxBoots] /\ client \in [Services -> 0 .. MaxBoots]
    BY <2>1 DEF RegistryInit
  <2>3. /\ up \subseteq Services /\ reported \subseteq up /\ shut \subseteq Services
        /\ refused \subseteq Services /\ replaced \subseteq Services
        /\ unlisted \subseteq Services /\ orphaned \subseteq Services
    BY DEF RegistryInit
  <2>4. destroyed \in BOOLEAN
    BY DEF RegistryInit
  <2>5. losses \in 0 .. MaxLosses /\ leaked \in Nat
    BY DEF RegistryInit
  <2> QED BY <1>1, <2>2, <2>3, <2>4, <2>5 DEF RegistryTypeOK
<1>3. EntryInv /\ RunsRegistered /\ NoChannelLeaks
  BY DEF RegistryInit, EntryInv, RunsRegistered, NoChannelLeaks
<1>4. ASSUME NEW s \in Services
      PROVE  \E h \in [0 .. Len(events) -> {0, 1}] : Course(s, h)
  <2> DEFINE h == [i \in 0 .. Len(events) |-> 0]
  <2>1. Course(s, h)
    BY <1>1 DEF RegistryInit, Course, Known, Present
  <2>2. h \in [0 .. Len(events) -> {0, 1}]
    OBVIOUS
  <2> QED BY <2>1, <2>2
<1>5. OwnersInv
  BY DEF RegistryInit, OwnersInv
<1> QED BY <1>2, <1>3, <1>4, <1>5 DEF RegistryInv, Alternation

\* Every reachable state satisfies the inductive invariant.
THEOREM RegistryInvariance == RegistrySpec => []RegistryInv
<1>1. RegistryInv /\ [RegistryNext]_registryVars => RegistryInv'
  BY RegistryTypeNext, EntryNext, AlternationNext, RunsNext, LeakNext, OwnersNext DEF RegistryInv
<1> QED BY RegistryInitInv, <1>1, PTL DEF RegistrySpec

\* The variables of providers, registry, cache and listener keep their types.
THEOREM RegistryTypeCorrect == RegistrySpec => []RegistryTypeOK
<1>1. RegistryInv => RegistryTypeOK
  BY DEF RegistryInv
<1> QED BY RegistryInvariance, <1>1, PTL

\* A provider whose registration did not fail is in the registry until it stops or
\* loses its session (RpcServer.reportServerMsg, lines 76 to 86).
THEOREM RunsHolds == RegistrySpec => []RunsRegistered
<1>1. RegistryInv => RunsRegistered
  BY DEF RegistryInv
<1> QED BY RegistryInvariance, <1>1, PTL

\* connectProviderService never drops the channel it has just opened
\* (RpcRemoteClientUtil, line 123).
THEOREM NoLeakHolds == RegistrySpec => []NoChannelLeaks
<1>1. RegistryInv => NoChannelLeaks
  BY DEF RegistryInv
<1> QED BY RegistryInvariance, <1>1, PTL

\* Where nothing is pending the map has an entry exactly for the nodes that are
\* there and did not refuse the connection (lines 97 to 137).
THEOREM MapHolds == RegistrySpec => []MapFollowsNodes
<1>1. RegistryInv => MapFollowsNodes
  <2> SUFFICES ASSUME RegistryInv, NEW s \in Services, Settled(s)
               PROVE  client[s] # 0 <=> node[s] # 0 /\ s \notin refused
    BY DEF MapFollowsNodes
  <2>1. PICK h \in [0 .. Len(events) -> {0, 1}] : Course(s, h)
    BY DEF RegistryInv, Alternation
  <2>2. Len(events) \in Nat
    BY LenProperties DEF RegistryInv, RegistryTypeOK
  <2>3. h[0] = h[Len(events)]
    BY <2>1, <2>2 DEF Course, Settled
  <2>4. Known(s) = Present(node[s])
    BY <2>1, <2>3 DEF Course, Settled
  <2> QED BY <2>4 DEF Known, Present, RegistryInv, EntryInv
<1> QED BY RegistryInvariance, <1>1, PTL

\* Where nothing is pending, the entry of a node leads to the start of the provider
\* that owns the node or to a later one, over a channel that the client has not
\* closed, unless the node was only updated or the client was destroyed
\* (RpcRemoteClientUtil, lines 97 to 147).
THEOREM FollowHolds == RegistrySpec => []EntriesFollowOwners
<1>1. RegistryInv => EntriesFollowOwners
  <2> SUFFICES ASSUME RegistryInv, NEW s \in Services, Settled(s), client[s] # 0,
                      s \notin replaced, ~destroyed
               PROVE  client[s] \in node[s] .. boot[s] /\ s \notin shut
    BY DEF EntriesFollowOwners
  <2>1. RegistryTypeOK /\ OwnersInv /\ EntryInv
    BY DEF RegistryInv
  <2>2. client[s] \in Nat /\ boot[s] \in Nat /\ seen[s] = node[s] /\ node[s] \in Nat /\ client[s] <= boot[s]
    BY <2>1, RegistryAssumption DEF RegistryTypeOK, OwnersInv, Settled
  <2>3. ASSUME seen[s] # 0 PROVE seen[s] <= client[s]
    <3>1. UpToDate(s)
      BY <2>1, <2>3 DEF OwnersInv
    <3> QED BY <3>1 DEF UpToDate, Settled, Event
  <2> QED BY <2>1, <2>2, <2>3 DEF OwnersInv
<1> QED BY RegistryInvariance, <1>1, PTL
=============================================================================
