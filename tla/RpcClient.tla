----------------------------- MODULE RpcClient ------------------------------
(***************************************************************************)
(* RpcClient: blocking calls over one Netty channel that many threads may  *)
(* share.  send() writes the request, waits on the client's monitor and    *)
(* returns the field responseMsg; the event loop stores each response in   *)
(* that field and notifies one waiter.  Nothing ties a response to the     *)
(* thread it wakes.  RpcClientV2 has the same monitor with another codec.  *)
(*                                                                         *)
(* A request is <<caller, n>>, the n-th call of that caller, and stands    *)
(* for its own response.  The server answers a channel's requests one at a *)
(* time and in order, on that channel's event loop.                        *)
(***************************************************************************)
EXTENDS Naturals, Sequences, FiniteSets

CONSTANTS
    Callers,        \* the threads that share the client
    NoMsg,          \* Java's null, the field before the first response
    MaxCalls,       \* bound: calls per caller
    MaxSpurious,    \* bound: wake-ups of Object.wait without a notify
    MaxDiscards     \* bound: lines over 4096 bytes, dropped by the decoder

ASSUME ConstantsAssumption ==
    /\ IsFiniteSet(Callers)
    /\ MaxCalls \in Nat
    /\ MaxSpurious \in Nat
    /\ MaxDiscards \in Nat
    /\ NoMsg \notin Callers \X (1 .. MaxCalls)

VARIABLES
    pc,             \* "idle", "sent" (line 71 done), "waiting", "woken"
    calls,          \* how many calls each caller has begun
    toServer,       \* requests on their way
    toClient,       \* responses on their way
    responseMsg,    \* the field, as last written by the event loop
    published,      \* the field, as of the event loop's last notifySelf
    notifying,      \* the event loop is between lines 60 and 61
    readable,       \* what the unlocked read of line 73 may return, if woken
    answer,         \* what each caller's last send() returned
    open,           \* the channel is open
    lost,           \* history: requests for which nobody will be notified
    spurious,       \* history: spurious wake-ups
    discards,       \* history: discarded lines
    overlapped      \* history: some call began while another was in progress

vars == <<pc, calls, toServer, toClient, responseMsg, published, notifying,
          readable, answer, open, lost, spurious, discards, overlapped>>

Requests == Callers \X (1 .. MaxCalls)

Waiting == {c \in Callers : pc[c] = "waiting"}

Init ==
    /\ pc = [c \in Callers |-> "idle"]
    /\ calls = [c \in Callers |-> 0]
    /\ toServer = <<>>
    /\ toClient = <<>>
    /\ responseMsg = NoMsg
    /\ published = NoMsg
    /\ notifying = FALSE
    /\ readable = [c \in Callers |-> {}]
    /\ answer = [c \in Callers |-> NoMsg]
    /\ open = TRUE
    /\ lost = 0
    /\ spurious = 0
    /\ discards = 0
    /\ overlapped = FALSE

\* line 71; on a closed channel the write fails and its future is not looked at
Send(c) ==
    /\ pc[c] = "idle"
    /\ calls[c] < MaxCalls
    /\ pc' = [pc EXCEPT ![c] = "sent"]
    /\ calls' = [calls EXCEPT ![c] = @ + 1]
    /\ overlapped' = (overlapped \/ \E d \in Callers : pc[d] # "idle")
    /\ IF open
         THEN /\ toServer' = Append(toServer, <<c, calls'[c]>>)
              /\ lost' = lost
         ELSE /\ toServer' = toServer
              /\ lost' = lost + 1
    /\ UNCHANGED <<toClient, responseMsg, published, notifying, readable, answer, open,
                   spurious, discards>>

\* mutant of WaitSelf: a wait with a timeout that nobody checks
WaitSelfTimesOut(c) ==
    /\ pc[c] = "sent"
    /\ \/ /\ pc' = [pc EXCEPT ![c] = "waiting"]
          /\ UNCHANGED readable
       \/ /\ pc' = [pc EXCEPT ![c] = "woken"]
          /\ readable' = [readable EXCEPT ![c] = {published, responseMsg}]
    /\ UNCHANGED <<calls, toServer, toClient, responseMsg, published, notifying, answer,
                   open, lost, spurious, discards, overlapped>>

\* lines 72 and 76 to 78: whatever has been notified until now is not seen
WaitSelf(c) ==
    /\ pc[c] = "sent"
    /\ pc' = [pc EXCEPT ![c] = "waiting"]
    /\ UNCHANGED <<calls, toServer, toClient, responseMsg, published, notifying, readable,
                   answer, open, lost, spurious, discards, overlapped>>

\* mutant of Serve: a handler that throws answers nothing
ServeSilently ==
    /\ toServer # <<>>
    /\ toServer' = Tail(toServer)
    /\ toClient' \in {toClient, Append(toClient, Head(toServer))}
    /\ UNCHANGED <<pc, calls, responseMsg, published, notifying, readable, answer, open,
                   lost, spurious, discards, overlapped>>

\* RpcServerHandler.channelRead0: a result or an error message, always a line
Serve ==
    /\ toServer # <<>>
    /\ toServer' = Tail(toServer)
    /\ toClient' = Append(toClient, Head(toServer))
    /\ UNCHANGED <<pc, calls, responseMsg, published, notifying, readable, answer, open,
                   lost, spurious, discards, overlapped>>

\* LineBasedFrameDecoder(4096), on either side: the exception ends in the log
DiscardLongLine ==
    /\ discards < MaxDiscards
    /\ discards' = discards + 1
    /\ lost' = lost + 1
    /\ \/ /\ toServer # <<>>
          /\ toServer' = Tail(toServer)
          /\ UNCHANGED toClient
       \/ /\ toClient # <<>> /\ ~notifying
          /\ toClient' = Tail(toClient)
          /\ UNCHANGED toServer
    /\ UNCHANGED <<pc, calls, responseMsg, published, notifying, readable, answer, open,
                   spurious, overlapped>>

\* mutant of ChannelRead0: lines 60 and 61 swapped
ChannelRead0NotifiesFirst ==
    /\ toClient # <<>>
    /\ toClient' = Tail(toClient)
    /\ responseMsg' = Head(toClient)
    /\ published' = Head(toClient)
    /\ IF Waiting = {}
         THEN lost' = lost + 1 /\ UNCHANGED <<pc, readable>>
         ELSE /\ \E c \in Waiting :
                   /\ pc' = [pc EXCEPT ![c] = "woken"]
                   /\ readable' = [readable EXCEPT ![c] = {responseMsg, responseMsg'}]
              /\ UNCHANGED lost
    /\ UNCHANGED <<calls, toServer, notifying, answer, open, spurious, discards, overlapped>>

\* line 60, without the monitor: a caller that is awake may or may not see it
ChannelRead0 ==
    /\ ~notifying
    /\ toClient # <<>>
    /\ notifying' = TRUE
    /\ toClient' = Tail(toClient)
    /\ responseMsg' = Head(toClient)
    /\ readable' = [c \in Callers |->
                      IF pc[c] = "woken" THEN readable[c] \cup {responseMsg'} ELSE {}]
    /\ UNCHANGED <<pc, calls, toServer, published, answer, open, lost, spurious,
                   discards, overlapped>>

\* lines 61 and 80 to 82: notify wakes any one waiter, or is lost
NotifySelf ==
    /\ notifying
    /\ notifying' = FALSE
    /\ published' = responseMsg
    /\ IF Waiting = {}
         THEN lost' = lost + 1 /\ UNCHANGED <<pc, readable>>
         ELSE /\ \E c \in Waiting :
                   /\ pc' = [pc EXCEPT ![c] = "woken"]
                   /\ readable' = [readable EXCEPT ![c] = {responseMsg}]
              /\ UNCHANGED lost
    /\ UNCHANGED <<calls, toServer, toClient, responseMsg, answer, open, spurious,
                   discards, overlapped>>

\* line 77: Object.wait may return by itself, and is not in a loop
SpuriousWakeup(c) ==
    /\ pc[c] = "waiting"
    /\ spurious < MaxSpurious
    /\ spurious' = spurious + 1
    /\ pc' = [pc EXCEPT ![c] = "woken"]
    /\ readable' = [readable EXCEPT ![c] = {published, responseMsg}]
    /\ UNCHANGED <<calls, toServer, toClient, responseMsg, published, notifying, answer, open,
                   lost, discards, overlapped>>

\* line 73: the field is read without the monitor, and is not volatile
Return(c) ==
    /\ pc[c] = "woken"
    /\ \E m \in readable[c] : answer' = [answer EXCEPT ![c] = m]
    /\ pc' = [pc EXCEPT ![c] = "idle"]
    /\ readable' = [readable EXCEPT ![c] = {}]
    /\ UNCHANGED <<calls, toServer, toClient, responseMsg, published, notifying, open, lost,
                   spurious, discards, overlapped>>

\* lines 85 to 94, or the server closes the channel; nobody is woken
Close ==
    /\ open
    /\ open' = FALSE
    /\ toServer' = <<>>
    /\ toClient' = <<>>
    /\ lost' = lost + Len(toServer) + Len(toClient)
    /\ UNCHANGED <<pc, calls, responseMsg, published, notifying, readable, answer, spurious,
                   discards, overlapped>>

EventLoop == ChannelRead0 \/ NotifySelf

Next ==
    \/ \E c \in Callers : Send(c) \/ WaitSelf(c) \/ SpuriousWakeup(c) \/ Return(c)
    \/ Serve \/ EventLoop \/ DiscardLongLine \/ Close

Spec == Init /\ [][Next]_vars

\* The server, the event loop and a caller inside send() keep running.  Calling
\* send(), closing, dropping a line and waking up for no reason are not owed.
FairSpec ==
    /\ Spec
    /\ WF_vars(Serve)
    /\ WF_vars(EventLoop)
    /\ \A c \in Callers : WF_vars(WaitSelf(c)) /\ WF_vars(Return(c))

-----------------------------------------------------------------------------
\* The type invariant, the first conjunct of the inductive one.
TypeOK ==
    /\ pc \in [Callers -> {"idle", "sent", "waiting", "woken"}]
    /\ calls \in [Callers -> 0 .. MaxCalls]
    /\ toServer \in Seq(Requests)
    /\ toClient \in Seq(Requests)
    /\ responseMsg \in Requests \cup {NoMsg}
    /\ published \in Requests \cup {NoMsg}
    /\ readable \in [Callers -> SUBSET (Requests \cup {NoMsg})]
    /\ answer \in [Callers -> Requests \cup {NoMsg}]
    /\ notifying \in BOOLEAN
    /\ open \in BOOLEAN
    /\ lost \in Nat
    /\ spurious \in 0 .. MaxSpurious
    /\ discards \in 0 .. MaxDiscards
    /\ overlapped \in BOOLEAN

\* Callers that only a notify to come can bring back.
Outstanding == {c \in Callers : pc[c] \in {"sent", "waiting"}}

\* Responses whose notify is still to come.
Pending == Len(toServer) + Len(toClient) + (IF notifying THEN 1 ELSE 0)

\* Each lost wake-up strands exactly one caller, and each spurious one takes the
\* response of a caller still to come: once nothing is pending, as many callers
\* hang in waitSelf (line 77) as notifications were lost, less the spurious ones.
WakeupAccounting == Cardinality(Outstanding) + spurious = Pending + lost

\* Calls made one at a time on one client, as RpcRemoteUtil makes them, return
\* the response to their own request (lines 70 to 74).
SequentialUseIsSound ==
    ~overlapped /\ spurious = 0 =>
        \A c \in Callers :
            pc[c] = "idle" /\ calls[c] > 0 => answer[c] = <<c, calls[c]>>

\* send() returns null, which its caller goes on to dereference, only after a
\* spurious wake-up: line 60 comes before line 61.
NoNullAnswer ==
    spurious = 0 =>
        \A c \in Callers : pc[c] = "idle" /\ calls[c] > 0 => answer[c] # NoMsg

-----------------------------------------------------------------------------
\* Before the first spurious wake-up no null is left for a caller to read.
NullInv ==
    spurious = 0 =>
        /\ notifying => responseMsg # NoMsg
        /\ \A c \in Callers : pc[c] = "woken" => NoMsg \notin readable[c]

\* The request of a caller that is still to be woken.
Awaited(m) == \E c \in Callers : pc[c] \in {"sent", "waiting"} /\ m = <<c, calls[c]>>

\* As long as calls do not overlap, one caller is active and everything on the
\* wire and in the field between lines 60 and 61 is its current request.
SequentialInv ==
    ~overlapped =>
        /\ \A c, d \in Callers : pc[c] # "idle" /\ pc[d] # "idle" => c = d
        /\ spurious = 0 =>
             /\ \A i \in 1 .. Len(toServer) : Awaited(toServer[i])
             /\ \A i \in 1 .. Len(toClient) : Awaited(toClient[i])
             /\ notifying => Awaited(responseMsg)
             /\ \A c \in Callers : pc[c] = "woken" => readable[c] = {<<c, calls[c]>>}

\* The inductive invariant: the accounting bounds what can still arrive, and so
\* tells that a caller woken alone leaves nothing on the wire behind.
ClientInv ==
    TypeOK /\ WakeupAccounting /\ NullInv /\ NoNullAnswer
    /\ SequentialInv /\ SequentialUseIsSound
-----------------------------------------------------------------------------
\* A call hangs for no other reason than a lost wake-up, a discarded line or a
\* closed channel: as long as there is none of them every send() returns,
\* however the callers share the client.
ReturnsUnlessLost ==
    \A c \in Callers : pc[c] # "idle" ~> (pc[c] = "idle" \/ lost > 0)

\* What IndexController's comment prints as "check id: .., result: ..": the
\* result of a call is the one computed for its argument, also when the calls
\* of many threads share a client.  The code does not ensure this.
ResultForRequestedId ==
    \A c \in Callers :
        pc[c] = "idle" /\ calls[c] > 0 => answer[c] = <<c, calls[c]>>
=============================================================================
