------------------------------ MODULE ZrtpTimer ------------------------------
(***************************************************************************)
(* The retransmission timer of one channel, in milliseconds, along the     *)
(* states that use it: the timer struct of stateMachine.h (lines 348-353), *)
(* armed by the INIT handler of a sending state, fired by the host's       *)
(* periodic bzrtp_iterate call, re-armed or stopped by the state           *)
(* function's TIMER handler, and stopped by the MESSAGE handler that       *)
(* leaves the state.  The Hello timer armed in discovery_init keeps running *)
(* in discovery_waitingForHelloAck; every later sending state re-arms it.  *)
(* Packet contents and the peer are left out: the peer's answer is a       *)
(* message that may arrive at any time.                                    *)
(*                                                                         *)
(* Time is kept relative: `due` is firingTime minus the time of the last   *)
(* bzrtp_iterate call, so a tick of d ms fires the timer when due <= d.    *)
(***************************************************************************)
EXTENDS Naturals

CONSTANTS
    HelloBase,      \* HELLO_BASE_RETRANSMISSION_STEP
    HelloCap,       \* HELLO_CAP_RETRANSMISSION_STEP
    HelloMax,       \* HELLO_MAX_RETRANSMISSION_NUMBER
    NonHelloBase,   \* NON_HELLO_BASE_RETRANSMISSION_STEP
    NonHelloCap,    \* NON_HELLO_CAP_RETRANSMISSION_STEP
    NonHelloMax,    \* NON_HELLO_MAX_RETRANSMISSION_NUMBER
    TickSizes       \* time between two bzrtp_iterate calls of the host

ASSUME HelloBase > 0 /\ HelloCap >= HelloBase /\ HelloMax > 0
ASSUME NonHelloBase > 0 /\ NonHelloCap >= NonHelloBase /\ NonHelloMax > 0
ASSUME TickSizes # {} /\ \A d \in TickSizes : d > 0

\* The packet each sending state retransmits.
Resent == [discovery_init |-> "Hello",
           discovery_waitingForHelloAck |-> "Hello",
           keyAgreement_sendingCommit |-> "Commit",
           keyAgreement_initiatorSendingDHPart2 |-> "DHPart2",
           confirmation_initiatorSendingConfirm2 |-> "Confirm2"]

TimerStates == DOMAIN Resent
Packets == {"Hello", "Commit", "DHPart2", "Confirm2"}

\* The firingCount bound of each TIMER handler (lines 147, 358, 613, 904,
\* 1249) and the step cap it doubles under.
MaxCount(st) ==
    CASE st = "discovery_init" -> HelloMax + 1
      [] st = "discovery_waitingForHelloAck" -> HelloMax
      [] OTHER -> NonHelloMax
CapStep(st) == IF Resent[st] = "Hello" THEN HelloCap ELSE NonHelloCap

VARIABLES
    state,          \* zrtpChannelContext->stateMachine
    status,         \* timer.status: "on" or "off"
    due,            \* timer.firingTime - timeReference
    firingCount,    \* timer.firingCount
    timerStep,      \* timer.timerStep
    sends           \* [Packets -> Nat]: packets sent so far, first sends included

vars == <<state, status, due, firingCount, timerStep, sends>>

\* state_discovery_init on INIT (lines 62-86): the Hello is built and the
\* timer armed with firingTime 0, so that the first tick sends it.
Init ==
    /\ state = "discovery_init"
    /\ status = "on"
    /\ due = 0
    /\ firingCount = 0
    /\ timerStep = HelloBase
    /\ sends = [k \in Packets |-> 0]

\* The INIT handler of sendingCommit, initiatorSendingDHPart2 or
\* initiatorSendingConfirm2: send the packet once and arm the timer one
\* base step ahead with count 0 (lines 420-430, 810-824, 1163-1176).
ArmNonHello(st) ==
    /\ state' = st
    /\ status' = "on"
    /\ due' = NonHelloBase
    /\ firingCount' = 0
    /\ timerStep' = NonHelloBase
    /\ sends' = [sends EXCEPT ![Resent[st]] = @ + 1]

\* The peer's answer that leaves the state (Hello, HelloACK, DHPart1,
\* Confirm1, Conf2ACK); the timer is left running on Hello in
\* discovery_init, stopped otherwise, then re-armed by the next INIT.
Answer ==
    \/ /\ state = "discovery_init"
       /\ state' = "discovery_waitingForHelloAck"
       /\ UNCHANGED <<status, due, firingCount, timerStep, sends>>
    \/ /\ state = "discovery_init"
       /\ state' = "discovery_waitingForHello"
       /\ status' = "off"
       /\ UNCHANGED <<due, firingCount, timerStep, sends>>
    \/ /\ state \in {"discovery_waitingForHello", "discovery_waitingForHelloAck"}
       /\ ArmNonHello("keyAgreement_sendingCommit")
    \/ /\ state = "keyAgreement_sendingCommit"
       /\ ArmNonHello("keyAgreement_initiatorSendingDHPart2")
    \/ /\ state = "keyAgreement_initiatorSendingDHPart2"
       /\ ArmNonHello("confirmation_initiatorSendingConfirm2")
    \/ /\ state = "confirmation_initiatorSendingConfirm2"
       /\ state' = "secure"
       /\ status' = "off"
       /\ UNCHANGED <<due, firingCount, timerStep, sends>>

\* Mutant: the timer re-armed while firingCount <= the bound.
TimerEventInclusive(count) ==
    /\ IF count <= MaxCount(state)
       THEN LET step == IF 2 * timerStep < CapStep(state) THEN 2 * timerStep ELSE timerStep
            IN  /\ timerStep' = step
                /\ due' = step
                /\ UNCHANGED status
       ELSE /\ status' = "off"
            /\ UNCHANGED <<timerStep, due>>
    /\ sends' = [sends EXCEPT ![Resent[state]] = @ + 1]

\* The TIMER branch of the state function, given bzrtp_iterate's new
\* firingCount: while it is below the state's bound, double the step if the
\* doubled step stays below the cap and re-arm one step ahead; otherwise
\* stop the timer.  The stored packet is resent in both cases.
TimerEvent(count) ==
    /\ IF count < MaxCount(state)
       THEN LET step == IF 2 * timerStep < CapStep(state) THEN 2 * timerStep ELSE timerStep
            IN  /\ timerStep' = step
                /\ due' = step
                /\ UNCHANGED status
       ELSE /\ status' = "off"
            /\ UNCHANGED <<timerStep, due>>
    /\ sends' = [sends EXCEPT ![Resent[state]] = @ + 1]

\* A bzrtp_iterate call d ms after the previous one: a timer that is on
\* and due has its firingCount incremented and fires the state's TIMER event.
Iterate ==
    /\ status = "on"
    /\ state \in TimerStates
    /\ \E d \in TickSizes :
         IF due <= d
         THEN /\ firingCount' = firingCount + 1
              /\ TimerEvent(firingCount + 1)
         ELSE /\ due' = due - d
              /\ UNCHANGED <<status, firingCount, timerStep, sends>>
    /\ UNCHANGED state

Next == Iterate \/ Answer

\* The host calls bzrtp_iterate periodically; the answer need not come.
Spec == Init /\ [][Next]_vars /\ WF_vars(Iterate)

-----------------------------------------------------------------------------

TypeOK ==
    /\ state \in TimerStates \cup {"discovery_waitingForHello", "secure"}
    /\ status \in {"on", "off"}
    /\ firingCount \in 0..(HelloMax + 1)
    /\ due \in Nat /\ timerStep \in Nat
    /\ sends \in [Packets -> Nat]

\* Every packet is sent a bounded number of times in total, whatever the
\* state it is resent from and whenever the answer comes: the Hello at
\* most HELLO_MAX + 1 times over discovery_init and waitingForHelloAck, the
\* others once by INIT and at most NON_HELLO_MAX times by the timer.
RetransmissionsBounded ==
    /\ sends["Hello"] <= HelloMax + 1
    /\ \A k \in Packets \ {"Hello"} : sends[k] <= NonHelloMax + 1

=============================================================================
