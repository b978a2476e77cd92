---------------------------- MODULE ZrtpStateGraph ----------------------------
(***************************************************************************)
(* The channel state machine as src/include/stateMachine.h documents it:   *)
(* the "Goes to" list of each state function's prototype, with the message *)
(* that triggers the transition and the mode it is restricted to, and the  *)
(* role field of the channel context, which starts as INITIATOR and "may   *)
(* switch to responder later".  An edge marked "in DHM mode" or "in non    *)
(* DHM mode" is taken by the mode the endpoint settled on before the step: *)
(* keyAgreementAlgo is read here, never constrained.  This is what a       *)
(* channel promises; ZrtpChannel is checked to implement it for every      *)
(* endpoint.                                                               *)
(*                                                                         *)
(* The GoClear and clear states (lines 183-224) are left out: their state  *)
(* functions are not part of stateMachine.c.                               *)
(***************************************************************************)

CONSTANT
    Endpoints       \* the channel contexts, one per endpoint

VARIABLES
    stateMachine,   \* [Endpoints -> the current state function]
    role,           \* [Endpoints -> "Initiator" or "Responder"]
    keyAgreementAlgo\* [Endpoints -> the key agreement mode of the channel]

\* state_discovery_init, waitingForHello and waitingForHelloAck (lines 61-104).
DiscoveryTransitions(DHM) ==
    {[from |-> "discovery_init", on |-> "HelloACK", to |-> "discovery_waitingForHello"],
     [from |-> "discovery_init", on |-> "Hello", to |-> "discovery_waitingForHelloAck"],
     [from |-> "discovery_waitingForHello", on |-> "Hello",
      to |-> "keyAgreement_sendingCommit"],
     [from |-> "discovery_waitingForHelloAck", on |-> "HelloACK",
      to |-> "keyAgreement_sendingCommit"],
     [from |-> "discovery_waitingForHelloAck", on |-> "Commit",
      to |-> IF DHM THEN "keyAgreement_responderSendingDHPart1"
                    ELSE "confirmation_responderSendingConfirm1"]}

\* state_keyAgreement_sendingCommit, responderSendingDHPart1 and
\* initiatorSendingDHPart2 (lines 107-150); DHPart1 and DHPart2 are DHM only.
KeyAgreementTransitions(DHM) ==
    {[from |-> "keyAgreement_sendingCommit", on |-> "Commit",
      to |-> IF DHM THEN "keyAgreement_responderSendingDHPart1"
                    ELSE "confirmation_responderSendingConfirm1"],
     IF DHM THEN [from |-> "keyAgreement_sendingCommit", on |-> "DHPart1",
                  to |-> "keyAgreement_initiatorSendingDHPart2"]
            ELSE [from |-> "keyAgreement_sendingCommit", on |-> "Confirm1",
                  to |-> "confirmation_initiatorSendingConfirm2"]}
    \cup
    IF DHM THEN {[from |-> "keyAgreement_responderSendingDHPart1", on |-> "DHPart2",
                  to |-> "confirmation_responderSendingConfirm1"],
                 [from |-> "keyAgreement_initiatorSendingDHPart2", on |-> "Confirm1",
                  to |-> "confirmation_initiatorSendingConfirm2"]}
           ELSE {}

\* responderSendingConfirm1 and initiatorSendingConfirm2 (lines 153-181).
ConfirmationTransitions ==
    {[from |-> "confirmation_responderSendingConfirm1", on |-> "Confirm2", to |-> "secure"],
     [from |-> "confirmation_initiatorSendingConfirm2", on |-> "Conf2ACK", to |-> "secure"]}

\* The edges open to endpoint e in its current mode.
Transitions(e) ==
    LET DHM == keyAgreementAlgo[e] = "DH"
    IN  DiscoveryTransitions(DHM) \cup KeyAgreementTransitions(DHM)
          \cup ConfirmationTransitions

\* The states only a responder enters (bzrtp_turnIntoResponder's targets).
ResponderStates == {"keyAgreement_responderSendingDHPart1",
                    "confirmation_responderSendingConfirm1"}

\* A channel context is created in state_discovery_init as initiator
\* (lines 66, 401).
Init ==
    /\ stateMachine = [e \in Endpoints |-> "discovery_init"]
    /\ role = [e \in Endpoints |-> "Initiator"]

\* One documented transition of endpoint e; entering a responder state
\* switches its role.
Step(e, t) ==
    /\ stateMachine[e] = t.from
    /\ stateMachine' = [stateMachine EXCEPT ![e] = t.to]
    /\ role' = [role EXCEPT ![e] = IF t.to \in ResponderStates THEN "Responder" ELSE @]

Next == \E e \in Endpoints : \E t \in Transitions(e) : Step(e, t)

Spec == Init /\ [][Next]_<<stateMachine, role>>

=============================================================================
