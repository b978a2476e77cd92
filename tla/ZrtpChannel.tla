----------------------------- MODULE ZrtpChannel -----------------------------
(***************************************************************************)
(* One ZRTP channel between two endpoints, as driven by the state          *)
(* functions of stateMachine.c (src/unnamed/part_001, lines 1-1836).       *)
(*                                                                         *)
(* Each endpoint runs its own copy of the channel context: the current     *)
(* state function, the role, the retransmission timer, the sequence        *)
(* numbers, the self and peer packet slots, the cached-secret IDs and s0.  *)
(* A state function is split into one action per event it handles (INIT,  *)
(* MESSAGE of a given type, TIMER); a transition that calls the next state *)
(* with an INIT event runs that INIT handler in the same step, as the code *)
(* does by calling zrtpChannelContext->stateMachine(initEvent).            *)
(*                                                                         *)
(* Packets travel on a network that may lose, duplicate and (unless        *)
(* InOrder) reorder them.  Bytes are abstracted to what the handlers tell  *)
(* apart: a packet is its type, its sequence number and the fields the     *)
(* receiver stores or checks; hashes and MACs are records of what they are *)
(* computed over.  Both peers are honest: the hash-chain, MAC and hvi      *)
(* checks of bzrtp_packetParser always succeed, except the confirm_mac,    *)
(* which depends on both sides having derived the same s0.                 *)
(***************************************************************************)
EXTENDS Naturals, FiniteSets

CONSTANTS
    Peers,          \* the two endpoints of the channel (model values)
    None,           \* an empty packet slot, an absent cached secret
    KeyAgreement,   \* what crypoAlgoAgreement picks from the two Hellos: "DH" or "Mult"
    OffersMult,     \* the endpoints whose Hello lists Mult among its key agreements
    CommitRank,     \* [Peers -> Nat]: hvi (DH) or nonce (Mult) as big-endian integer
    CachedSecret,   \* [Peers -> [SecretNames -> secret value or None]]
    ZRTPSessAtStart,\* zrtpContext->ZRTPSess when the channel starts, or None
    HelloMax,       \* HELLO_MAX_RETRANSMISSION_NUMBER
    NonHelloMax,    \* NON_HELLO_MAX_RETRANSMISSION_NUMBER
    MaxLoss,        \* packets lost, by the network or by a failed send
    LossTypes,      \* message types the network may lose
    SendFailTypes,  \* message types whose bzrtp_sendData call may fail
    MaxDup,         \* packets the network may duplicate
    InOrder,        \* TRUE: each sender's packets are delivered in send order
    CompareOutcomes,\* results the repetition memcmp can give (subset of BOOLEAN)
    FreedSeqValues  \* values other than the real one read from a freed packet

ASSUME Cardinality(Peers) = 2
ASSUME KeyAgreement \in {"DH", "Mult"}
ASSUME \A p, q \in Peers : p # q => CommitRank[p] # CommitRank[q]
ASSUME CompareOutcomes \subseteq BOOLEAN /\ CompareOutcomes # {}

SecretNames == {"rs1", "rs2", "aux", "pbx"}
Stores == {"Hello", "Commit", "DHPart", "Confirm"}

States == {"discovery_init", "discovery_waitingForHello",
           "discovery_waitingForHelloAck", "keyAgreement_sendingCommit",
           "keyAgreement_responderSendingDHPart1",
           "keyAgreement_initiatorSendingDHPart2",
           "confirmation_responderSendingConfirm1",
           "confirmation_initiatorSendingConfirm2", "secure"}

VARIABLES
    state,          \* zrtpChannelContext->stateMachine
    role,           \* zrtpChannelContext->role
    timer,          \* [on, firingCount] of zrtpChannelContext->timer
    selfSeq,        \* selfSequenceNumber
    peerSeq,        \* peerSequenceNumber
    selfPackets,    \* selfPackets[store id]
    peerPackets,    \* peerPackets[store id]
    secretIds,      \* initiator/responder CachedSecretHash and AuxsecretID
    s0,             \* zrtpChannelContext->s0 (and the keys derived from it)
    keyAgreementAlgo,\* zrtpChannelContext->keyAgreementAlgo, None before Hello
    ZRTPSess,       \* zrtpContext->ZRTPSess of each endpoint's session
    isSecure,       \* zrtpContext->isSecure of each endpoint's session
    net,            \* packets in flight
    lost, duped,    \* network faults used so far
    crashed         \* a handler dereferenced an empty packet slot

\* The fields of bzrtpChannelContext_struct the handlers read or write.
ChannelContextVars == <<state, role, timer, selfSeq, peerSeq, selfPackets,
                        peerPackets, secretIds, s0, keyAgreementAlgo>>

\* The fields of bzrtpContext_struct the channel reads or writes: shared by
\* all the channels of a session.
SessionVars == <<ZRTPSess, isSecure>>

vars == <<ChannelContextVars, SessionVars, net, lost, duped, crashed>>

Peer(p) == CHOOSE q \in Peers : q # p

-----------------------------------------------------------------------------
(* Packets and the values computed over them.                             *)

\* A packet on the wire: sender, header sequence number, message, copy tag.
Wire(p, seq, msg) == [src |-> p, seq |-> seq, msg |-> msg, copy |-> 0]

\* HMAC(secret, label) truncated to 64 bits, or a random 8 bytes when the
\* secret is absent (bzrtp_responseToHelloMessage, lines 1431-1462).
SecretId(p, s, label) ==
    IF CachedSecret[p][s] = None THEN <<"random", p, s, label>>
                                 ELSE <<CachedSecret[p][s], label>>

\* IDs computed at Hello reception: rs1, rs2 and pbx keyed by the strings
\* "Initiator"/"Responder", aux keyed by self H3 (initiator) or peer H3.
ComputeSecretIds(p) ==
    [initiator |-> [s \in SecretNames |->
                      SecretId(p, s, IF s = "aux" THEN p ELSE "Initiator")],
     responder |-> [s \in SecretNames |->
                      SecretId(p, s, IF s = "aux" THEN Peer(p) ELSE "Responder")]]

\* The cached-secret ID check made on DHPart1 (lines 495-518) and on
\* DHPart2 (lines 725-748): for every secret held, the received ID must
\* equal the locally computed initiator ID.
CachedSecretIdsMatch(p, ids) ==
    \A s \in SecretNames :
        CachedSecret[p][s] # None => secretIds[p].initiator[s] = ids[s]

\* s1 is rs1 if held, rs2 otherwise (lines 1600-1607).
S1(p) == IF CachedSecret[p].rs1 # None THEN CachedSecret[p].rs1
                                      ELSE CachedSecret[p].rs2

\* Mutant: the ZIDs in the same order on both sides.
KDFContextZidsUnordered(p, r) == <<p, Peer(p)>>

\* ZIDi and ZIDr of the KDF context, seen from p in role r.
KDFContextZids(p, r) ==
    IF r = "Responder" THEN <<Peer(p), p>> ELSE <<p, Peer(p)>>

\* bzrtp_computeS0DHMMode: s0 = hash(DH result, ZIDi, ZIDr, total_hash, s1,
\* s2, s3), total_hash over responder Hello, Commit, DHPart1 and DHPart2 as
\* this side holds them: the responder takes its own Hello and DHPart and
\* the peer Commit, the initiator the opposite ones.
S0DHMMode(p, r, peerDH) ==
    [zids      |-> KDFContextZids(p, r),
     totalHash |-> IF r = "Responder"
                   THEN <<selfPackets[p].Hello, peerPackets[p].Commit,
                          selfPackets[p].DHPart, peerDH>>
                   ELSE <<peerPackets[p].Hello, selfPackets[p].Commit,
                          peerDH, selfPackets[p].DHPart>>,
     dhResult  |-> {p, peerDH.pv},
     s1 |-> S1(p), s2 |-> CachedSecret[p].aux, s3 |-> CachedSecret[p].pbx]

\* bzrtp_computeS0MultiStreamMode: s0 = KDF(ZRTPSess, "ZRTP MSK", ZIDi ||
\* ZIDr || hash(responder Hello || Commit)); commit is the Commit this side
\* holds (the peer one for the responder, its own for the initiator).
S0MultiStreamMode(p, r, commit) ==
    [zids      |-> KDFContextZids(p, r),
     totalHash |-> IF r = "Responder"
                   THEN <<selfPackets[p].Hello, commit>>
                   ELSE <<peerPackets[p].Hello, commit>>,
     sess      |-> ZRTPSess[p]]

\* Messages built by bzrtp_createZrtpPacket.  Hello has M, S and P clear;
\* the Commit carries hvi (DH) or nonce (Mult), both ranked by CommitRank;
\* DHPart2 carries the initiator IDs of the cached secrets; a Confirm has
\* confirm_mac and encryption under the sender's role keys (mackeyr and
\* zrtpkeyr for Confirm1, mackeyi and zrtpkeyi for Confirm2).
HelloMessage(p) == [type |-> "Hello", zid |-> p, mitm |-> FALSE]
HelloACKMessage == [type |-> "HelloACK"]
CommitMessage(p, algo) ==
    [type |-> "Commit", zid |-> p, keyAgreementAlgo |-> algo,
     hviOrNonce |-> CommitRank[p]]
DHPart2Message(p, ids) == [type |-> "DHPart2", pv |-> p, ids |-> ids]
ConfirmMessage(type, key, r) == [type |-> type, s0 |-> key, keyRole |-> r]
Conf2ACKMessage == [type |-> "Conf2ACK"]

\* bzrtp_packetParser on a Confirm (lines 2461-2509): the receiver checks
\* confirm_mac with the key of the other role derived from its own s0.
ConfirmMacValid(p, msg, key) ==
    /\ key # None
    /\ msg.s0 = key
    /\ msg.keyRole # role[p]

-----------------------------------------------------------------------------
(* The channel context at creation: state_discovery_init, initiator role, *)
(* timer off, empty slots.  The next packet to send has sequence number 1  *)
(* and the last valid peer one is 0.  A session that already holds         *)
(* ZRTPSess has had its main channel go secure before this one started.    *)

\* Mutant: the first packet sent carries sequence number 0.
InitSeqZero ==
    /\ state = [p \in Peers |-> "discovery_init"]
    /\ role = [p \in Peers |-> "Initiator"]
    /\ timer = [p \in Peers |-> [on |-> FALSE, firingCount |-> 0]]
    /\ selfSeq = [p \in Peers |-> 0]
    /\ peerSeq = [p \in Peers |-> 0]
    /\ selfPackets = [p \in Peers |-> [s \in Stores |-> None]]
    /\ peerPackets = [p \in Peers |-> [s \in Stores |-> None]]
    /\ secretIds = [p \in Peers |-> None]
    /\ s0 = [p \in Peers |-> None]
    /\ keyAgreementAlgo = [p \in Peers |-> None]
    /\ ZRTPSess = [p \in Peers |-> ZRTPSessAtStart]
    /\ isSecure = [p \in Peers |-> ZRTPSessAtStart # None]
    /\ net = {}
    /\ lost = 0
    /\ duped = 0
    /\ crashed = FALSE

Init ==
    /\ state = [p \in Peers |-> "discovery_init"]
    /\ role = [p \in Peers |-> "Initiator"]
    /\ timer = [p \in Peers |-> [on |-> FALSE, firingCount |-> 0]]
    /\ selfSeq = [p \in Peers |-> 1]
    /\ peerSeq = [p \in Peers |-> 0]
    /\ selfPackets = [p \in Peers |-> [s \in Stores |-> None]]
    /\ peerPackets = [p \in Peers |-> [s \in Stores |-> None]]
    /\ secretIds = [p \in Peers |-> None]
    /\ s0 = [p \in Peers |-> None]
    /\ keyAgreementAlgo = [p \in Peers |-> None]
    /\ ZRTPSess = [p \in Peers |-> ZRTPSessAtStart]
    /\ isSecure = [p \in Peers |-> ZRTPSessAtStart # None]
    /\ net = {}
    /\ lost = 0
    /\ duped = 0
    /\ crashed = FALSE

\* Timer armed by an INIT handler: firingCount 0, first step.
Armed == [on |-> TRUE, firingCount |-> 0]
Stopped(p) == [timer[p] EXCEPT !.on = FALSE]

\* The peer packet m is consumed, and the packets in out are sent.
Reply(m, out) == net' = (net \ {m}) \cup out

\* The host's bzrtp_sendData callback returns an error for a packet of type
\* t: the packet is not sent, and the failure uses the loss budget.
SendFails(t) ==
    /\ t \in SendFailTypes
    /\ lost < MaxLoss
    /\ lost' = lost + 1

-----------------------------------------------------------------------------
(* INIT and TIMER events.                                                 *)

\* state_discovery_init on INIT, with no Hello yet: build the Hello and arm
\* the timer to fire at once; the Hello is first sent by that timer.
DiscoveryInitStart(p) ==
    /\ ~crashed
    /\ state[p] = "discovery_init"
    /\ selfPackets[p].Hello = None
    /\ selfPackets' = [selfPackets EXCEPT ![p].Hello = HelloMessage(p)]
    /\ timer' = [timer EXCEPT ![p] = Armed]
    /\ selfSeq' = [selfSeq EXCEPT ![p] = @ + 1]
    /\ UNCHANGED <<state, role, peerSeq, peerPackets, secretIds, s0,
                   keyAgreementAlgo, SessionVars, net, lost, duped, crashed>>

\* A TIMER event: bzrtp_iterate counts the firing, then the state function
\* keeps the timer on while firingCount < cap, and in any case resends the
\* stored packet of slot with the current sequence number.
Retransmit(p, cap, slot) ==
    /\ ~crashed
    /\ timer[p].on
    /\ LET count == timer[p].firingCount + 1
       IN  timer' = [timer EXCEPT ![p] = [on |-> count < cap,
                                          firingCount |-> count]]
    /\ net' = net \cup {Wire(p, selfSeq[p], selfPackets[p][slot])}
    /\ selfSeq' = [selfSeq EXCEPT ![p] = @ + 1]
    /\ UNCHANGED <<state, role, peerSeq, selfPackets, peerPackets, secretIds,
                   s0, keyAgreementAlgo, SessionVars, lost, duped, crashed>>

DiscoveryInitTimer(p) ==
    state[p] = "discovery_init" /\ Retransmit(p, HelloMax + 1, "Hello")

WaitingForHelloAckTimer(p) ==
    state[p] = "discovery_waitingForHelloAck" /\ Retransmit(p, HelloMax, "Hello")

SendingCommitTimer(p) ==
    state[p] = "keyAgreement_sendingCommit" /\ Retransmit(p, NonHelloMax, "Commit")

InitiatorSendingDHPart2Timer(p) ==
    state[p] = "keyAgreement_initiatorSendingDHPart2"
    /\ Retransmit(p, NonHelloMax, "DHPart")

\* Mutant: Confirm2 is resent without bzrtp_packetUpdateSequenceNumber,
\* with the sequence number it was first sent with.
InitiatorSendingConfirm2TimerStaleSeq(p) ==
    /\ state[p] = "confirmation_initiatorSendingConfirm2"
    /\ ~crashed
    /\ timer[p].on
    /\ LET count == timer[p].firingCount + 1
       IN  timer' = [timer EXCEPT ![p] = [on |-> count < NonHelloMax,
                                          firingCount |-> count]]
    /\ net' = net \cup {Wire(p, selfSeq[p] - 1, selfPackets[p].Confirm)}
    /\ UNCHANGED <<state, role, selfSeq, peerSeq, selfPackets, peerPackets,
                   secretIds, s0, keyAgreementAlgo, SessionVars, lost, duped,
                   crashed>>

InitiatorSendingConfirm2Timer(p) ==
    state[p] = "confirmation_initiatorSendingConfirm2"
    /\ Retransmit(p, NonHelloMax, "Confirm")

-----------------------------------------------------------------------------
(* MESSAGE events: what every state function does first.                  *)

\* The host hands p a packet of its peer once the channel is started.  When
\* InOrder, a sender's packets arrive in the order they were sent.
Deliverable(p, m) ==
    /\ ~crashed
    /\ m \in net
    /\ m.src = Peer(p)
    /\ selfPackets[p].Hello # None
    /\ InOrder => \A n \in net : n.src = m.src => m.seq <= n.seq

\* bzrtp_packetCheck drops a non-fragmented packet whose sequence number is
\* not above the last valid one (OUTOFORDER).
InSequence(p, m) == m.seq > peerSeq[p]

\* The message types each state function lets past its type check, with the
\* mode conditions exactly as written (including "Prsh || Prsh" at line 449
\* and the DHPart2 condition at line 1038); state_secure ignores everything,
\* and responderSendingDHPart1 refuses every event without a self DHPart.
Accepts(p, t) ==
    LET st == state[p]
        algo == keyAgreementAlgo[p]
    IN
    CASE st = "discovery_init" -> t \in {"Hello", "HelloACK"}
      [] st = "discovery_waitingForHello" -> t = "Hello"
      [] st = "discovery_waitingForHelloAck" -> t \in {"Hello", "HelloACK", "Commit"}
      [] st = "keyAgreement_sendingCommit" ->
            /\ t \in {"Commit", "DHPart1", "Confirm1"}
            /\ ~(t = "DHPart1" /\ (algo = "Prsh" \/ algo = "Prsh"))
            /\ ~(t = "Confirm1" /\ algo # "Prsh" /\ algo # "Mult")
      [] st = "keyAgreement_responderSendingDHPart1" ->
            selfPackets[p].DHPart # None /\ t \in {"Commit", "DHPart2"}
      [] st = "keyAgreement_initiatorSendingDHPart2" -> t \in {"DHPart1", "Confirm1"}
      [] st = "confirmation_responderSendingConfirm1" ->
            \/ t = "Confirm2"
            \/ t = "Commit" /\ (algo = "Prsh" \/ algo = "Mult")
            \/ t = "DHPart2" /\ ~(algo = "Prsh" \/ algo # "Mult")
      [] st = "confirmation_initiatorSendingConfirm2" -> t \in {"Confirm1", "Conf2ACK"}
      [] st = "secure" -> FALSE

\* A packet rejected before any state change: out of order, or unexpected.
Drop(p, m) ==
    /\ Deliverable(p, m)
    /\ ~InSequence(p, m) \/ ~Accepts(p, m.msg.type)
    /\ Reply(m, {})
    /\ UNCHANGED <<state, role, timer, selfSeq, peerSeq, selfPackets,
                   peerPackets, secretIds, s0, keyAgreementAlgo, SessionVars,
                   lost, duped, crashed>>

(* A packet of a type already received in this state is a repetition: it  *)
(* is compared with the stored peer packet and, if equal, answered.  The   *)
(* comparison reads peerPackets[slot]->messageLength, and compares bytes   *)
(* at peerPackets[slot] + ZRTP_PACKET_HEADER_LENGTH, pointer arithmetic on *)
(* the packet structure rather than on its packetString: its result is one *)
(* of CompareOutcomes.  On a match the handler frees the packet and then   *)
(* reads its sequenceNumber, which gives the real value or one of          *)
(* FreedSeqValues.                                                         *)

\* Mutant: the Hello repetition compared with the Commit slot.
RepetitionsWrongSlot ==
    {<<"discovery_waitingForHelloAck", "Hello", "Commit">>,
     <<"keyAgreement_responderSendingDHPart1", "Commit", "Commit">>,
     <<"keyAgreement_initiatorSendingDHPart2", "DHPart1", "DHPart">>,
     <<"confirmation_responderSendingConfirm1", "Commit", "Commit">>,
     <<"confirmation_responderSendingConfirm1", "DHPart2", "DHPart">>,
     <<"confirmation_initiatorSendingConfirm2", "Confirm1", "Confirm">>}

\* <<state, repeated type, peer slot compared>>
Repetitions ==
    {<<"discovery_waitingForHelloAck", "Hello", "Hello">>,
     <<"keyAgreement_responderSendingDHPart1", "Commit", "Commit">>,
     <<"keyAgreement_initiatorSendingDHPart2", "DHPart1", "DHPart">>,
     <<"confirmation_responderSendingConfirm1", "Commit", "Commit">>,
     <<"confirmation_responderSendingConfirm1", "DHPart2", "DHPart">>,
     <<"confirmation_initiatorSendingConfirm2", "Confirm1", "Confirm">>}

IsRepetition(p, t) == \E r \in Repetitions : r[1] = state[p] /\ r[2] = t
RepetitionSlot(p, t) == (CHOOSE r \in Repetitions : r[1] = state[p] /\ r[2] = t)[3]

\* The answer to a matching repetition: a new HelloACK, or the stored
\* DHPart1 or Confirm1 with a fresh sequence number; None when ignored.
RepetitionAnswer(p) ==
    CASE state[p] = "discovery_waitingForHelloAck" -> HelloACKMessage
      [] state[p] = "keyAgreement_responderSendingDHPart1" -> selfPackets[p].DHPart
      [] state[p] = "confirmation_responderSendingConfirm1" -> selfPackets[p].Confirm
      [] OTHER -> None

RepetitionReceived(p, m) ==
    /\ Deliverable(p, m)
    /\ InSequence(p, m)
    /\ Accepts(p, m.msg.type)
    /\ IsRepetition(p, m.msg.type)
    /\ IF peerPackets[p][RepetitionSlot(p, m.msg.type)] = None
       THEN /\ crashed' = TRUE
            /\ UNCHANGED <<net, selfSeq, peerSeq>>
       ELSE /\ UNCHANGED crashed
            /\ \E same \in CompareOutcomes :
                 IF ~same
                 THEN Reply(m, {}) /\ UNCHANGED <<selfSeq, peerSeq>>
                 ELSE /\ \E v \in {m.seq} \cup FreedSeqValues :
                           peerSeq' = [peerSeq EXCEPT ![p] = v]
                      /\ IF RepetitionAnswer(p) = None
                         THEN Reply(m, {}) /\ UNCHANGED selfSeq
                         ELSE /\ Reply(m, {Wire(p, selfSeq[p], RepetitionAnswer(p))})
                              /\ selfSeq' = [selfSeq EXCEPT ![p] = @ + 1]
    /\ UNCHANGED <<state, role, timer, selfPackets, peerPackets, secretIds,
                   s0, keyAgreementAlgo, SessionVars, lost, duped>>

-----------------------------------------------------------------------------
(* MESSAGE events that move the state machine.  Each one passes the        *)
(* packetCheck and type checks of its state and is not a repetition; the   *)
(* packetParser then succeeds (honest peers) and its checks that depend on *)
(* the local state are the IF conditions below.                            *)

Handles(p, m, st, t) ==
    /\ Deliverable(p, m)
    /\ InSequence(p, m)
    /\ state[p] = st
    /\ m.msg.type = t
    /\ Accepts(p, t)
    /\ ~IsRepetition(p, t)

SetPeerSeq(p, m) == peerSeq' = [peerSeq EXCEPT ![p] = m.seq]

\* Mutant: the mode is never switched to Multistream.
AgreedKeyAgreementNoSwitch(p) == KeyAgreement

\* zrtpContext->peerSupportMultiChannel after the peer Hello is answered:
\* whether the peer's Hello lists Mult (lines 1410-1418).
PeerSupportMultiChannel(p) == Peer(p) \in OffersMult

\* The key agreement bzrtp_responseToHelloMessage settles on: the one
\* crypoAlgoAgreement picks, switched to Multistream when the peer offers
\* it and the session already holds ZRTPSess (lines 1465-1468); whether
\* this endpoint offers Mult itself is not tested.
AgreedKeyAgreement(p) ==
    IF PeerSupportMultiChannel(p) /\ ZRTPSess[p] # None THEN "Mult" ELSE KeyAgreement

\* bzrtp_responseToHelloMessage: store the peer Hello, compute the cached
\* secret IDs, settle the key agreement, in DHM mode pre-build our DHPart2
\* (sequence number 0, set again when sent), then send a HelloACK.
HelloIds(p) == ComputeSecretIds(p)
HelloDHPart(p) ==
    IF AgreedKeyAgreement(p) = "DH" THEN DHPart2Message(p, HelloIds(p).initiator)
    ELSE None
SetKeyAgreement(p) ==
    keyAgreementAlgo' = [keyAgreementAlgo EXCEPT ![p] = AgreedKeyAgreement(p)]

\* state_discovery_init on Hello: answer it and wait for the HelloACK; the
\* Hello retransmission timer is left running.
DiscoveryInitOnHello(p, m) ==
    /\ Handles(p, m, "discovery_init", "Hello")
    /\ SetPeerSeq(p, m)
    /\ peerPackets' = [peerPackets EXCEPT ![p].Hello = m.msg]
    /\ secretIds' = [secretIds EXCEPT ![p] = HelloIds(p)]
    /\ selfPackets' = [selfPackets EXCEPT ![p].DHPart = HelloDHPart(p)]
    /\ Reply(m, {Wire(p, selfSeq[p], HelloACKMessage)})
    /\ selfSeq' = [selfSeq EXCEPT ![p] = @ + 1]
    /\ SetKeyAgreement(p)
    /\ state' = [state EXCEPT ![p] = "discovery_waitingForHelloAck"]
    /\ UNCHANGED <<role, timer, s0, SessionVars, lost, duped, crashed>>

\* state_discovery_init on HelloACK: stop the timer, wait for the Hello.
DiscoveryInitOnHelloACK(p, m) ==
    /\ Handles(p, m, "discovery_init", "HelloACK")
    /\ SetPeerSeq(p, m)
    /\ timer' = [timer EXCEPT ![p] = Stopped(p)]
    /\ state' = [state EXCEPT ![p] = "discovery_waitingForHello"]
    /\ Reply(m, {})
    /\ UNCHANGED <<role, selfSeq, selfPackets, peerPackets, secretIds, s0,
                   keyAgreementAlgo, SessionVars, lost, duped, crashed>>

\* state_keyAgreement_sendingCommit on INIT (entered once, so with no
\* Commit yet): build the Commit and arm the timer; the caller sends it
\* with the current sequence number.  own is p's packet slots as the
\* caller leaves them, algo the channel's key agreement.
SendingCommitInit(p, own, algo) ==
    /\ selfPackets' = [selfPackets EXCEPT ![p] = [own EXCEPT !.Commit = CommitMessage(p, algo)]]
    /\ timer' = [timer EXCEPT ![p] = Armed]
    /\ state' = [state EXCEPT ![p] = "keyAgreement_sendingCommit"]

\* state_discovery_waitingForHello on Hello: answer it, then commit.
WaitingForHelloOnHello(p, m) ==
    /\ Handles(p, m, "discovery_waitingForHello", "Hello")
    /\ SetPeerSeq(p, m)
    /\ peerPackets' = [peerPackets EXCEPT ![p].Hello = m.msg]
    /\ secretIds' = [secretIds EXCEPT ![p] = HelloIds(p)]
    /\ SetKeyAgreement(p)
    /\ SendingCommitInit(p, [selfPackets[p] EXCEPT !.DHPart = HelloDHPart(p)],
                         AgreedKeyAgreement(p))
    /\ Reply(m, {Wire(p, selfSeq[p], HelloACKMessage),
                 Wire(p, selfSeq[p] + 1, CommitMessage(p, AgreedKeyAgreement(p)))})
    /\ selfSeq' = [selfSeq EXCEPT ![p] = @ + 2]
    /\ UNCHANGED <<role, s0, SessionVars, lost, duped, crashed>>

\* state_discovery_waitingForHelloAck on HelloACK: stop the timer, commit.
WaitingForHelloAckOnHelloACK(p, m) ==
    /\ Handles(p, m, "discovery_waitingForHelloAck", "HelloACK")
    /\ SetPeerSeq(p, m)
    /\ SendingCommitInit(p, selfPackets[p], keyAgreementAlgo[p])
    /\ Reply(m, {Wire(p, selfSeq[p], CommitMessage(p, keyAgreementAlgo[p]))})
    /\ selfSeq' = [selfSeq EXCEPT ![p] = @ + 1]
    /\ UNCHANGED <<role, peerPackets, secretIds, s0, keyAgreementAlgo,
                   SessionVars, lost, duped, crashed>>

\* Mutant: the two branches of the mode test swapped.
ResponderStateSwapped(commit) ==
    IF commit.keyAgreementAlgo \in {"Prsh", "Mult"}
    THEN "keyAgreement_responderSendingDHPart1"
    ELSE "confirmation_responderSendingConfirm1"

\* The state bzrtp_turnIntoResponder enters and runs with INIT, chosen from
\* the keyAgreementAlgo it takes from the peer Commit (lines 1322, 1360-1373).
ResponderState(commit) ==
    IF commit.keyAgreementAlgo \in {"Prsh", "Mult"}
    THEN "confirmation_responderSendingConfirm1"
    ELSE "keyAgreement_responderSendingDHPart1"

\* bzrtp_turnIntoResponder with the peer Commit m: stop the timer, store
\* the Commit, take the responder role and the Commit's key agreement.
\* With a self DHPart (DHM mode) the aux IDs are swapped and the DHPart2 is
\* rebuilt as a DHPart1 carrying the responder IDs, taking a sequence
\* number.  Then the INIT of the next state: responderSendingDHPart1 sends
\* the DHPart1 as built (and refuses to run without one);
\* responderSendingConfirm1 (Mult) returns INVALIDCONTEXT when the session
\* has no ZRTPSess (line 954), and otherwise derives s0 from it and builds,
\* stores and sends Confirm1.  own is p's packet slots as the caller leaves
\* them.
TurnIntoResponder(p, m, own) ==
    LET rebuild == own.DHPart # None
        swapped == [secretIds[p] EXCEPT !.initiator.aux = secretIds[p].responder.aux,
                                        !.responder.aux = secretIds[p].initiator.aux]
        dhPart1 == [type |-> "DHPart1", pv |-> p, ids |-> swapped.responder]
        packets == IF rebuild THEN [own EXCEPT !.DHPart = dhPart1] ELSE own
        seq == IF rebuild THEN selfSeq[p] + 1 ELSE selfSeq[p]
        key == S0MultiStreamMode(p, "Responder", m.msg)
        confirm1 == ConfirmMessage("Confirm1", key, "Responder")
        next == ResponderState(m.msg)
    IN
    /\ SetPeerSeq(p, m)
    /\ timer' = [timer EXCEPT ![p] = Stopped(p)]
    /\ peerPackets' = [peerPackets EXCEPT ![p].Commit = m.msg]
    /\ role' = [role EXCEPT ![p] = "Responder"]
    /\ keyAgreementAlgo' = [keyAgreementAlgo EXCEPT ![p] = m.msg.keyAgreementAlgo]
    /\ secretIds' = [secretIds EXCEPT ![p] = IF rebuild THEN swapped ELSE @]
    /\ state' = [state EXCEPT ![p] = next]
    /\ CASE next = "keyAgreement_responderSendingDHPart1" ->
              /\ selfPackets' = [selfPackets EXCEPT ![p] = packets]
              /\ selfSeq' = [selfSeq EXCEPT ![p] = seq]
              /\ Reply(m, IF rebuild THEN {Wire(p, selfSeq[p], dhPart1)} ELSE {})
              /\ UNCHANGED s0
         [] ZRTPSess[p] = None ->
              /\ selfPackets' = [selfPackets EXCEPT ![p] = packets]
              /\ selfSeq' = [selfSeq EXCEPT ![p] = seq]
              /\ Reply(m, {})
              /\ UNCHANGED s0
         [] OTHER ->
              /\ s0' = [s0 EXCEPT ![p] = key]
              /\ selfPackets' = [selfPackets EXCEPT ![p] = [packets EXCEPT !.Confirm = confirm1]]
              /\ selfSeq' = [selfSeq EXCEPT ![p] = seq + 1]
              /\ Reply(m, {Wire(p, seq, confirm1)})

\* state_discovery_waitingForHelloAck on Commit: the peer committed first.
WaitingForHelloAckOnCommit(p, m) ==
    /\ Handles(p, m, "discovery_waitingForHelloAck", "Commit")
    /\ TurnIntoResponder(p, m, selfPackets[p])
    /\ UNCHANGED <<SessionVars, lost, duped, crashed>>

\* Mutants: memcmp(...) != 0 for memcmp(...) < 0, and self compared with self.
CommitContentionLostOnDifference(p, peer) ==
    selfPackets[p].Commit.hviOrNonce # peer.hviOrNonce
CommitContentionLostSelfCompare(p, peer) ==
    selfPackets[p].Commit.hviOrNonce < selfPackets[p].Commit.hviOrNonce

\* Commit contention (RFC 6189 section 4.2) as coded at lines 570-593: with
\* different modes only a Preshared self Commit loses; with both Preshared
\* and an M flag set, the PBX loses; otherwise the lower hvi or nonce loses.
CommitContentionLost(p, peer) ==
    LET self == selfPackets[p].Commit
        selfHello == selfPackets[p].Hello
        peerHello == peerPackets[p].Hello
    IN  IF peer.keyAgreementAlgo # self.keyAgreementAlgo
        THEN peer.keyAgreementAlgo # "Prsh" /\ self.keyAgreementAlgo = "Prsh"
        ELSE IF peer.keyAgreementAlgo = "Prsh" /\ (selfHello.mitm \/ peerHello.mitm)
             THEN selfHello.mitm
             ELSE self.hviOrNonce < peer.hviOrNonce

\* state_keyAgreement_sendingCommit on Commit: the loser of the contention
\* frees its Commit and turns responder; the winner ignores the Commit.
SendingCommitOnCommit(p, m) ==
    /\ Handles(p, m, "keyAgreement_sendingCommit", "Commit")
    /\ IF CommitContentionLost(p, m.msg)
       THEN TurnIntoResponder(p, m, [selfPackets[p] EXCEPT !.Commit = None])
       ELSE /\ SetPeerSeq(p, m)
            /\ Reply(m, {})
            /\ UNCHANGED <<state, role, timer, selfSeq, selfPackets,
                           peerPackets, secretIds, s0, keyAgreementAlgo>>
    /\ UNCHANGED <<SessionVars, lost, duped, crashed>>

\* bzrtp_computeS0DHMMode ends by deriving the session key from s0,
\* ZRTPSess = KDF(s0, "ZRTP Session Key", KDF_Context) (lines 1663-1672).
ComputeZRTPSess(p, key) ==
    ZRTPSess' = [ZRTPSess EXCEPT ![p] = [kdf |-> "ZRTP Session Key", s0 |-> key]]

\* state_keyAgreement_sendingCommit on DHPart1: stop the timer, check the
\* cached-secret IDs (a mismatch returns CACHEMISMATCH and leaves the state
\* as it is), store DHPart1, derive s0 and enter initiatorSendingDHPart2,
\* whose INIT sends the DHPart2 and arms the timer.
SendingCommitOnDHPart1(p, m) ==
    /\ Handles(p, m, "keyAgreement_sendingCommit", "DHPart1")
    /\ SetPeerSeq(p, m)
    /\ IF CachedSecretIdsMatch(p, m.msg.ids)
       THEN /\ peerPackets' = [peerPackets EXCEPT ![p].DHPart = m.msg]
            /\ s0' = [s0 EXCEPT ![p] = S0DHMMode(p, "Initiator", m.msg)]
            /\ ComputeZRTPSess(p, S0DHMMode(p, "Initiator", m.msg))
            /\ state' = [state EXCEPT ![p] = "keyAgreement_initiatorSendingDHPart2"]
            /\ timer' = [timer EXCEPT ![p] = Armed]
            /\ Reply(m, {Wire(p, selfSeq[p], selfPackets[p].DHPart)})
            /\ selfSeq' = [selfSeq EXCEPT ![p] = @ + 1]
       ELSE /\ timer' = [timer EXCEPT ![p] = Stopped(p)]
            /\ Reply(m, {})
            /\ UNCHANGED <<state, selfSeq, peerPackets, s0, ZRTPSess>>
    /\ UNCHANGED <<role, selfPackets, secretIds, keyAgreementAlgo, isSecure,
                   lost, duped, crashed>>

\* Mutant: the sequence number is not incremented after Confirm2 is sent.
Confirm2InitNoIncrement(p, key) ==
    /\ selfPackets' = [selfPackets EXCEPT ![p].Confirm = ConfirmMessage("Confirm2", key, "Initiator")]
    /\ timer' = [timer EXCEPT ![p] = Armed]
    /\ state' = [state EXCEPT ![p] = "confirmation_initiatorSendingConfirm2"]
    /\ UNCHANGED selfSeq

Confirm2Init(p, key) ==
    /\ selfPackets' = [selfPackets EXCEPT ![p].Confirm = ConfirmMessage("Confirm2", key, "Initiator")]
    /\ timer' = [timer EXCEPT ![p] = Armed]
    /\ state' = [state EXCEPT ![p] = "confirmation_initiatorSendingConfirm2"]
    /\ selfSeq' = [selfSeq EXCEPT ![p] = @ + 1]

\* state_keyAgreement_sendingCommit on Confirm1 (Mult mode): s0 is derived
\* before the packet is parsed, and kept if the confirm_mac check fails;
\* on success the timer is stopped and Confirm2 sent.  The Confirm1 is not
\* stored in peerPackets.
SendingCommitOnConfirm1(p, m) ==
    LET key == S0MultiStreamMode(p, "Initiator", selfPackets[p].Commit) IN
    /\ Handles(p, m, "keyAgreement_sendingCommit", "Confirm1")
    /\ s0' = [s0 EXCEPT ![p] = key]
    /\ IF ConfirmMacValid(p, m.msg, key)
       THEN /\ SetPeerSeq(p, m)
            /\ Confirm2Init(p, key)
            /\ Reply(m, {Wire(p, selfSeq[p], ConfirmMessage("Confirm2", key, "Initiator"))})
       ELSE /\ Reply(m, {})
            /\ UNCHANGED <<state, timer, selfSeq, peerSeq, selfPackets>>
    /\ UNCHANGED <<role, peerPackets, secretIds, keyAgreementAlgo, SessionVars,
                   lost, duped, crashed>>

\* state_keyAgreement_responderSendingDHPart1 on DHPart2: check the cached
\* secret IDs against the initiator ones (a mismatch returns before the
\* sequence number is taken), store DHPart2, derive s0, and enter
\* responderSendingConfirm1, whose INIT (DHM: the keys exist) stops the
\* timer and builds, stores and sends Confirm1.
ResponderSendingDHPart1OnDHPart2(p, m) ==
    LET key == S0DHMMode(p, "Responder", m.msg)
        confirm1 == ConfirmMessage("Confirm1", key, "Responder")
    IN
    /\ Handles(p, m, "keyAgreement_responderSendingDHPart1", "DHPart2")
    /\ IF CachedSecretIdsMatch(p, m.msg.ids)
       THEN /\ SetPeerSeq(p, m)
            /\ peerPackets' = [peerPackets EXCEPT ![p].DHPart = m.msg]
            /\ s0' = [s0 EXCEPT ![p] = key]
            /\ ComputeZRTPSess(p, key)
            /\ timer' = [timer EXCEPT ![p] = Stopped(p)]
            /\ selfPackets' = [selfPackets EXCEPT ![p].Confirm = confirm1]
            /\ state' = [state EXCEPT ![p] = "confirmation_responderSendingConfirm1"]
            /\ Reply(m, {Wire(p, selfSeq[p], confirm1)})
            /\ selfSeq' = [selfSeq EXCEPT ![p] = @ + 1]
       ELSE /\ Reply(m, {})
            /\ UNCHANGED <<state, timer, selfSeq, peerSeq, selfPackets,
                           peerPackets, s0, ZRTPSess>>
    /\ UNCHANGED <<role, secretIds, keyAgreementAlgo, isSecure, lost, duped, crashed>>

\* state_keyAgreement_initiatorSendingDHPart2 on Confirm1: parse it (the
\* confirm_mac check), stop the timer, store it, send Confirm2.
InitiatorSendingDHPart2OnConfirm1(p, m) ==
    /\ Handles(p, m, "keyAgreement_initiatorSendingDHPart2", "Confirm1")
    /\ IF ConfirmMacValid(p, m.msg, s0[p])
       THEN /\ SetPeerSeq(p, m)
            /\ peerPackets' = [peerPackets EXCEPT ![p].Confirm = m.msg]
            /\ Confirm2Init(p, s0[p])
            /\ Reply(m, {Wire(p, selfSeq[p], ConfirmMessage("Confirm2", s0[p], "Initiator"))})
       ELSE /\ Reply(m, {})
            /\ UNCHANGED <<state, timer, selfSeq, peerSeq, selfPackets, peerPackets>>
    /\ UNCHANGED <<role, secretIds, s0, keyAgreementAlgo, SessionVars, lost,
                   duped, crashed>>

\* state_secure, called with INIT, marks the session secure (line 1291).
EnterSecure(p) ==
    /\ state' = [state EXCEPT ![p] = "secure"]
    /\ isSecure' = [isSecure EXCEPT ![p] = TRUE]

\* state_confirmation_responderSendingConfirm1 on Confirm2: parse it, store
\* it, send a Conf2ACK and enter state_secure.
ResponderSendingConfirm1OnConfirm2(p, m) ==
    /\ Handles(p, m, "confirmation_responderSendingConfirm1", "Confirm2")
    /\ IF ConfirmMacValid(p, m.msg, s0[p])
       THEN /\ SetPeerSeq(p, m)
            /\ peerPackets' = [peerPackets EXCEPT ![p].Confirm = m.msg]
            /\ selfSeq' = [selfSeq EXCEPT ![p] = @ + 1]
            /\ \/ /\ Reply(m, {Wire(p, selfSeq[p], Conf2ACKMessage)})
                  /\ EnterSecure(p)
                  /\ UNCHANGED lost
               \* the send fails (lines 1094-1098): return before state_secure
               \/ /\ SendFails("Conf2ACK")
                  /\ Reply(m, {})
                  /\ UNCHANGED <<state, isSecure>>
       ELSE /\ Reply(m, {})
            /\ UNCHANGED <<state, selfSeq, peerSeq, peerPackets, isSecure, lost>>
    /\ UNCHANGED <<role, timer, selfPackets, secretIds, s0, keyAgreementAlgo,
                   ZRTPSess, duped, crashed>>

\* state_confirmation_initiatorSendingConfirm2 on Conf2ACK: stop the timer
\* and enter state_secure; the peer sequence number is not updated.
InitiatorSendingConfirm2OnConf2ACK(p, m) ==
    /\ Handles(p, m, "confirmation_initiatorSendingConfirm2", "Conf2ACK")
    /\ timer' = [timer EXCEPT ![p] = Stopped(p)]
    /\ EnterSecure(p)
    /\ Reply(m, {})
    /\ UNCHANGED <<role, selfSeq, peerSeq, selfPackets, peerPackets, secretIds,
                   s0, keyAgreementAlgo, ZRTPSess, lost, duped, crashed>>

-----------------------------------------------------------------------------
(* The network: a packet may be lost or duplicated, within budgets.        *)

Lose(m) ==
    /\ m \in net
    /\ lost < MaxLoss
    /\ m.msg.type \in LossTypes
    /\ net' = net \ {m}
    /\ lost' = lost + 1
    /\ UNCHANGED <<ChannelContextVars, SessionVars, duped, crashed>>

Duplicate(m) ==
    /\ m \in net
    /\ duped < MaxDup
    /\ m.copy = 0
    /\ net' = net \cup {[m EXCEPT !.copy = 1]}
    /\ duped' = duped + 1
    /\ UNCHANGED <<ChannelContextVars, SessionVars, lost, crashed>>

-----------------------------------------------------------------------------

\* Every MESSAGE event p's state machine can be given.
Receive(p, m) ==
    \/ Drop(p, m)
    \/ RepetitionReceived(p, m)
    \/ DiscoveryInitOnHello(p, m)
    \/ DiscoveryInitOnHelloACK(p, m)
    \/ WaitingForHelloOnHello(p, m)
    \/ WaitingForHelloAckOnHelloACK(p, m)
    \/ WaitingForHelloAckOnCommit(p, m)
    \/ SendingCommitOnCommit(p, m)
    \/ SendingCommitOnDHPart1(p, m)
    \/ SendingCommitOnConfirm1(p, m)
    \/ ResponderSendingDHPart1OnDHPart2(p, m)
    \/ InitiatorSendingDHPart2OnConfirm1(p, m)
    \/ ResponderSendingConfirm1OnConfirm2(p, m)
    \/ InitiatorSendingConfirm2OnConf2ACK(p, m)

\* Every TIMER event: bzrtp_iterate fires p's timer when it is on.
Timer(p) ==
    \/ DiscoveryInitTimer(p)
    \/ WaitingForHelloAckTimer(p)
    \/ SendingCommitTimer(p)
    \/ InitiatorSendingDHPart2Timer(p)
    \/ InitiatorSendingConfirm2Timer(p)

\* Every step of the channel once started, and of its network.
ChannelStep ==
    \/ \E p \in Peers : DiscoveryInitTimer(p)
    \/ \E p \in Peers : WaitingForHelloAckTimer(p)
    \/ \E p \in Peers : SendingCommitTimer(p)
    \/ \E p \in Peers : InitiatorSendingDHPart2Timer(p)
    \/ \E p \in Peers : InitiatorSendingConfirm2Timer(p)
    \/ \E p \in Peers, m \in net : Drop(p, m)
    \/ \E p \in Peers, m \in net : RepetitionReceived(p, m)
    \/ \E p \in Peers, m \in net : DiscoveryInitOnHello(p, m)
    \/ \E p \in Peers, m \in net : DiscoveryInitOnHelloACK(p, m)
    \/ \E p \in Peers, m \in net : WaitingForHelloOnHello(p, m)
    \/ \E p \in Peers, m \in net : WaitingForHelloAckOnHelloACK(p, m)
    \/ \E p \in Peers, m \in net : WaitingForHelloAckOnCommit(p, m)
    \/ \E p \in Peers, m \in net : SendingCommitOnCommit(p, m)
    \/ \E p \in Peers, m \in net : SendingCommitOnDHPart1(p, m)
    \/ \E p \in Peers, m \in net : SendingCommitOnConfirm1(p, m)
    \/ \E p \in Peers, m \in net : ResponderSendingDHPart1OnDHPart2(p, m)
    \/ \E p \in Peers, m \in net : InitiatorSendingDHPart2OnConfirm1(p, m)
    \/ \E p \in Peers, m \in net : ResponderSendingConfirm1OnConfirm2(p, m)
    \/ \E p \in Peers, m \in net : InitiatorSendingConfirm2OnConf2ACK(p, m)
    \/ \E m \in net : Lose(m)
    \/ \E m \in net : Duplicate(m)

Next == (\E p \in Peers : DiscoveryInitStart(p)) \/ ChannelStep

\* The host starts both channels, calls bzrtp_iterate while a timer is on,
\* and hands every received packet to the channel: each of these is
\* weakly fair.  Loss and duplication need not happen.
Fairness ==
    \A p \in Peers :
        /\ WF_vars(DiscoveryInitStart(p))
        /\ WF_vars(Timer(p))
        /\ WF_vars(\E m \in net : Receive(p, m))

Spec == Init /\ [][Next]_vars /\ Fairness

-----------------------------------------------------------------------------
(* Properties.                                                             *)

Roles == {"Initiator", "Responder"}
MessageTypes == {"Hello", "HelloACK", "Commit", "DHPart1", "DHPart2",
                 "Confirm1", "Confirm2", "Conf2ACK"}

TypeOK ==
    /\ state \in [Peers -> States]
    /\ keyAgreementAlgo \in [Peers -> {None, "DH", "Mult"}]
    /\ isSecure \in [Peers -> BOOLEAN]
    /\ role \in [Peers -> Roles]
    /\ timer \in [Peers -> [on : BOOLEAN, firingCount : Nat]]
    /\ selfSeq \in [Peers -> Nat \ {0}]
    /\ peerSeq \in [Peers -> Nat]
    /\ \A p \in Peers, st \in Stores :
          /\ selfPackets[p][st] = None \/ selfPackets[p][st].type \in MessageTypes
          /\ peerPackets[p][st] = None \/ peerPackets[p][st].type \in MessageTypes
    /\ \A m \in net : m.src \in Peers /\ m.msg.type \in MessageTypes
    /\ lost \in 0..MaxLoss /\ duped \in 0..MaxDup
    /\ crashed \in BOOLEAN

\* States reached only once the Commit contention is over.
PastContention(p) ==
    state[p] \in {"keyAgreement_responderSendingDHPart1",
                  "keyAgreement_initiatorSendingDHPart2",
                  "confirmation_responderSendingConfirm1",
                  "confirmation_initiatorSendingConfirm2", "secure"}

\* Both endpoints leave the Commit contention of state_keyAgreement_sendingCommit
\* and bzrtp_turnIntoResponder with opposite roles: never two initiators
\* nor two responders, whatever the order of Hellos, HelloACKs and Commits.
RoleAgreement ==
    \A p \in Peers :
        PastContention(p) /\ PastContention(Peer(p)) => role[p] # role[Peer(p)]

\* Once both endpoints have derived s0, they hold the same one: the
\* responder's computeS0DHMMode hashes its own Hello and DHPart1 with the
\* peer Commit and DHPart2, the initiator the opposite packets, both with
\* the ZIDs in initiator/responder order (Mult: computeS0MultiStreamMode
\* over the responder Hello and the winning Commit).
S0Agreement ==
    \A p \in Peers :
        s0[p] # None /\ s0[Peer(p)] # None => s0[p] = s0[Peer(p)]

\* No handler dereferences an empty packet slot (the repetition checks read
\* peerPackets[slot]->messageLength).
NoCrash == ~crashed

\* Every packet the network still holds carries a sequence number the
\* sender has already used, so a later packet of that sender can never be
\* discarded by packetCheck as out of order because of a reused number.
SequenceNumbersFresh ==
    \A m \in net : m.seq < selfSeq[m.src]

\* With both endpoints started and the network delivering, both channels
\* eventually reach state_secure.
BothEventuallySecure == <>(\A p \in Peers : state[p] = "secure")

\* The firingCount at which the TIMER handler of each retransmitting state
\* stops its timer.
RetransmissionCap ==
    [discovery_init |-> HelloMax + 1,
     discovery_waitingForHelloAck |-> HelloMax,
     keyAgreement_sendingCommit |-> NonHelloMax,
     keyAgreement_initiatorSendingDHPart2 |-> NonHelloMax,
     confirmation_initiatorSendingConfirm2 |-> NonHelloMax]

StateGraph == INSTANCE ZrtpStateGraph WITH Endpoints <- Peers, stateMachine <- state

\* Every endpoint moves only along the transitions the prototypes in
\* stateMachine.h document for the key agreement mode, and switches to the
\* responder role exactly when it enters a responder state
\* (bzrtp_turnIntoResponder and every handler that changes stateMachine).
ImplementsStateGraph == StateGraph!Spec

=============================================================================
