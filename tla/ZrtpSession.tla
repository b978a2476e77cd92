----------------------------- MODULE ZrtpSession -----------------------------
(***************************************************************************)
(* A ZRTP session of two endpoints, each holding two channels: the main    *)
(* channel, which runs the DH exchange, and a second channel, which the    *)
(* host starts on an endpoint once that endpoint's session is secure.  The *)
(* channels share the fields of the session context they read and write:  *)
(* ZRTPSess, derived by bzrtp_computeS0DHMMode (lines 1663-1672) and read  *)
(* when a channel answers the peer Hello (lines 1465-1468) and derives a   *)
(* Multistream s0 (lines 951-961, 1712-1770), and isSecure, set by         *)
(* state_secure (line 1291).  Each channel is an instance of ZrtpChannel   *)
(* with its own context, network and fault budgets; a step of one channel  *)
(* leaves the other channel's variables unchanged.                         *)
(***************************************************************************)

CONSTANTS
    Peers, None, KeyAgreement, OffersMult, CommitRank, CachedSecret, HelloMax,
    NonHelloMax, MaxLoss, LossTypes, SendFailTypes, MaxDup, InOrder, CompareOutcomes,
    FreedSeqValues

VARIABLES
    \* zrtpContext->ZRTPSess and zrtpContext->isSecure of each endpoint
    ZRTPSess, isSecure,
    \* the context and network of the main channel
    stateMain, roleMain, timerMain, selfSeqMain, peerSeqMain, selfPacketsMain,
    peerPacketsMain, secretIdsMain, s0Main, keyAgreementAlgoMain, netMain,
    lostMain, dupedMain, crashedMain,
    \* the context and network of the second channel
    stateSecond, roleSecond, timerSecond, selfSeqSecond, peerSeqSecond,
    selfPacketsSecond, peerPacketsSecond, secretIdsSecond, s0Second,
    keyAgreementAlgoSecond, netSecond, lostSecond, dupedSecond, crashedSecond

mainVars == <<stateMain, roleMain, timerMain, selfSeqMain, peerSeqMain,
              selfPacketsMain, peerPacketsMain, secretIdsMain, s0Main,
              keyAgreementAlgoMain, netMain, lostMain, dupedMain, crashedMain>>

secondVars == <<stateSecond, roleSecond, timerSecond, selfSeqSecond,
                peerSeqSecond, selfPacketsSecond, peerPacketsSecond,
                secretIdsSecond, s0Second, keyAgreementAlgoSecond, netSecond,
                lostSecond, dupedSecond, crashedSecond>>

vars == <<ZRTPSess, isSecure, mainVars, secondVars>>

\* Both channels are created with the session, before it holds ZRTPSess.
Main == INSTANCE ZrtpChannel
    WITH ZRTPSessAtStart <- None,
         state <- stateMain, role <- roleMain, timer <- timerMain,
         selfSeq <- selfSeqMain, peerSeq <- peerSeqMain,
         selfPackets <- selfPacketsMain, peerPackets <- peerPacketsMain,
         secretIds <- secretIdsMain, s0 <- s0Main,
         keyAgreementAlgo <- keyAgreementAlgoMain, net <- netMain,
         lost <- lostMain, duped <- dupedMain, crashed <- crashedMain

Second == INSTANCE ZrtpChannel
    WITH ZRTPSessAtStart <- None,
         state <- stateSecond, role <- roleSecond, timer <- timerSecond,
         selfSeq <- selfSeqSecond, peerSeq <- peerSeqSecond,
         selfPackets <- selfPacketsSecond, peerPackets <- peerPacketsSecond,
         secretIds <- secretIdsSecond, s0 <- s0Second,
         keyAgreementAlgo <- keyAgreementAlgoSecond, net <- netSecond,
         lost <- lostSecond, duped <- dupedSecond, crashed <- crashedSecond

Init == Main!Init /\ Second!Init

\* The host starts the main channel (channel_start on channel 0).
StartMain(p) == Main!DiscoveryInitStart(p) /\ UNCHANGED secondVars

\* The host starts the second channel of an endpoint once that endpoint's
\* session is secure: only then may a Multistream channel start.
StartSecond(p) ==
    /\ isSecure[p]
    /\ Second!DiscoveryInitStart(p)
    /\ UNCHANGED mainVars

MainStep == Main!ChannelStep /\ UNCHANGED secondVars
SecondStep == Second!ChannelStep /\ UNCHANGED mainVars

Next ==
    \/ \E p \in Peers : StartMain(p) \/ StartSecond(p)
    \/ MainStep
    \/ SecondStep

\* bzrtp_iterate and packet delivery serve every started channel; each
\* channel's timer and receive steps are weakly fair, as in ZrtpChannel.
Fairness ==
    \A p \in Peers :
        /\ WF_vars(StartMain(p))
        /\ WF_vars(StartSecond(p))
        /\ WF_vars(Main!Timer(p) /\ UNCHANGED secondVars)
        /\ WF_vars((\E m \in netMain : Main!Receive(p, m)) /\ UNCHANGED secondVars)
        /\ WF_vars(Second!Timer(p) /\ UNCHANGED mainVars)
        /\ WF_vars((\E m \in netSecond : Second!Receive(p, m)) /\ UNCHANGED mainVars)

Spec == Init /\ [][Next]_vars /\ Fairness

-----------------------------------------------------------------------------
(* Properties.                                                             *)

TypeOK == Main!TypeOK /\ Second!TypeOK

\* The channel properties of ZrtpChannel, for both channels of the session:
\* opposite roles after the Commit contention, the same s0 on both sides
\* (on the second channel, derived from each side's own ZRTPSess), no
\* empty-slot dereference, no reused sequence number in flight, a live
\* timer in every sending state, and only documented transitions.
RoleAgreement == Main!RoleAgreement /\ Second!RoleAgreement
S0Agreement == Main!S0Agreement /\ Second!S0Agreement
NoCrash == Main!NoCrash /\ Second!NoCrash
SequenceNumbersFresh == Main!SequenceNumbersFresh /\ Second!SequenceNumbersFresh
ImplementsStateGraph == Main!ImplementsStateGraph /\ Second!ImplementsStateGraph

\* The second channel runs in Multistream mode on both endpoints, as the
\* specification says of every channel after the first: each endpoint
\* answers the second channel's Hello only after its main channel derived
\* s0 and ZRTPSess, so bzrtp_responseToHelloMessage switches both to Mult.
SecondChannelMultistream ==
    \A p \in Peers : keyAgreementAlgoSecond[p] \in {None, "Mult"}

\* Both channels of both endpoints eventually reach state_secure: the main
\* channel's state_secure marks the session secure, which lets the host
\* start the second channel, which then completes in Multistream mode.
AllChannelsEventuallySecure ==
    <>(\A p \in Peers : stateMain[p] = "secure" /\ stateSecond[p] = "secure")

=============================================================================
