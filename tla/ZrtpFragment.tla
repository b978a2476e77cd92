----------------------------- MODULE ZrtpFragment -----------------------------
(***************************************************************************)
(* Fragmentation of ZRTP messages larger than the MTU and their            *)
(* reassembly, between one sending and one receiving channel.              *)
(*                                                                         *)
(*  - the sender side is the fragmenting branch of bzrtp_packetBuild: the  *)
(*    message is cut in fragments of at most mtu - 24 bytes, each carrying *)
(*    the channel's selfMessageSequenceNumber as message id and the total  *)
(*    length, offset and fragment length in 32-bit words (value >> 2);     *)
(*    the counter is incremented once per fragmented message;              *)
(*  - the retransmission timer resends the fragments of the last message;  *)
(*  - the network reorders and duplicates fragments (a bag of packets);    *)
(*  - the receiver side is the fragment branch of bzrtp_packetCheck, with  *)
(*    its single reassembly slot incomingFragmentedPacket.                 *)
(*                                                                         *)
(* Message content is abstracted to byte positions: the reassembly buffer  *)
(* maps each byte of the message to the position of the sent byte copied   *)
(* there, so a message is intact when every byte landed in its place.      *)
(***************************************************************************)
EXTENDS Naturals, Sequences, SequencesExt, BagsExt, Functions

CONSTANTS
    MsgLen,          \* messageLength in bytes of every fragmented message
    Mtu,             \* zrtpContext->mtu
    NumMsgs,         \* messages the sender builds, one after the other
    FirstMessageId,  \* initial selfMessageSequenceNumber (set in bzrtp.c)
    MaxResend,       \* bound on timer retransmissions
    MaxDup,          \* bound on fragments duplicated by the network
    Unset            \* a buffer byte nothing was copied to

\* The packet layout constants of packetParser.c.
PacketHeaderLength == 12
PacketOverhead == 16
FragmentedPacketHeaderLength == 20
FragmentedPacketOverhead == 24

ASSUME MsgLen % 4 = 0 /\ MsgLen > 0
ASSUME Mtu > FragmentedPacketOverhead /\ Mtu < MsgLen + PacketOverhead

VARIABLES
    selfMessageSequenceNumber,  \* sender's message id counter
    built,          \* fragmented messages built so far
    lastFragments,  \* fragments of the last built message, resent by the timer
    resends,        \* timer retransmissions so far
    dups,           \* network duplications so far
    net,            \* bag of fragments in flight
    slot,           \* incomingFragmentedPacket of the receiver
    delivered,      \* reassembled messages handed to the parser, in order
    fault           \* a memcpy into a missing or too small buffer

vars == <<selfMessageSequenceNumber, built, lastFragments, resends, dups,
          net, slot, delivered, fault>>

MessageBytes == 0..(MsgLen - 1)

\* The fragments of the message with id `id` from byte `offset` on: the loop
\* of bzrtp_packetBuild, lines 3058-3129. `from` is where the copied bytes
\* start in the message; the header fields are the byte counts >> 2.
\* Mutant: the offset header field written in bytes instead of words.
RECURSIVE FragmentsFromOffsetInBytes(_, _)
FragmentsFromOffsetInBytes(id, offset) ==
    IF offset >= MsgLen THEN {}
    ELSE LET fragmentSize ==
                 IF MsgLen - offset < Mtu - FragmentedPacketOverhead
                 THEN MsgLen - offset
                 ELSE Mtu - FragmentedPacketOverhead
         IN  {[id |-> id, total |-> MsgLen \div 4, offset |-> offset,
               length |-> fragmentSize \div 4, bytes |-> fragmentSize,
               from |-> offset]}
             \cup FragmentsFromOffsetInBytes(id, offset + fragmentSize)

RECURSIVE FragmentsFrom(_, _)
FragmentsFrom(id, offset) ==
    IF offset >= MsgLen THEN {}
    ELSE LET fragmentSize ==
                 IF MsgLen - offset < Mtu - FragmentedPacketOverhead
                 THEN MsgLen - offset
                 ELSE Mtu - FragmentedPacketOverhead
         IN  {[id |-> id, total |-> MsgLen \div 4, offset |-> offset \div 4,
               length |-> fragmentSize \div 4, bytes |-> fragmentSize,
               from |-> offset]}
             \cup FragmentsFrom(id, offset + fragmentSize)

EmptySlot == [messageId |-> 0, messageLength |-> 0, allocated |-> FALSE,
              fragments |-> <<>>, buffer |-> <<>>]

\* The channel context starts with a zeroed reassembly slot.
Init ==
    /\ selfMessageSequenceNumber = FirstMessageId
    /\ built = 0
    /\ lastFragments = {}
    /\ resends = 0
    /\ dups = 0
    /\ net = EmptyBag
    /\ slot = EmptySlot
    /\ delivered = <<>>
    /\ fault = FALSE

AddAll(bag, S) == bag (+) SetToBag(S)

\* The peer answers a message once it has it, so the next one is built only
\* after the last one was delivered (or for the first message).
LastMessageDelivered ==
    built = 0 \/ \E i \in 1..Len(delivered) :
                     delivered[i].id = selfMessageSequenceNumber - 1

\* Mutant: the message id counter not incremented after fragmenting.
BuildMessageSameId ==
    /\ built < NumMsgs
    /\ LastMessageDelivered
    /\ LET frags == FragmentsFrom(selfMessageSequenceNumber, 0) IN
         /\ lastFragments' = frags
         /\ net' = AddAll(net, frags)
    /\ built' = built + 1
    /\ UNCHANGED <<selfMessageSequenceNumber, resends, dups, slot, delivered, fault>>

\* bzrtp_packetBuild of a message longer than the MTU, then its sending.
BuildMessage ==
    /\ built < NumMsgs
    /\ LastMessageDelivered
    /\ LET frags == FragmentsFrom(selfMessageSequenceNumber, 0) IN
         /\ lastFragments' = frags
         /\ net' = AddAll(net, frags)
    /\ selfMessageSequenceNumber' = selfMessageSequenceNumber + 1
    /\ built' = built + 1
    /\ UNCHANGED <<resends, dups, slot, delivered, fault>>

\* The retransmission timer resends the stored packet: all its fragments.
Resend ==
    /\ lastFragments # {}
    /\ resends < MaxResend
    /\ resends' = resends + 1
    /\ net' = AddAll(net, lastFragments)
    /\ UNCHANGED <<selfMessageSequenceNumber, built, lastFragments, dups,
                   slot, delivered, fault>>

\* The network delivers a copy of a fragment twice.
Duplicate ==
    /\ dups < MaxDup
    /\ \E f \in BagToSet(net) : net' = BagAdd(net, f)
    /\ dups' = dups + 1
    /\ UNCHANGED <<selfMessageSequenceNumber, built, lastFragments, resends,
                   slot, delivered, fault>>

\* Mutant: the fragment copied at its offset in words, not bytes.
CopiedAtWordOffset(f) == {f.offset + k : k \in 0..(f.bytes - 1)}

\* The bytes a fragment copies: memcpy at 4*offset of its payload, the
\* packet length minus the fragmented packet overhead (lines 2050, 2063).
Copied(f) == {4 * f.offset + k : k \in 0..(f.bytes - 1)}

\* The memcpy stays inside the buffer allocated for message + CRC.
FitsBuffer(s, f) == s.allocated /\ 4 * f.offset + f.bytes <= 4 * s.messageLength + 4

WriteFragment(buffer, f) ==
    [b \in DOMAIN buffer |->
        IF b \in Copied(f) THEN f.from + (b - 4 * f.offset) ELSE buffer[b]]

\* Mutant: fragments of the current message discarded as out of order too.
ReceiveStaleInclusive ==
    \E f \in BagToSet(net) :
        /\ slot.messageId >= f.id
        /\ net' = BagRemove(net, f)
        /\ UNCHANGED <<selfMessageSequenceNumber, built, lastFragments, resends,
                       dups, slot, delivered, fault>>

\* A fragment of an older message than the one being reassembled is
\* discarded as out of order (lines 2022-2026).
ReceiveStale ==
    \E f \in BagToSet(net) :
        /\ slot.messageId > f.id
        /\ net' = BagRemove(net, f)
        /\ UNCHANGED <<selfMessageSequenceNumber, built, lastFragments, resends,
                       dups, slot, delivered, fault>>

\* A fragment of the message being reassembled, or of a newer one, which
\* first discards the partial assembly and allocates a buffer of the total
\* length (lines 2027-2038). The fragment is inserted unless one with the
\* same offset is already there (2040-2065); when the lengths received add
\* up to the total the packet is handed over and the slot's message id is
\* reset to 0 (2067-2085).
ReceiveFragment ==
    \E f \in BagToSet(net) :
        /\ slot.messageId <= f.id
        /\ net' = BagRemove(net, f)
        /\ LET s == IF slot.messageId < f.id
                    THEN [messageId |-> f.id, messageLength |-> f.total,
                          allocated |-> TRUE, fragments |-> <<>>,
                          buffer |-> [b \in 0..(4 * f.total - 1) |-> Unset]]
                    ELSE slot
               isNew == f.offset \notin DOMAIN s.fragments
               s2 == IF isNew
                     THEN [s EXCEPT !.fragments = (f.offset :> f.length) @@ @,
                                    !.buffer = WriteFragment(@, f)]
                     ELSE s
           IN /\ fault' = (fault \/ (isNew /\ ~FitsBuffer(s, f)))
              /\ IF SumFunction(s2.fragments) = f.total
                 THEN /\ delivered' = Append(delivered,
                            [id |-> f.id,
                             intact |-> s2.buffer = [b \in MessageBytes |-> b]])
                      /\ slot' = [s2 EXCEPT !.messageId = 0, !.fragments = <<>>]
                 ELSE /\ slot' = s2
                      /\ UNCHANGED delivered
        /\ UNCHANGED <<selfMessageSequenceNumber, built, lastFragments, resends,
                       dups>>

Next ==
    \/ BuildMessage
    \/ Resend
    \/ Duplicate
    \/ ReceiveStale
    \/ ReceiveFragment

\* The host feeds every received packet to the channel, and the state
\* machine builds its next message once the peer's answer came in.
Fairness ==
    /\ WF_vars(BuildMessage)
    /\ WF_vars(ReceiveStale)
    /\ WF_vars(ReceiveFragment)

Spec == Init /\ [][Next]_vars /\ Fairness

-----------------------------------------------------------------------------

FragmentRecords ==
    [id : Nat, total : Nat, offset : Nat, length : Nat, bytes : Nat, from : Nat]

TypeOK ==
    /\ selfMessageSequenceNumber = FirstMessageId + built
    /\ built \in 0..NumMsgs
    /\ lastFragments \subseteq FragmentRecords
    /\ resends \in 0..MaxResend /\ dups \in 0..MaxDup
    /\ IsABag(net) /\ BagToSet(net) \subseteq FragmentRecords
    /\ slot.messageId \in Nat /\ slot.allocated \in BOOLEAN
    /\ delivered \in Seq([id : Nat, intact : BOOLEAN])
    /\ fault \in BOOLEAN

\* Every fragment copy bzrtp_packetCheck makes lands inside the buffer it
\* allocated from the fragment's total length.
NoBufferOverflow == ~fault

\* Every message bzrtp_packetCheck hands to the parser after reassembly is
\* the message the peer's bzrtp_packetBuild fragmented, byte for byte (spec:
\* the fragments "reassemble byte-exactly into the original packet").
DeliveredIntact == \A i \in 1..Len(delivered) : delivered[i].intact

\* Every message the sender fragments is eventually reassembled by the
\* receiver, whatever the order the fragments come in.
AllMessagesDelivered ==
    <>(built = NumMsgs /\ LastMessageDelivered)

\* Reassembly orders whole messages by message id: once a message is handed
\* over, no message with a lower id is handed over after it (spec: "a lower
\* message-id is rejected as out of order").
DeliveredInMessageIdOrder ==
    IsSorted([i \in 1..Len(delivered) |-> delivered[i].id], <=)

=============================================================================
