\* Two fragmented messages of 40 bytes, MTU 40: three fragments of 16, 16
\* and 8 bytes each; one timer resend and one network duplicate.
CONSTANTS
    MsgLen = 40
    Mtu = 40
    NumMsgs = 2
    FirstMessageId = 1
    MaxResend = 1
    MaxDup = 1
    Unset = Unset
SPECIFICATION Spec
INVARIANTS
    TypeOK
    NoBufferOverflow
    DeliveredIntact
PROPERTIES
    AllMessagesDelivered
\* The exchange ends once the last message is delivered.
CHECK_DEADLOCK FALSE
