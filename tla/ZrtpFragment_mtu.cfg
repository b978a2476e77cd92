\* One 40-byte message with MTU 42: fragments of 18, 18 and 4 bytes, a
\* fragment size that is not a whole number of 32-bit words.
CONSTANTS
    MsgLen = 40
    Mtu = 42
    NumMsgs = 1
    FirstMessageId = 1
    MaxResend = 0
    MaxDup = 0
    Unset = Unset
SPECIFICATION Spec
PROPERTY AllMessagesDelivered
CHECK_DEADLOCK FALSE
