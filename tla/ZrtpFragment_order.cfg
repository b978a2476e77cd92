\* Two fragmented messages; the timer resends the fragments of the first
\* once, and the network reorders them.
CONSTANTS
    MsgLen = 40
    Mtu = 40
    NumMsgs = 2
    FirstMessageId = 1
    MaxResend = 1
    MaxDup = 0
    Unset = Unset
SPECIFICATION Spec
INVARIANT DeliveredInMessageIdOrder
CHECK_DEADLOCK FALSE
