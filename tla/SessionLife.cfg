\* Two processes that connect and exit at any time, a completion requested at any
\* moment of their lives, and Session.close racing the accept loop, the readers
\* and the send.
CONSTANTS
    c1 = c1
    c2 = c2
    bg = bg
    Client = {c1, c2}
    Sender = {bg}
    Completing = {bg}
    GetLocal = GetLocal
    Cmd = {GetLocal}
    Completion = {GetLocal}
    Casting = {}
    Plain = Plain
    Null = Null
    Timeout = 0
    MaxSends = 1
    MaxEvents = 0
SPECIFICATION FairSpec
INVARIANTS CloseLeaksAtMostOne
PROPERTIES CloseTerminates
CHECK_DEADLOCK FALSE
