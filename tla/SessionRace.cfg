\* One process, an IDE thread and a cancellable completion thread.
CONSTANTS
    c1 = c1
    edt = edt
    bg = bg
    Client = {c1}
    Sender = {edt, bg}
    Completing = {bg}
    GetLocal = GetLocal
    ReloadFile = ReloadFile
    Cmd = {GetLocal, ReloadFile}
    Completion = {GetLocal}
    Casting = {}
    Plain = Plain
    Null = Null
    Timeout = 1
    MaxSends = 2
    MaxEvents = 1
SPECIFICATION ConnectedFairSpec
INVARIANTS SendSound
PROPERTY SendTerminates
CHECK_DEADLOCK FALSE
