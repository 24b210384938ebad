\* An import completion and a reload sent at the same time.
CONSTANTS
    c1 = c1
    edt = edt
    bg = bg
    Client = {c1}
    Sender = {edt, bg}
    Completing = {bg}
    GetImport = GetImport
    ReloadFile = ReloadFile
    Cmd = {GetImport, ReloadFile}
    Completion = {GetImport}
    Casting = {GetImport}
    Plain = Plain
    Null = Null
    Timeout = 1
    MaxSends = 2
    MaxEvents = 1
SPECIFICATION ConnectedSpec
INVARIANT CastSucceeds
CHECK_DEADLOCK FALSE
