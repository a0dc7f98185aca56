SPECIFICATION Spec
SYMMETRY Symmetric
CONSTANTS
    a1 = a1
    a2 = a2
    x = x
    o = o
    app = app
    check = check
    Account = {a1, a2}
    MaxProxy = 2
    FailLimit = 2
    Address = {x, o}
    Open = {o}
    Process = {app, check}
    NoRow = norow
    NoProxy = noproxy
    NoAccount = noaccount
    Own = own
INVARIANTS
    TypeOK
    ProxyLink
    ClientsDoNotShare
PROPERTIES
    AssignmentIsKept
