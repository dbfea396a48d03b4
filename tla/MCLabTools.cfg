\* Each tool alone, on small instances; a tool that is done stays as it is.
CONSTANTS
    KeyBits <- MCKeyBits
    Runs = 1
    Variants <- MCVariants
    Sessions = 2
    Leftovers <- MCLeftovers
    LibraryBits = 2048
    None = None
    PartKey = PartKey
    MaxFaults = 1
    Iterations = 2
    Foreign <- MCForeign
    Invocations <- MCInvocations
    MaxInvocations = 3
    Passwords = {p, q}
    NoWallet = NoWallet
    MaxAccounts = 3
    MaxEvents = 4
    Absent = Absent
    Torn = Torn
    MaxGenerations = 3
    Programs <- MCPrograms
    Logged <- MCLogged
    ByFile <- MCByFile
    Unnamed = Unnamed
    MaxLogged = 4
SPECIFICATION Spec
INVARIANTS
    CertificatesAgree
    RunsAreAccountedFor
    RowsAreGenuine
    SudoIsConfirmed
    SubscribersAgree
CHECK_DEADLOCK FALSE
