SPECIFICATION Spec
CONSTANTS
    Editors = {e1, e2}
    Users = {"ann", "bob"}
    Choices <- MCChoices
    FirstFiles <- MCFirstFiles
    MaxChanges = 2
    NaN = NaN
INVARIANTS
    AcceptedFileWorks
    
    UsersAreKept
PROPERTY
    CommandsKeepLoadable
