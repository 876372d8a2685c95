SPECIFICATION Spec
CONSTANTS
    s1 = s1
    s2 = s2
    Subjects = {s1, s2}
    MaxVersion = 3
    MaxConcurrent = 15
    MaxChanges = 2
    Starts <- Pasts
    Text <- Texts
    Usages <- Uses
INVARIANTS SyncInv  
