SPECIFICATION Spec
CONSTANTS
    Host = {"h1", "h2"}
    Seeds <- OneSeed
    Client = {"c"}
    Watcher = "w"
    MaxChanges = 1
    None = "none"
INVARIANT TypeOK
INVARIANT MasterHadAnswered
PROPERTY NodesKeepTheirPlace
PROPERTY MasterFoundAgain
PROPERTY OkAgain
