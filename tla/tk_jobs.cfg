SPECIFICATION MCSpec
CONSTANTS
    Port = {"p"}
    Task = {"t", "s"}
    Server = "s"
    Msg = {"sent", "called"}
    Called = {"called"}
    Requeuing = {"sent", "called"}
    Throwing = {"sent", "called"}
    NoMsg = "none"
    MaxQueue = 2
    MaxStrays = 2
INVARIANT TypeOK
INVARIANT ObjectOutlivesUse
INVARIANT AnswerIsAboutSocket
INVARIANT RanAsAsked
PROPERTY EveryoneIsServed
