SPECIFICATION TestSpec
CONSTANTS
    Test = {"x", "m", "n", "c", "d"}
    Kind <- KindOf
    ExpectFail = {"x"}
    Mode <- ModeOf
    Expected <- ExpectedOf
    Block = {"A"}
    Driver = {"ctest", "check"}
    Jobs = 2
    MaxOut = 2
INVARIANT VerdictsRight
