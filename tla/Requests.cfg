CONSTANTS
    Codes = {"usd", "eur"}
    ValidCodes = {"usd", "eur"}
    Names = {"card", "wallet"}
    Rests = {rest, zero}
    ValidRests = {rest}
    None = None
SPECIFICATION Spec
INVARIANTS
    TypeOK
    AcceptedMeansSame
    RepetitionRecognised
    FrozenReplayAccepted
