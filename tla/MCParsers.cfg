SPECIFICATION Spec
CONSTANTS
    GroupBits = 5
    Width = 11
    Double = 2
    Single = 1
    Contexts <- MCContexts
    Undotted <- MCUndotted
    Longer <- MCLonger
    Numbers = {"0", "1", "2"}
    NotANumber = NotANumber
    Special = Special
    Messages <- MCMessages
    Extras <- MCExtras
    LabelKeys <- MCLabelKeys
    LabelValues <- MCLabelValues
    Names <- MCNames
    UnitWords = {"percentage", "bytes", "KiB"}
    Dims <- MCDims
INVARIANTS
    RoundTrip
    TruncationDetected
    LabelsSurvive
    FilterExact
    CollectsTruth
