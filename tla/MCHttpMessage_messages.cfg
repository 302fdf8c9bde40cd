SPECIFICATION Spec
CONSTANTS
    Starts = {"response"}
    Base = 2
    Names = {"other", "no colon"}
    Extras <- FewExtras
    Bytes <- FramingBytes
    MaxBody = 3
    MaxDigits = 2
    MaxLeading = 0
    Cuts = TRUE
INVARIANTS WholeIsReadInside MessageIsRecovered 
 
CHECK_DEADLOCK FALSE
