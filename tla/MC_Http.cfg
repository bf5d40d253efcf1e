\* A read may end anywhere, in particular between the CR and the LF of the
\* blank line that ends the header block.
CONSTANTS
    Requests <- MC_Requests
    Responses <- MC_Responses
SPECIFICATION Spec
INVARIANT DecodedAsSent
\* Both connections stop once every message is answered.
CHECK_DEADLOCK FALSE
