SPECIFICATION MCSpec
CONSTANTS
    RxBaud = 25
    Bauds = {24, 25, 26}
    Bytes <- TestBytes
INVARIANT LineIntact
INVARIANT LineKeepsUp
PROPERTY LineArrives
