SPECIFICATION Spec
CONSTANTS
    Keys = {"k1", "k2"}
    KeyPairs = {"p1", "p2"}
    None = None
INVARIANTS
    AcceptedIffMatching
    UntrustedUntouched
    ResponseVerifies
