SPECIFICATION Spec
CONSTANTS
    Ciphertexts <- MCCiphertexts
    Responses <- MCResponses
    Room = 1024
    Behind <- MCBehind
INVARIANTS EncodedByTheRules DecodesTheSecret
