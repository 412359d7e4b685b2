SPECIFICATION Spec
CHECK_DEADLOCK FALSE
INVARIANTS FieldCorrect InversesCorrect PowerReturned PolynomialsCorrect TransposeCorrect CipherCorrect HashIsPolynomial CheckExact OperationsAgree ProofExact
