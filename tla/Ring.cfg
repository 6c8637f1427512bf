SPECIFICATION Spec
CONSTANTS
    Capacity <- MCCapacity
    Modulus <- MCModulus
    MaxBytes <- MCMaxBytes
INVARIANTS
    TypeOK
    CopiesAreSafe
PROPERTY
    IsAFifo
