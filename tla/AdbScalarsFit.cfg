\* Every signed char; blobs of up to 12 bytes (two-digit lengths) into buffers of up to 26 bytes.
CONSTANTS
    MaxBlob = 12
    MaxBuf = 26
SPECIFICATION Spec
INVARIANTS
    RenderFitsBuffer
