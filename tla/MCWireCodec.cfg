CONSTANTS
    a = a
    e = e
    ByteBase <- MCByteBase
    Chars <- MCChars
    Utf8 <- MCUtf8
    NanosPerSecond <- MCNanosPerSecond
    Messages <- MCMessages
SPECIFICATION Spec
\* decoding ends when the message is read or a Decoder call raises
CHECK_DEADLOCK FALSE
INVARIANT TypeOK
INVARIANT RoundTrip
INVARIANT TruncationDetected
