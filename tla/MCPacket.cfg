\* GDB writes two units of traffic (frames, acknowledgements, ^C, damaged
\* or cut-off frames, an oversized frame) or one command; the stub encodes replies around
\* every run-length boundary.
CONSTANTS
    MaxBuffer <- MCMaxBuffer
    MaxChunk <- MCMaxChunk
    MaxRetry <- MCMaxRetry
    WordLimit <- MCWordLimit
    Nullopt = Nullopt
    Junk = Junk
    Streams <- MCStreams
    Responses <- MCResponses
    QsupportedString <- MCQsupported
SPECIFICATION PSpec
INVARIANT DecoderTypeOK
INVARIANT DecodeFaithful
INVARIANT EncodeRoundTrip
INVARIANT ReceiveFaithful
INVARIANT ReplyReadBack
\* the network thread blocks in read_some once GDB has written everything
CHECK_DEADLOCK FALSE
