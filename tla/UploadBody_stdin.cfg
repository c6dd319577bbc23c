\* -d -: the body is standard input, a pipe
CONSTANTS
  s1 = s1
  s2 = s2
  s3 = s3
  Streams <- MCStreams
  Size = 4
  MaxRead = 2
  MaxEintr = 1
  Source = "pipe"
  Faults = {}
  MaxIoErrors = 0
SPECIFICATION Spec
\* every stream has ended or been reset: nghttp2 has no more DATA to send
CHECK_DEADLOCK FALSE
INVARIANTS
  UploadFaithful
