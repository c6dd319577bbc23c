\* three POST streams reading one four-byte file two bytes at a time, with
\* interrupted preads and an I/O error on one of them
CONSTANTS
  s1 = s1
  s2 = s2
  s3 = s3
  Streams <- MCStreams
  Size = 4
  MaxRead = 2
  MaxEintr = 1
  Source = "file"
  Faults = {"eintr", "eio"}
  MaxIoErrors = 1
SPECIFICATION Spec
\* every stream has ended or been reset: nghttp2 has no more DATA to send
CHECK_DEADLOCK FALSE
INVARIANTS
  TypeOK
  UploadFaithful
PROPERTIES
  UploadEnds
