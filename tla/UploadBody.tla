------------------------------ MODULE UploadBody ------------------------------
(***************************************************************************)
(* The upload path of src/src/nghttp.cc: run() opens config.datafile once  *)
(* and fstat()s it; every Request gets the same data provider, whose       *)
(* data_length (the content-length header) is data_stat.st_size; nghttp2   *)
(* calls file_read_callback for each POST stream whenever it may send      *)
(* DATA, and the callback pread()s at the Request's own data_offset,       *)
(* retrying on EINTR.  A failing read returns                              *)
(* NGHTTP2_ERR_TEMPORAL_CALLBACK_FAILURE, on which nghttp2 resets that     *)
(* stream; a read of 0 bytes sets *eof and nghttp2 ends the stream.        *)
(*                                                                         *)
(* The file is Size bytes, byte k being k.  Source is what the path names: *)
(* a regular file, or (for -d -, which becomes /dev/stdin) a pipe.         *)
(***************************************************************************)
EXTENDS Integers, Sequences, FiniteSets, SequencesExt

CONSTANTS
  Streams,    \* the POST streams of the session
  Size,       \* the bytes the source holds
  MaxRead,    \* the length nghttp2 asks file_read_callback for, at most
  MaxEintr,   \* consecutive EINTR failures of pread, at most
  Source,     \* "file" or "pipe"
  Faults,     \* subset of {"eintr", "eio"}: what pread may fail with
  MaxIoErrors \* streams whose pread may fail with EIO, at most

ASSUME /\ Size \in Nat /\ MaxRead \in Nat \ {0} /\ MaxEintr \in Nat
       /\ Source \in {"file", "pipe"} /\ Faults \subseteq {"eintr", "eio"}
       /\ MaxIoErrors \in Nat

VARIABLES
  data_offset,  \* Request::data_offset of each stream
  sent,         \* the body bytes each stream has sent, in order
  st,           \* "open", "eof" (END_STREAM sent) or "reset"
  ioError,      \* history: the source reported an I/O error on the stream
  data_length   \* data_stat.st_size, sent as content-length

vars == <<data_offset, sent, st, ioError, data_length>>

Content == [k \in 1..Size |-> k - 1]

\* fstat: a pipe has no size
StSize == IF Source = "file" THEN Size ELSE 0

\* What one pread(fd, buf, length, off) ends with, after the EINTR retries:
\* the bytes read, or -1 with errno EIO, or, on a pipe, which cannot be read
\* at an offset, -1 with errno ESPIPE.  The errno is kept apart.  EIO is a
\* fault of the source, on at most MaxIoErrors streams.
PreadResults(off, length) ==
  IF Source = "pipe" THEN {[r |-> -1, errno |-> "ESPIPE"]}
  ELSE {[r |-> IF off >= Size THEN 0 ELSE Min({length, Size - off}),
         errno |-> "none"]}
       \cup (IF "eio" \in Faults
                /\ Cardinality({t \in Streams : ioError[t]}) < MaxIoErrors
             THEN {[r |-> -1, errno |-> "EIO"]} ELSE {})

\* Mutant: the read position is the descriptor's shared file position,
\* as read() would use: every stream's bytes advance it.
ReadPosShared(s) == FoldFunction(LAMBDA a, b : a + b, 0, data_offset)

\* the position file_read_callback reads the stream's body at
ReadPos(s) == data_offset[s]

\* NGHTTP2_ERR_TEMPORAL_CALLBACK_FAILURE: nghttp2 resets the stream
ResetStream(s, res) ==
  /\ st' = [st EXCEPT ![s] = "reset"]
  /\ ioError' = [ioError EXCEPT ![s] = (res.errno = "EIO")]
  /\ UNCHANGED <<data_offset, sent>>

\* *eof = 1: nghttp2 ends the stream
EndStream(s) ==
  st' = [st EXCEPT ![s] = "eof"] /\ UNCHANGED <<data_offset, sent, ioError>>

\* data_offset += r; nghttp2 sends the r bytes as DATA
SendBytes(s, r) ==
  /\ sent' = [sent EXCEPT ![s] = @ \o [k \in 1..r |-> ReadPos(s) + k - 1]]
  /\ data_offset' = [data_offset EXCEPT ![s] = @ + r]
  /\ UNCHANGED <<st, ioError>>

\* Mutant: EINTR is not retried; the failure is returned to nghttp2.
FileReadNoRetry(s, eintrs, res) ==
  CASE eintrs > 0  -> ResetStream(s, [r |-> -1, errno |-> "EINTR"])
    [] res.r = -1  -> ResetStream(s, res)
    [] res.r = 0   -> EndStream(s)
    [] OTHER       -> SendBytes(s, res.r)

\* Mutant: the r == -1 test is missing; the -1 is added to data_offset.
FileReadNoErrorCheck(s, eintrs, res) ==
  IF res.r = 0 THEN EndStream(s) ELSE SendBytes(s, res.r)

\* Mutant: a read of 0 bytes does not set *eof.
FileReadNoEof(s, eintrs, res) ==
  IF res.r = -1 THEN ResetStream(s, res) ELSE SendBytes(s, res.r)

\* file_read_callback, its pread interrupted eintrs times before it ends
\* with res (the EINTR loop is the retry, so eintrs does not show)
FileRead(s, eintrs, res) ==
  CASE res.r = -1  -> ResetStream(s, res)
    [] res.r = 0   -> EndStream(s)
    [] OTHER       -> SendBytes(s, res.r)

Init ==
  /\ data_offset = [s \in Streams |-> 0]
  /\ sent = [s \in Streams |-> <<>>]
  /\ st = [s \in Streams |-> "open"]
  /\ ioError = [s \in Streams |-> FALSE]
  /\ data_length = StSize

\* nghttp2_session_send asks the data provider of open stream s for at most
\* length bytes
ReadCallback(s) ==
  /\ st[s] = "open"
  /\ \E length \in 1..MaxRead,
        eintrs \in (IF "eintr" \in Faults THEN 0..MaxEintr ELSE {0}) :
       \E res \in PreadResults(ReadPos(s), length) : FileRead(s, eintrs, res)
  /\ UNCHANGED data_length

Next == \E s \in Streams : ReadCallback(s)

\* nghttp2 keeps asking an open stream's provider while it may send
Spec == Init /\ [][Next]_vars /\ \A s \in Streams : WF_vars(ReadCallback(s))

-----------------------------------------------------------------------------
(* Properties                                                               *)

TypeOK ==
  /\ data_offset \in [Streams -> 0..Size]
  /\ sent \in [Streams -> Seq(0..(Size - 1))]
  /\ st \in [Streams -> {"open", "eof", "reset"}]
  /\ ioError \in [Streams -> BOOLEAN] /\ data_length \in Nat

(* spec.md 8.2 and 4.5: each POST stream carries the source's content      *)
(* exactly once and in order, as far as it got; a stream that ends normally *)
(* has sent the whole content, which is the content-length it declared;   *)
(* a stream is reset only after a read error of the source, whatever other *)
(* streams read from the same descriptor and however often pread is        *)
(* interrupted.                                                            *)
UploadFaithful ==
  \A s \in Streams :
    /\ IsPrefix(sent[s], Content)
    /\ st[s] = "eof" => sent[s] = Content /\ data_length = Size
    /\ st[s] = "reset" => ioError[s]

(* Every POST stream's body ends: END_STREAM after the last byte, or a     *)
(* reset; file_read_callback never leaves a stream with nothing to send.   *)
UploadEnds == \A s \in Streams : <>(st[s] # "open")

====
