# Model checking `nghttp` (src/src/nghttp.cc)

TLA+ models of the HTTP/2 command-line client in `src/src/nghttp.cc`, checked with TLC.

## 1. The system

`nghttp` fetches URIs over HTTP/2. It has these parts:

| Part | Code | State | Operations |
|---|---|---|---|
| Transport Channel | `initiate_connection`, `disconnect`, `eventcb`, `readcb`, `writecb`, `sendcb`, `recvcb` | a libevent `bufferevent` with input and output buffers; `HttpClient::state` (IDLE/CONNECTED) | connect, EOF, error, timeout, readable, written; sendcb's WOULDBLOCK above `output_upper_thres` |
| Framing Session adapter | `on_frame_send_callback2`/`check_stream_id`, `on_frame_recv_callback2`/`check_response_header`, `on_data_chunk_recv_callback`, `on_stream_close_callback` | the nghttp2 session, an external library | bind a sent HEADERS to its Request; start the inflater and the HTML parser; decode DATA (RST on a decode error); count a closed stream and submit GOAWAY when all are done |
| Request Registry | `HttpClient::add_request`, `all_requests_processed` | `reqvec`, `path_cache` (filled only when `-m` is 1), `streams`, `complete` | admit; bind; complete |
| Asset Discovery | `update_html_parser` | each Request's parser and its not-yet-reported links | admit same-origin links at level+1 and submit them at once |
| Client Session Loop | `communicate`, `on_connect`, `on_read`, `on_write` | — | bulk admission `multiply` times; preface, SETTINGS and all submits on connect; recv/send pumps; disconnect when the session wants neither to read nor to write |
| Session grouping | `run` | `prev_host`, `prev_port`, `requests`, `failures` | cut the URI list into per-(host, port) sessions; count failures |
| Upload provider | `file_read_callback`, the data-file part of `run` | `Request::data_offset`; one `data_fd` and its `st_size` shared by all Requests | pread at the Request's offset with an EINTR retry; a temporal failure on error; `*eof` at end of file |
| Command line | `main`'s getopt loop, `Config` | the `Config` fields | one case per option: store into `Config` (converting `-t`, `-w`, `-m` with `atoi`/`strtoul`) or exit |
| Header block and connection setup | `submit_request`, `update_hostport`, `Request::make_reqpath`, the SNI lookup and timeouts in `initiate_connection`, the SETTINGS in `on_connect` | `config.headers` (a `std::map`), the `nv` array | build the NULL-terminated name/value array; set SNI, timeouts and the initial window |
| TLS/NPN and resources | `communicate`'s SSL_CTX setup and `fin`, `initiate_connection`, `client_select_next_proto_cb`, `disconnect`, `~HttpClient` | the event base, SSL_CTX, evdns base, SSL, bufferevent and nghttp2 session pointers; `result` | allocate, each call able to fail; select the next protocol; free on every path, `disconnect` possibly twice |
| Statistics | `record_time`, `print_stats`, `print_timer` | timestamps | output only |

**How the parts interact.** Everything runs on one thread in libevent's loop, and callbacks are deferred (`BEV_OPT_DEFER_CALLBACKS`).

- On readable, `on_read` runs `nghttp2_session_recv`. It raises the framing callbacks, which mutate the registry and can submit new requests (assets), RST_STREAM or GOAWAY. Then `nghttp2_session_send` drains the queue into the output buffer until sendcb says WOULDBLOCK.
- `writecb` restarts the send pump only once the output buffer is empty.
- Both pumps end with the quiescence test, and `readcb`/`writecb` disconnect when it holds.
- `run()` calls `communicate()` once per group of URIs.
- For `-d`, `run()` opens the data file once. Every Request of every session shares its descriptor and its `st_size`. nghttp2 calls `file_read_callback` for each POST stream whenever it may send DATA.

**What is hard to get right:**

- assets discovered inside the receive pump, including on the final parser tick in the close callback, which runs *before* the completion count;
- closes of streams the client never bound: pushes, and streams closed again after the client's own RST;
- RST after a decode error racing the server's END_STREAM;
- the send pump pausing on WOULDBLOCK and resuming only from `writecb`;
- GOAWAY in either direction making nghttp2 drop queued HEADERS;
- the connection ending (EOF, error, timeout) at any point;
- `-m N` turning de-duplication off;
- the grouping test in `run()`;
- the size of the `nv` array, computed apart from the code that fills it;
- the case-sensitive and case-insensitive lookups of `Host`;
- what `communicate()` allocates, freed by a `disconnect` that runs from a callback and again from the destructor, on a dozen failure paths;
- results that are ignored: `on_connect`'s in `eventcb`, and the NPN selection's in its callback;
- option values that are checked in `main` and used much later (`-w` in `on_connect`, `-t` in `initiate_connection`), with C conversions that never report an error;
- several streams reading one descriptor, with EINTR, I/O errors, and a source that is not a regular file.

`PROJECT.json` lists each of these as a hazard at the line where it bites.

## 2. Modules

### `HttpClient.tla`: one `communicate()` session

It covers the registry, the framing callbacks, the loop callbacks and their pumps, and an environment (network plus HTTP/2 server).

- **Client state.** The variables `reqvec`, `path_cache`, `streams`, `complete` and `state` are the `HttpClient` fields of the same names.
  - `goaways` counts GOAWAY submits.
  - `alive` is false once `disconnect` has ended the loop.
  - `phase` is `"recv"` while `on_read`'s receive pump runs.
- **Engine state.** nghttp2 is not part of the source. It is modelled from its contract by these variables:
  - `obq`: the outbound queue;
  - `sopen`: the open streams;
  - `nextSid`: the next odd stream id;
  - `goawaySent` and `goawayRecv`.
  - `WantRead`/`WantWrite` are `nghttp2_session_want_read`/`_write`: a session that has sent or received GOAWAY wants nothing once no stream is open.
  - HEADERS still queued after a GOAWAY are dropped.
- **Callbacks.** Each callback is an operator on the record `Sess`:
  - `AddRequest`, `SubmitRequest`, `AdmitAsset`/`UpdateHtmlParser`, `CheckResponseHeader`, `OnDataChunkRecv`, `OnStreamClose`/`GoawayIfDone`, `SendCbAccepts`, `SendFrame` (`check_stream_id`).
  - `SendPump` is `nghttp2_session_send`: a recursive fold that moves frames to the output buffer until the queue is empty or sendcb refuses. It is atomic, because libevent moves no bytes while a callback runs.
- **Actions.** `EventConnected` (eventcb + `on_connect` + `on_write`; its result is ignored as in the code), `EventError`, `EventTimeout`, `EventEof`, `ReadCb`, `WriteCb`.
  - The receive pump processes one frame per step: `RecvReply`, `RecvData`, `RecvRst`, `RecvPush`, `RecvGoaway`, `RecvBad`.
  - `RecvDone` (recvcb finds the input empty) runs `PumpAndCheck`: the send pump, then disconnect if quiescent.
- **Data abstractions.**
  - A URI is a string with the scheme, host and port fields `http_parser` finds in it (`UriParts`).
  - The same-origin test of `update_html_parser` is `FieldEq` on the scheme and the host, and `PortEq`, that is `porteq`, with `GetDefaultPort` for a missing port.
  - The HTML parser of a page is the set `Links[u]`. A DATA chunk reports any subset of the links not yet reported (`\E L`), and the close callback's final tick reports the rest.
  - Gzip is a flag on a reply.
  - A DATA frame either decodes or makes the inflater fail (`bad`).
  - The output buffer is counted in frames against `Thres`.
- **Environment.**
  - `Transmit` writes the whole output buffer to the socket and schedules `writecb`.
  - The server answers streams (`SrvReply`, `SrvData` up to `MaxChunks`, `fin`).
  - Depending on `Faults`, it may also reset streams, push, send GOAWAY or garbage, or close.
  - At most `MaxInFlight` frames are in flight toward the client.

### `SessionGrouping.tla`: `run()`

- A URI is its scheme (`"none"` if absent), host and port field. Port 0 is a missing port, the value `http_parser` leaves in `u.port`.
- `ScanUri`, `SkipUri` and `Finish` are the loop body and the trailing flush.
- `GroupKeyDiffers` is the test at lines 1122–1123.
- `DefaultPort`/`EffectivePort` are `get_default_port`/`porteq`.
- `Communicate` abstracts a whole session to how it ends:
  - a setup error, where the result is -1;
  - or a connect error, a transport error or done, where the result is 0.
- `Init` takes every command line of up to `MaxUris` URIs.

### `CommandLine.tla`: `main`'s option loop

- **Variables.**
  - `argv` is the command line's options, as given. It never changes and serves as history for the properties.
  - `args` holds the options `getopt_long` has not returned yet.
  - `headers`, `timeout`, `window_bits`, `multiply`, `datafile` and `no_tls` are the `Config` fields of those names.
  - `flags` holds the options whose only effect is to set one `Config` field (`-O -n -v -a -s --cert --key`).
  - `pc` is `"parse"`, `"help"` (exit 0) or `"exit"` (exit 1). `HeaderBlock` continues it.
- **Actions.** There is one action per `case` of the switch:
  - `ParseHeader`: exit on no colon, an empty name or an empty value; otherwise `std::map::insert`, which keeps the first value.
  - `ParseTimeout`: `atoi(optarg) * 1000`.
  - `ParseWindowBits`: `strtoul`, then the range check `WindowBitsAccepted`, or exit.
  - `ParseMultiply`: `strtoul` stored in an `int`.
  - `ParseData`: `"-"` becomes `/dev/stdin`.
  - `ParseNoTls`, `ParseFlag`, and `ParseExit` (for `-h` and for getopt's `'?'`).
- **Conversions.** An option argument is a sequence of characters.
  - `Strtoul`, `Atoi` and the RECURSIVE `SkipSpace`/`DigitsValue` do what the C library does: skip spaces, read an optional sign, then read digits.
  - No digits give 0 with no error.
  - For `strtoul`, a minus sign negates modulo 2^64. The result is kept as a sign and a magnitude, because TLC's integers are 32-bit.
  - `ULongToInt` keeps the low 32 bits.
  - Arguments have at most `MaxDigits` digits, so ERANGE cannot occur.

### `HeaderBlock.tla`: from the Config to the first request

It EXTENDS `CommandLine`, so one behaviour runs the option loop, then `run()` and one `communicate()` up to its return.

- **Variables.**
  - `uri` is the first Request's URI: scheme, host (IPv6 or not), port field, path and query.
  - `data_length` is the Request's copy of `data_stat.st_size`. Without `-d` it is the indeterminate value of the uninitialised `struct stat`.
  - `nv` is the array `submit_request` passes to nghttp2. It is a function over the slots it allocated, `0..total_entry_count`.
  - `oob` records a write past its end.
  - `submitted` records that a request was submitted.
  - `sni` is the name passed to `SSL_set_tlsext_host_name`.
  - `tv` holds the `tv_sec` given to `bufferevent_set_timeouts`. It is empty when that call is not made.
  - `iv` is the SETTINGS `on_connect` submits.
  - `heap` holds the resources: `ptr`, the pointers that are set; `live`, the objects not yet freed; and `frees`, how often each was freed. The resources are the event base, the SSL_CTX, the evdns base, the SSL, the bufferevent and the nghttp2 session.
  - `cstate` is `HttpClient::state`, and `writePending` says that bytes were written, so that `writecb` will run.
  - `fault` is the session's first failure, a ghost variable for the properties, and `result` is `communicate()`'s result.
- **Actions.**
  - `Connect` is `run()` opening the data file (a missing one makes `run()` return 1) and `communicate()` up to `event_base_loop`.
    - It makes the event base and, without `--no-tls`, the SSL_CTX with the key, the certificate and the NPN callback. A failure there sets `result` to -1 and jumps to `fin`.
    - It then constructs the client (the evdns base) and calls `InitiateConnection`: SSL_new and the SNI name over TLS, the bufferevent and the connect, and the timeouts.
    - A failure there jumps to `fin` through the client's destructor, with `result` still 0.
    - Which call fails, if any, is a nondeterministic choice (`SetupFails`).
  - `EventConnected` is `eventcb(BEV_EVENT_CONNECTED)`.
    - The TLS handshake has run `client_select_next_proto_cb` on every set of protocols the server may offer (`SelectNextProtocol`).
    - When nothing is selected, OpenSSL reads an uninitialised pointer, modelled as a crash or a connection that goes on.
    - Then `OnConnect`, whose result is ignored: `nghttp2_session_client_new` or `nghttp2_submit_settings` may fail. Otherwise it sends SETTINGS with `1 << window_bits` when `-w` was given (`ShiftLeft1`, the 32-bit int shift) and calls `submit_request` unless `multiply` is not positive.
  - `EventClose` is `eventcb` for EOF, an error or a timeout, which disconnects.
  - `ReadCb` crashes on the null session left by a failed `nghttp2_session_client_new`. Otherwise it stands for the `readcb` that disconnects.
  - `WriteCb` is `writecb`'s `on_write`, which may disconnect.
  - `Return` is the end of the loop, the destructor's second `disconnect` and `fin`.
  - `Terminated` lets an exited or crashed program stutter, so that deadlock checking finds states where the program is stuck.
  - `Disconnect`, `Fin` and `FreeIf` free a resource only when its pointer is set, then reset the pointer, as the code does.
- **Helpers.**
  - `StaticNv`, `TotalEntryCount`, `Prefilled` (the memcpy and content-length), `AddUserHeader` (one iteration of the while loop, with the `POS_*` positions) and `BuildNv`.
  - `Store` writes a slot or flags the overflow.
  - `UpdateHostport`, `MakeReqpath` and `DefaultPort` build strings with `\o` and `ToString`.
- **Map order.** `NameOrder` is the strcmp order of the header names, and `Lower` is what `util::strieq` compares.
- **Reference.** `SpecBlock` writes spec.md §6 directly as a fold over the headers, replacing or appending, without slots. It is the reference the built array is checked against.

### `UploadBody.tla`: the upload data provider

- **Variables.** Per POST stream: `data_offset`, the bytes `sent`, and the status `st` (open, eof or reset). `data_length` is `st_size`, the content-length.
- **History.** `ioError` records that the source reported an I/O error on the stream. No code variable corresponds to it.
- **Contents.** The source holds `Size` bytes, byte `k` being `k`, so a misplaced read shows up as wrong bytes.
- **Actions.**
  - `ReadCallback(s)` is nghttp2 asking stream `s` for at most `MaxRead` bytes.
  - `FileRead` is `file_read_callback`, with up to `MaxEintr` interrupted preads (the retry loop).
  - Then one of: `ResetStream` (a temporal failure, which nghttp2 answers with RST_STREAM), `EndStream` (`*eof = 1`) or `SendBytes` (`data_offset += r`).
- **Source.** `Source` is a regular file or a pipe (`-d -` on a pipe). On a pipe, pread fails with ESPIPE and fstat reports size 0.

### `RequestLifecycle.tla`: what a session promises about its requests

- **Abstract state.**
  - `reqs`: the requests, a URI and a level each;
  - `status`: queued, open or closed, per request;
  - `goaway`: a GOAWAY has been submitted;
  - `live`: the loop is running.
- **One `Step`.**
  - Requests are only appended. A new one is a same-origin link of a level-0 page whose stream is open, and is not a repeat without `-m`.
  - Same origin is RFC 6454's origin (`RefOrigin`): scheme, host and port, with 80 or 443 for a missing port. The refinement maps the abstract `Origin` to it, so it checks the client's `fieldeq`/`porteq` test against that reference.
  - A status only moves forward.
  - A request closes only after it was open.
  - GOAWAY is submitted only when every request, new ones included, is closed.
  - Nothing happens once the loop is gone.
- **Several changes per step.** One step may do several of these at once, because one client callback does: a DATA frame that ends a page closes it, admits its last links and may submit GOAWAY.
- **Refinement.** `HttpClient` instantiates it (`Life == INSTANCE RequestLifecycle WITH ...`):
  - `reqs` is `reqvec` without the parser state;
  - `ReqStatus(i)` is queued while no stream is bound to `reqvec[i]`, open while a bound stream is in `sopen`, and closed after that;
  - `goaway` is `goaways > 0`;
  - `live` is `alive`.

  `LifecycleRefined == Life!Spec` is checked as a PROPERTY.

## 3. Runs

| Run | Module / cfg | Checks | Result |
|---|---|---|---|
| streams | HttpClient_streams.cfg | TypeOK, UniqueStreamBinding, CompleteAccounting, GoawayAfterAllDone, NoDuplicateRequests, LifecycleRefined | pass (~2M states, about 2 min) |
| multiply | HttpClient_multiply.cfg | UniqueStreamBinding, CompleteAccounting, GoawayAfterAllDone, ProcessedThenExit, DoneLeadsToGoaway | pass (~58k states, about 1.5 min) |
| multiply0 | HttpClient_multiply0.cfg | DoneLeadsToGoaway | **violation** |
| grouping | SessionGrouping.cfg | TypeOK, SessionTargetsMatch, EveryUriOnce | pass (~1.3M states) |
| grouping_maximal | SessionGrouping_maximal.cfg | GroupsAreMaximal | **violation** |
| headers | MC_HeaderBlock / HeaderBlock.cfg | TypeOK, BlockMatchesSpec, ResourcesReleasedOnce | pass (~3.7M states, about 2 min) |
| headers_failures | MC_HeaderBlock / HeaderBlock_failures.cfg | FailedSessionsCounted | **violation** |
| headers_bounds | MC_HeaderBlock / HeaderBlock_bounds.cfg | NvInBounds | **violation** |
| headers_sni | MC_HeaderBlock / HeaderBlock_sni.cfg | SniIsHostHeader | **violation** |
| headers_timeout | MC_HeaderBlock / HeaderBlock_timeout.cfg | TimeoutInSeconds | **violation** |
| upload | MC_UploadBody / UploadBody.cfg | TypeOK, UploadFaithful, UploadEnds | pass (756 states) |
| upload_stdin | MC_UploadBody / UploadBody_stdin.cfg | UploadFaithful | **violation** |

**What the properties say:**

- *UniqueStreamBinding*: a Request is given to nghttp2 at most once, queued or bound.
- *CompleteAccounting*: `complete` equals the number of bound streams that have closed, so pushes and double closes never count.
- *GoawayAfterAllDone*: at most one GOAWAY, and only when every Request has a closed stream.
- *NoDuplicateRequests*: with `-m 1`, no URI is in `reqvec` twice.
- *ProcessedThenExit*: the loop ends with every request processed.
- *DoneLeadsToGoaway*: a connected session that has processed everything sends GOAWAY or ends.
- *SessionTargetsMatch*: every URI goes to a session with its host and effective port.
- *EveryUriOnce*: each URI with a scheme is handed to exactly one `communicate()`, in order.
- *LifecycleRefined*: every step of the session is a step of `RequestLifecycle`. It is deeper than the invariants because it relates each state to the next:
  - a request is never re-sent or reopened after it closed;
  - an asset comes from a page that is open at that moment, and not from one closed earlier;
  - the GOAWAY condition counts assets admitted in the same callback.
- *BlockMatchesSpec*: the header pairs `submit_request` builds, up to its nullptr, are the block spec.md §6 lists.
  - It is checked for every command line of up to two options, with `-H` over `Accept`, `accept`, `Host`, `host`, `User-Agent` and `x-a`, and for every URI shape.
  - The content-length is the file's size, never the uninitialised `st_size` read without `-d`.
- *ResourcesReleasedOnce*: no resource is ever freed twice, and when `communicate()` returns every resource it or its client allocated has been freed. This covers every path: each failing library call, each teardown from `eventcb`, `readcb` or `writecb`, and the destructor's second `disconnect`.
- *FailedSessionsCounted*: a session that failed to set up, connect or negotiate HTTP/2, or that timed out, makes `communicate()` return non-zero, which `run()` counts.
- *TimeoutInSeconds*: the timeval handed to `bufferevent_set_timeouts` holds the `-t` argument in seconds.
- *NvInBounds*: every write to `nv`, the terminator included, is inside the allocated array.
- *SniIsHostHeader*: when the user gives a host header, SNI names the host `:host` names.
- *UploadFaithful*: each POST stream sends a prefix of the file, in order and exactly once. A stream that ends has sent the whole file, and the file's size is its content-length. A stream is reset only after an I/O error of the source. This holds however the streams' reads interleave on the shared descriptor.
- *UploadEnds*: every POST stream's body ends, either with END_STREAM or with a reset.

**Findings:**

- **multiply0** shows that `-m 0` leaves a connected session idle: nothing submits GOAWAY (line 1020).
- **grouping_maximal** shows that `https://h/a https://h/b` opens two sessions to h:443, because `u.port` (0) is compared with the stored effective port (line 1123).
- **headers_bounds** finds a heap overflow in `submit_request`.
  - `total_entry_count` adds 1 for an upload (line 622), but content-length takes two entries.
  - The array has 16 + 2H slots for H `-H` headers. The terminator goes to index 16 + 2A, where A counts the headers that are appended rather than replacing accept, user-agent or host.
  - So with `-d` and no `-H` header that replaces a default (A = H, no `-H` at all included), `nv[pos] = nullptr` (line 661) writes one slot past the array. `-d -H 'host: x'` fits, and `-d -H 'x-a: v'` does not.
- **headers_sni** shows that `-H "host: v"` replaces `:host` (a case-insensitive match), while SNI looks up `"Host"` case-sensitively (line 387) and stays the connect host.
  - With both `Host: a` and `host: b`, `:host` is `b` and SNI is `a`.
  - spec.md §6 says a user Host header becomes the SNI.
- **headers_failures** shows that only SSL_CTX, key and certificate failures are counted in the exit code.
  - A failed `initiate_connection` (line 1026) jumps to `fin` with `result` still 0. TLC's shortest trace is a failing SNI call.
  - The same holds for an asynchronous connect error and for a timeout.
  - It also holds for a server that does not offer HTTP/2: `client_select_next_proto_cb` returns `SSL_TLSEXT_ERR_OK` anyway (line 886).
  - It also holds for a failed `on_connect`, whose result `eventcb` ignores (line 924). After a failed `nghttp2_session_client_new`, the next `readcb` calls `nghttp2_session_recv(nullptr)` and crashes.
  - spec.md §4.1, §4.5 and §7 say these failures abort the session and are counted.
- **headers_timeout** shows that `-t 1` sets read and write timeouts of 1000 seconds.
  - `main` stores `atoi(optarg) * 1000` (line 1230): milliseconds, as the `Config` comment says.
  - `initiate_connection` puts that value in `tv_sec` (line 413).
  - spec.md §6 and the help text say N seconds.
- **upload_stdin** shows that `-d -` with standard input a pipe never uploads.
  - fstat gives size 0, which is sent as content-length.
  - pread fails with ESPIPE (line 1059), and every POST stream is reset.

**Mutants.** Every property of a passing run is broken by a plausible bug in the modelled code, and `PROJECT.json` lists each one. Examples:

- counting an unbound close;
- testing completion before the final parser tick;
- dropping the `add_request` result check;
- dropping the scheme comparison from the same-origin test (for the refinement);
- an inverted test in writecb;
- comparing only hosts in `run()`;
- dropping the final flush;
- accepting an empty `-H` value;
- `SSL_free` without resetting `ssl`, which the destructor's `disconnect` then frees again;
- writing an override over the name slot;
- a missing `r == -1` check;
- reading at the descriptor's shared position, as `read()` would;
- not setting `*eof`;
- for `GoawayAfterAllDone`, counting an unbound close or testing completion before the final tick.

**Bounds, and why they are enough.**

- *Page and links.* One command-line page, `a` (`https://h/a`), links itself, `c` (`https://h:443/c`) and `x` (`http://h:443/x`). This exercises every branch of `AdmitAsset`: a cache hit, admission, and rejection by origin. `c` is the same origin only through `porteq`'s default port, and `x` has the same effective port and is kept out only by the scheme.
- *Stream ids.* These are bounded by the requests that can exist.
- *DATA frames.* `MaxChunks = 2` lets links be reported across two DATA frames and the final tick.
- *Push.* One push id gives an unbound stream.
- *Output threshold.* `Thres = 1` makes the send pump pause with HEADERS still queued. `Thres = 0` in the multiply run pauses it after every frame.
- *In-flight frames.* `MaxInFlight` of 2–3 lets server frames overtake client frames (RST crossing DATA).
- *`-m 2`.* This gives duplicate pages and duplicate assets.
- *Grouping.* Every command line of 3 URIs over 2 hosts, 4 schemes and 4 port fields is enumerated. That includes an absent port and a non-default explicit port.
- *Option arguments.* `-t`, `-w` and `-m` each take one of five arguments:
  - `1` and `30`, both in range;
  - `31`, the first value `-w` rejects;
  - `-1`, which `strtoul` turns into ULONG_MAX and `atoi` into -1;
  - `a`, which has no digits and converts to 0.
  `-d` takes `-`, a file, or a missing file.
- *Header names.* The six names cover each override in both cases, with both cases present at once, and an appended name.
  - Two `-H` options are enough for a repeat, for two overrides of one default, and for an override beside an appended header.
  - Every URI shape is enumerated: IPv6 or not, each port kind for both schemes, path and query present or absent.
- *Upload.*
  - Three streams on a 4-byte file with reads of at most 2 bytes give short and full reads, interleaved reads on the shared descriptor, and streams ending at different times.
  - One EINTR before a result exercises the retry.
  - `MaxIoErrors = 1` lets one stream fail while the others must finish, so that a stream stuck at end of file cannot always escape by an error.

**Fairness** (multiply and upload runs):

- `WF` of the client's loop step, because libevent dispatches every ready callback.
- `WF` of `Transmit`, because the kernel eventually sends what is in the output buffer.
- `WF` of the server answering each stream it accepted, and of EOF after a server GOAWAY. These are assumptions about a correct server, not guarantees of the code.
- In UploadBody, `WF` of each stream's read callback: nghttp2 keeps asking an open stream's provider for data. This assumes the server grants flow-control window; WINDOW_UPDATE is not modelled.

The safety runs assume no fairness.

- The HttpClient and SessionGrouping cfgs set `CHECK_DEADLOCK FALSE`: the program exits once `disconnect()` ends the loop, and `run()` returns after its last URI.
- The HeaderBlock cfgs check deadlock. `Terminated` lets a program that has returned, exited or crashed stutter, so a deadlock would be a state where the program is stuck.

## 4. Not modelled

- The TLS handshake itself, which is one step (`EventConnected`), and the record layer. `SessionGrouping` abstracts each session to its outcome.
- The order in which `disconnect` frees resources. spec.md §5 asks for reverse acquisition order, but the evdns base is freed before the SSL. The two objects do not refer to each other, and spec.md §8 only asks that this order be examined, so no run checks it.
- A crash is a final state. No property says the program never crashes, because no run is left to check it. The crash after a failed `nghttp2_session_client_new` is reachable in the headers run.
- Timestamps and statistics.
- Response output and verbose printing.
- The header values, which are model values, and HPACK, which belongs to nghttp2.
- The early `return 1` of `run()` when the data file cannot be opened is modelled by `HeaderBlock`'s `Connect`.
  - spec.md §7 calls this a per-session setup error, so this is a divergence.
  - Checking it would need a run of its own, and the twelve run slots hold questions judged more important. The same holds for `-w abc`, which `strtoul` accepts as 0 although spec.md §7 calls malformed input an argument error.
- How `HttpClient` and `UploadBody` share Requests: POST streams are modelled only in `UploadBody`, and the sessions in `HttpClient` are GETs.
- WINDOW_UPDATE and flow control inside nghttp2, and partial socket writes.
- Allocation failures inside nghttp2 other than `on_connect`'s, and unchecked `event_base_new` and `evdns_base_new`, which are taken to succeed.
- Time. A timeout is an event that may fire whenever one is set. Only the value handed to libevent is checked (`TimeoutInSeconds`).

## 5. Plan

Built so far, most important first:

1. `HttpClient`: the session engine, with the safety and liveness runs, shown to refine `RequestLifecycle`.
2. `SessionGrouping`: the pass run and the grouping finding.
3. `HeaderBlock`: the header block, host_port and the `-H` parsing, with the overflow and SNI findings.
4. `UploadBody`: the upload provider, with the stdin finding.
5. `CommandLine`: every option of `main`, with the C conversions, composed into `HeaderBlock` with the connection setup that uses the `Config`. It brings the timeout finding.
6. `communicate()`'s resources, TLS setup, NPN and `on_connect` failures, composed into `HeaderBlock`. It brings `ResourcesReleasedOnce` and the failures finding, which replaces the earlier abstract one in `SessionGrouping`.

Next:

7. A composition of `SessionGrouping` with `HttpClient`, so that the outcome of each session comes from the session model rather than from a choice.
8. POST requests in `HttpClient`: a data provider on each Request, with DATA frames from `UploadBody`'s read callback interleaved with responses, and a liveness property that holds under flow control.
