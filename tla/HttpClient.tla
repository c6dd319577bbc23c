------------------------------ MODULE HttpClient ------------------------------
(***************************************************************************)
(* One HttpClient session of src/src/nghttp.cc: the request registry       *)
(* (reqvec, path_cache, streams, complete), the nghttp2 callbacks that     *)
(* drive it, the libevent loop callbacks (eventcb, readcb, writecb) with   *)
(* their receive/send pumps, and an environment made of the network and an *)
(* HTTP/2 server.                                                          *)
(*                                                                         *)
(* The nghttp2 library is not part of the source; its session is modelled  *)
(* from its contract: a queue of outbound frames (obq), the set of open    *)
(* streams (sopen), the next client stream id and the GOAWAY flags.        *)
(* Requests are GETs (no data provider); the upload path is not here.      *)
(***************************************************************************)
EXTENDS Integers, Sequences, FiniteSets, SequencesExt

CONSTANTS
  Uris,        \* URIs, fragment already stripped (model values)
  UserUris,    \* the URIs communicate() is given for this origin, in order
  Multiply,    \* config.multiply
  GetAssets,   \* config.get_assets
  Links,       \* Links[u]: the links the HTML parser finds in the body of u
  UriParts,    \* UriParts[u]: the scheme, host and port fields http_parser
               \* finds in u; "" or port 0 for a field it does not find
  Thres,       \* config.output_upper_thres, counted in frames
  MaxChunks,   \* DATA frames the server sends on one stream at most
  MaxInFlight, \* frames from the server buffered for the client at most
  PushIds,     \* (even) stream ids the server may push
  Faults,      \* the misbehaviours of server and network that may occur
  TimeoutSet   \* config.timeout != -1

\* server resets, bad gzip bodies, server GOAWAY, invalid frames, EOF,
\* network errors
FaultKinds == {"rst", "badgzip", "goaway", "garbage", "eof", "neterror"}

ASSUME /\ UserUris \in Seq(Uris) /\ Multiply \in Nat
       /\ Links \in [Uris -> SUBSET Uris] /\ GetAssets \in BOOLEAN
       /\ Thres \in Nat /\ MaxChunks \in Nat \ {0}
       /\ MaxInFlight \in Nat \ {0}
       /\ UriParts \in [Uris -> [scheme : STRING, host : STRING,
                                  port : 0..65535]]
       /\ Faults \subseteq FaultKinds /\ TimeoutSet \in BOOLEAN

VARIABLES
  \* HttpClient
  reqvec, path_cache, streams, complete, goaways, state, alive,
  phase,       \* "idle" in the event loop, "recv" inside on_read's recv pump
  \* nghttp2 session
  obq, sopen, nextSid, goawaySent, goawayRecv,
  \* bufferevent and network
  tcp, outbuf, toClient, writePending,
  \* server
  srv, srvGoaway

sessVars == <<reqvec, path_cache, streams, complete, goaways, obq, sopen,
              nextSid, goawaySent, goawayRecv, outbuf>>
vars == <<reqvec, path_cache, streams, complete, goaways, state, alive,
          phase, obq, sopen, nextSid, goawaySent, goawayRecv,
          tcp, outbuf, toClient, writePending, srv, srvGoaway>>

NumUser == Len(UserUris) * Multiply
\* the client stream ids nghttp2 can hand out (1, 3, 5, ...)
MaxReqs == NumUser + NumUser * Cardinality(UNION {Links[u] : u \in Uris})
ClientSids == {2 * k - 1 : k \in 1..MaxReqs}
Sids == ClientSids \cup PushIds

Request == [uri : Uris, level : 0..1, inflater : BOOLEAN, parser : BOOLEAN,
            links : SUBSET Uris]
Preface == [t |-> "PREFACE"]
Settings == [t |-> "SETTINGS"]
Goaway == [t |-> "GOAWAY"]
HeadersOf(i) == [t |-> "HEADERS", req |-> i]
Rst(sid) == [t |-> "RST", sid |-> sid]

-----------------------------------------------------------------------------
(* The client's state as one record, so that a callback, and a pump of     *)
(* several callbacks, is a function of it.                                 *)
Sess == [reqs |-> reqvec, cache |-> path_cache, streams |-> streams,
         complete |-> complete, goaways |-> goaways, q |-> obq,
         sopen |-> sopen, nextSid |-> nextSid, goawaySent |-> goawaySent,
         goawayRecv |-> goawayRecv, outbuf |-> outbuf]
SetSess(s) ==
  /\ reqvec' = s.reqs /\ path_cache' = s.cache /\ streams' = s.streams
  /\ complete' = s.complete /\ goaways' = s.goaways /\ obq' = s.q
  /\ sopen' = s.sopen /\ nextSid' = s.nextSid /\ goawaySent' = s.goawaySent
  /\ goawayRecv' = s.goawayRecv /\ outbuf' = s.outbuf

\* Request(uri, u, data_prd, data_length, level)
NewRequest(u, lvl) == [uri |-> u, level |-> lvl, inflater |-> FALSE,
                       parser |-> FALSE, links |-> {}]

\* Mutant: the URI is never recorded in path_cache.
AddRequestNoCache(s, u, lvl) ==
  [s EXCEPT !.reqs = Append(@, NewRequest(u, lvl))]

\* HttpClient::add_request, taken when path_cache does not hold u
AddRequest(s, u, lvl) ==
  [s EXCEPT !.reqs = Append(@, NewRequest(u, lvl)),
            !.cache = IF Multiply = 1 THEN @ \cup {u} ELSE @]

\* submit_request: nghttp2_submit_request queues HEADERS for reqvec[i]
SubmitRequest(s, i) == [s EXCEPT !.q = Append(@, HeadersOf(i))]

\* fieldeq(uri1, u1, uri2, u2, field): two absent fields are equal, an
\* absent and a present one are not, two present ones are compared bytewise
FieldEq(u, v, f) == UriParts[u][f] = UriParts[v][f]

\* get_default_port: 443 for https, 80 for http, and 443 for any other
\* scheme or none
GetDefaultPort(u) ==
  IF UriParts[u].scheme = "https" THEN 443
  ELSE IF UriParts[u].scheme = "http" THEN 80
  ELSE 443

\* the port porteq compares: u.port when the port field is present
PortOf(u) == IF UriParts[u].port # 0 THEN UriParts[u].port
             ELSE GetDefaultPort(u)

\* porteq
PortEq(u, v) == PortOf(u) = PortOf(v)

\* Mutant: the scheme is not compared.
SameOriginNoScheme(u, v) == FieldEq(u, v, "host") /\ PortEq(u, v)

\* the same-origin test of update_html_parser: scheme, host and port
SameOrigin(u, v) ==
  FieldEq(u, v, "scheme") /\ FieldEq(u, v, "host") /\ PortEq(u, v)

\* Mutant: the submit is not conditional on add_request's result.
AdmitAssetSubmitAlways(s, p, u) ==
  IF SameOrigin(u, s.reqs[p].uri)
  THEN IF u \notin s.cache
       THEN SubmitRequest(AddRequest(s, u, s.reqs[p].level + 1),
                          Len(s.reqs) + 1)
       ELSE SubmitRequest(s, Len(s.reqs))
  ELSE s

\* Mutant: the request submitted is the one before the new one.
AdmitAssetSubmitPrev(s, p, u) ==
  IF SameOrigin(u, s.reqs[p].uri) /\ u \notin s.cache
  THEN SubmitRequest(AddRequest(s, u, s.reqs[p].level + 1), Len(s.reqs))
  ELSE s

\* one link u reported by the parser of reqvec[p]
AdmitAsset(s, p, u) ==
  IF SameOrigin(u, s.reqs[p].uri) /\ u \notin s.cache
  THEN SubmitRequest(AddRequest(s, u, s.reqs[p].level + 1), Len(s.reqs) + 1)
  ELSE s

\* update_html_parser: the parser of reqvec[i] reports the links L
UpdateHtmlParser(s, i, L) ==
  IF ~s.reqs[i].parser THEN s
  ELSE FoldLeft(LAMBDA acc, u : AdmitAsset(acc, i, u),
                [s EXCEPT !.reqs[i].links = @ \ L], SetToSeq(L))

\* check_response_header for reqvec[i]; gz: content-encoding gzip/deflate
CheckResponseHeader(s, i, gz) ==
  LET newParser == GetAssets /\ s.reqs[i].level = 0 /\ ~s.reqs[i].parser
  IN [s EXCEPT !.reqs[i].inflater = @ \/ gz,
               !.reqs[i].parser = @ \/ newParser,
               !.reqs[i].links = IF newParser THEN Links[s.reqs[i].uri]
                                 ELSE @]

\* on_data_chunk_recv_callback; bad: the inflater fails on this chunk
OnDataChunkRecv(s, sid, bad, L) ==
  IF sid \notin DOMAIN s.streams THEN s
  ELSE LET i == s.streams[sid]
           s1 == UpdateHtmlParser(s, i, L)
       IN IF s.reqs[i].inflater /\ bad
          THEN [s1 EXCEPT !.q = Append(@, Rst(sid))]
          ELSE s1

\* nghttp2_submit_goaway when all_requests_processed()
GoawayIfDone(s) ==
  IF s.complete = Len(s.reqs)
  THEN [s EXCEPT !.goaways = @ + 1, !.q = Append(@, Goaway)]
  ELSE s

\* Mutant: complete is counted and tested before the final parser tick.
OnStreamCloseCountFirst(s, sid) ==
  IF sid \notin DOMAIN s.streams THEN s
  ELSE LET i == s.streams[sid]
           s1 == GoawayIfDone([s EXCEPT !.complete = @ + 1])
       IN UpdateHtmlParser(s1, i, s1.reqs[i].links)

\* Mutant: a close of a stream without user data is counted.
OnStreamCloseCountUnknown(s, sid) ==
  IF sid \notin DOMAIN s.streams
  THEN [s EXCEPT !.complete = @ + 1]
  ELSE LET i == s.streams[sid]
       IN GoawayIfDone([UpdateHtmlParser(s, i, s.reqs[i].links)
                          EXCEPT !.complete = @ + 1])

\* Mutant: no GOAWAY is submitted when the last request completes.
OnStreamCloseNoGoaway(s, sid) ==
  IF sid \notin DOMAIN s.streams THEN s
  ELSE LET i == s.streams[sid]
       IN [UpdateHtmlParser(s, i, s.reqs[i].links) EXCEPT !.complete = @ + 1]

\* on_stream_close_callback: final parser tick, count, GOAWAY when all done
OnStreamClose(s, sid) ==
  IF sid \notin DOMAIN s.streams THEN s
  ELSE LET i == s.streams[sid]
       IN GoawayIfDone([UpdateHtmlParser(s, i, s.reqs[i].links)
                          EXCEPT !.complete = @ + 1])

\* Mutant: the close callback runs for a stream already closed.
CloseStreamAlways(s, sid) ==
  OnStreamClose([s EXCEPT !.sopen = @ \ {sid}], sid)

\* nghttp2 closes an open stream and calls on_stream_close_callback
CloseStream(s, sid) ==
  IF sid \in s.sopen
  THEN OnStreamClose([s EXCEPT !.sopen = @ \ {sid}], sid)
  ELSE s

AllRequestsProcessed == complete = Len(reqvec)

-----------------------------------------------------------------------------
(* nghttp2_session_send with client_send_callback (HttpClient::sendcb) and *)
(* on_frame_send_callback2: frames leave obq in order until it is empty or *)
(* sendcb returns WOULDBLOCK.                                               *)

\* sendcb: WOULDBLOCK once the output buffer exceeds output_upper_thres
SendCbAccepts(out) == Len(out) <= Thres

\* one frame goes to the output buffer, and the callbacks its sending makes
SendFrame(s, f) ==
  LET s1 == [s EXCEPT !.q = Tail(@)] IN
  CASE f.t = "HEADERS"
         -> \* the stream opens; check_stream_id binds it to the Request
            [s1 EXCEPT !.outbuf = Append(@, [t |-> "HEADERS",
                                             sid |-> s.nextSid]),
                       !.sopen = @ \cup {s.nextSid},
                       !.streams = @ @@ (s.nextSid :> f.req),
                       !.nextSid = @ + 2]
    [] f.t = "RST"
         -> CloseStream([s1 EXCEPT !.outbuf = Append(@, f)], f.sid)
    [] OTHER
         -> [s1 EXCEPT !.outbuf = Append(@, f),
                       !.goawaySent = @ \/ f = Goaway]

RECURSIVE SendPump(_)
SendPump(s) ==
  IF s.q = <<>> THEN s
  ELSE LET f == Head(s.q) IN
       IF f.t = "HEADERS" /\ (s.goawaySent \/ s.goawayRecv)
       THEN \* no stream opens after GOAWAY: the request is dropped unsent
            SendPump([s EXCEPT !.q = Tail(@)])
       ELSE IF ~SendCbAccepts(s.outbuf) THEN s
       ELSE SendPump(SendFrame(s, f))

\* nghttp2_session_want_read / nghttp2_session_want_write
WantRead(s) == ~(s.goawaySent \/ s.goawayRecv) \/ s.sopen # {}
WantWrite(s) == s.q # <<>> /\ (~(s.goawaySent \/ s.goawayRecv) \/ s.sopen # {})

\* on_read / on_write: after the pump, the session is done when it wants
\* neither to read nor to write, and readcb / writecb disconnect
Quiescent(s) == ~WantRead(s) /\ ~WantWrite(s)

-----------------------------------------------------------------------------
(* communicate(): every URI is admitted Multiply times, in order.          *)
Admissions == [k \in 1..NumUser |-> UserUris[(k - 1) \div Multiply + 1]]
InitialSess ==
  FoldLeft(LAMBDA s, u : IF u \in s.cache THEN s ELSE AddRequest(s, u, 0),
           [reqs |-> <<>>, cache |-> {}], Admissions)

Init ==
  /\ reqvec = InitialSess.reqs
  /\ path_cache = InitialSess.cache
  /\ streams = [sid \in {} |-> 0]
  /\ complete = 0
  /\ goaways = 0
  /\ state = "IDLE"
  /\ alive = TRUE
  /\ phase = "idle"
  /\ obq = <<>>
  /\ sopen = {}
  /\ nextSid = 1
  /\ goawaySent = FALSE
  /\ goawayRecv = FALSE
  /\ tcp = "connecting"
  /\ outbuf = <<>>
  /\ toClient = <<>>
  /\ writePending = FALSE
  /\ srv = [sid \in {} |-> 0]
  /\ srvGoaway = FALSE

\* HttpClient::disconnect: session deleted, bufferevent freed; the loop ends
Disconnect ==
  /\ alive' = FALSE
  /\ state' = "IDLE"
  /\ phase' = "idle"
  /\ tcp' = "closed"

LoopIdle == alive /\ phase = "idle"

-----------------------------------------------------------------------------
(* libevent callbacks                                                       *)

\* eventcb(BEV_EVENT_CONNECTED) and on_connect: preface, SETTINGS, every
\* request of reqvec, then on_write, whose result eventcb ignores
EventConnected ==
  /\ LoopIdle /\ tcp = "connecting"
  /\ tcp' = "up"
  /\ state' = "CONNECTED"
  /\ SetSess(SendPump([Sess EXCEPT
                         !.outbuf = Append(@, Preface),
                         !.q = <<Settings>> \o [i \in 1..Len(reqvec) |->
                                                  HeadersOf(i)]]))
  /\ UNCHANGED <<alive, phase, toClient, writePending, srv, srvGoaway>>

envEventKeep == <<reqvec, path_cache, streams, complete, goaways, obq, sopen,
                  nextSid, goawaySent, goawayRecv, outbuf, toClient,
                  writePending, srv, srvGoaway>>

\* eventcb(BEV_EVENT_ERROR): connect failure or network error
EventError ==
  /\ LoopIdle /\ "neterror" \in Faults /\ tcp \in {"connecting", "up"}
  /\ Disconnect /\ UNCHANGED envEventKeep

\* eventcb(BEV_EVENT_TIMEOUT): the read or write timeout of config.timeout
EventTimeout ==
  /\ LoopIdle /\ TimeoutSet /\ tcp \in {"connecting", "up"}
  /\ Disconnect /\ UNCHANGED envEventKeep

\* eventcb(BEV_EVENT_EOF): the server closed the connection, after the data
\* it sent before it has been read
EventEof ==
  /\ LoopIdle /\ tcp = "up" /\ toClient = <<>>
  /\ "eof" \in Faults \/ srvGoaway
  /\ Disconnect /\ UNCHANGED envEventKeep

\* readcb: on_read starts its receive pump
ReadCb ==
  /\ LoopIdle /\ state = "CONNECTED" /\ toClient # <<>>
  /\ phase' = "recv"
  /\ UNCHANGED sessVars
  /\ UNCHANGED <<state, alive, tcp, toClient, writePending, srv, srvGoaway>>

\* the end of on_read / on_write: the send pump, then disconnect if the
\* session is quiescent
PumpAndCheck ==
  LET s == SendPump(Sess) IN
  /\ SetSess(s)
  /\ IF Quiescent(s) THEN Disconnect
     ELSE phase' = "idle" /\ UNCHANGED <<state, alive, tcp>>

\* Mutant: writecb's test of the output buffer is inverted.
WriteCbInverted ==
  /\ LoopIdle /\ writePending
  /\ writePending' = FALSE
  /\ IF outbuf = <<>>
     THEN UNCHANGED sessVars /\ UNCHANGED <<state, alive, phase, tcp>>
     ELSE PumpAndCheck
  /\ UNCHANGED <<toClient, srv, srvGoaway>>

\* writecb: returns at once while the output buffer is not empty, else
\* on_write
WriteCb ==
  /\ LoopIdle /\ writePending
  /\ writePending' = FALSE
  /\ IF outbuf # <<>>
     THEN UNCHANGED sessVars /\ UNCHANGED <<state, alive, phase, tcp>>
     ELSE PumpAndCheck
  /\ UNCHANGED <<toClient, srv, srvGoaway>>

-----------------------------------------------------------------------------
(* nghttp2_session_recv in on_read: one incoming frame per step, with the  *)
(* callbacks it makes.                                                      *)
InRecv(type) == alive /\ phase = "recv" /\ toClient # <<>>
                /\ Head(toClient).t = type
recvKeep == <<state, alive, phase, tcp, writePending, srv, srvGoaway>>

\* reply HEADERS: on_frame_recv_callback2 and check_response_header
RecvReply ==
  LET f == Head(toClient) IN
  /\ InRecv("REPLY")
  /\ toClient' = Tail(toClient)
  /\ IF f.sid \in sopen /\ f.sid \in DOMAIN streams
     THEN SetSess(CheckResponseHeader(Sess, streams[f.sid], f.gz))
     ELSE UNCHANGED sessVars
  /\ UNCHANGED recvKeep

\* DATA: on_data_chunk_recv_callback, in which the parser reports any of
\* the links it has not reported yet, then on_stream_close_callback if the
\* frame ends the stream (the request's own END_STREAM went with HEADERS)
RecvData ==
  LET f == Head(toClient) IN
  /\ InRecv("DATA")
  /\ toClient' = Tail(toClient)
  /\ IF f.sid \in sopen
     THEN \E L \in SUBSET (IF f.sid \in DOMAIN streams
                           THEN reqvec[streams[f.sid]].links ELSE {}) :
            LET s1 == OnDataChunkRecv(Sess, f.sid, f.bad, L) IN
            SetSess(IF f.fin THEN CloseStream(s1, f.sid) ELSE s1)
     ELSE UNCHANGED sessVars
  /\ UNCHANGED recvKeep

\* RST_STREAM from the server closes the stream
RecvRst ==
  /\ InRecv("RST")
  /\ toClient' = Tail(toClient)
  /\ SetSess(CloseStream(Sess, Head(toClient).sid))
  /\ UNCHANGED recvKeep

\* PUSH_PROMISE: a stream the client never asked for, with no user data
RecvPush ==
  /\ InRecv("PUSH")
  /\ toClient' = Tail(toClient)
  /\ SetSess([Sess EXCEPT !.sopen = @ \cup {Head(toClient).sid}])
  /\ UNCHANGED recvKeep

\* GOAWAY from the server: no new stream may be opened any more
RecvGoaway ==
  /\ InRecv("GOAWAY")
  /\ toClient' = Tail(toClient)
  /\ SetSess([Sess EXCEPT !.goawayRecv = TRUE])
  /\ UNCHANGED recvKeep

\* a frame nghttp2 cannot accept: nghttp2_session_recv fails, on_read
\* returns the error and readcb disconnects
RecvBad ==
  /\ InRecv("BAD")
  /\ toClient' = Tail(toClient)
  /\ Disconnect
  /\ UNCHANGED sessVars /\ UNCHANGED <<writePending, srv, srvGoaway>>

\* client_recv_callback finds the input empty: on_read's send pump
RecvDone ==
  /\ alive /\ phase = "recv" /\ toClient = <<>>
  /\ PumpAndCheck
  /\ UNCHANGED <<toClient, writePending, srv, srvGoaway>>

-----------------------------------------------------------------------------
(* The network and the server.  libevent moves bytes between the socket    *)
(* and the bufferevent's buffers only while the loop is idle.              *)
Env == LoopIdle /\ tcp = "up"
envKeep == <<reqvec, path_cache, streams, complete, goaways, state, alive,
             phase, obq, sopen, nextSid, goawaySent, goawayRecv, tcp>>

\* the server's view of one frame from the client
SrvRecv(sv, f) ==
  CASE f.t = "HEADERS" /\ ~srvGoaway
         -> sv @@ (f.sid :> [st |-> "open", n |-> 0, gz |-> FALSE])
    [] f.t = "RST" /\ f.sid \in DOMAIN sv
         -> [sv EXCEPT ![f.sid].st = "closed"]
    [] OTHER -> sv

\* the output buffer is written to the socket; writecb is scheduled
Transmit ==
  /\ Env /\ outbuf # <<>>
  /\ outbuf' = <<>>
  /\ writePending' = TRUE
  /\ srv' = FoldLeft(SrvRecv, srv, outbuf)
  /\ UNCHANGED <<toClient, srvGoaway>> /\ UNCHANGED envKeep

SrvSend(f) == /\ Len(toClient) < MaxInFlight
              /\ toClient' = Append(toClient, f)
srvKeep == <<outbuf, writePending>>

\* response HEADERS, with or without a gzip content-encoding (which only
\* matters to a body the inflater rejects)
SrvReply(sid, gz) ==
  /\ Env /\ sid \in DOMAIN srv /\ srv[sid].st = "open"
  /\ gz => "badgzip" \in Faults
  /\ srv' = [srv EXCEPT ![sid].st = "replied", ![sid].gz = gz]
  /\ SrvSend([t |-> "REPLY", sid |-> sid, gz |-> gz])
  /\ UNCHANGED srvGoaway /\ UNCHANGED srvKeep /\ UNCHANGED envKeep

\* a DATA frame; fin ends the stream; bad: a body the inflater rejects
SrvData(sid, bad, fin) ==
  /\ Env /\ sid \in DOMAIN srv /\ srv[sid].st = "replied"
  /\ fin \/ srv[sid].n + 1 < MaxChunks
  /\ bad => srv[sid].gz
  /\ srv' = [srv EXCEPT ![sid].n = @ + 1,
                        ![sid].st = IF fin THEN "closed" ELSE @]
  /\ SrvSend([t |-> "DATA", sid |-> sid, bad |-> bad, fin |-> fin])
  /\ UNCHANGED srvGoaway /\ UNCHANGED srvKeep /\ UNCHANGED envKeep

SrvRst(sid) ==
  /\ Env /\ "rst" \in Faults /\ sid \in DOMAIN srv /\ srv[sid].st # "closed"
  /\ srv' = [srv EXCEPT ![sid].st = "closed"]
  /\ SrvSend([t |-> "RST", sid |-> sid])
  /\ UNCHANGED srvGoaway /\ UNCHANGED srvKeep /\ UNCHANGED envKeep

\* a pushed stream, promised on a client stream being answered
SrvPush(pid) ==
  /\ Env /\ pid \notin DOMAIN srv /\ ~srvGoaway
  /\ \E sid \in DOMAIN srv : sid \in ClientSids /\ srv[sid].st = "replied"
  /\ srv' = srv @@ (pid :> [st |-> "replied", n |-> 0, gz |-> FALSE])
  /\ SrvSend([t |-> "PUSH", sid |-> pid])
  /\ UNCHANGED srvGoaway /\ UNCHANGED srvKeep /\ UNCHANGED envKeep

\* GOAWAY: the server takes no new stream and will close the connection
SrvGoaway ==
  /\ Env /\ "goaway" \in Faults /\ ~srvGoaway
  /\ srvGoaway' = TRUE
  /\ SrvSend(Goaway)
  /\ UNCHANGED srv /\ UNCHANGED srvKeep /\ UNCHANGED envKeep

\* bytes that are no valid HTTP/2 frame
SrvGarbage ==
  /\ Env /\ "garbage" \in Faults /\ \A k \in DOMAIN toClient : toClient[k].t # "BAD"
  /\ SrvSend([t |-> "BAD"])
  /\ UNCHANGED <<srv, srvGoaway>> /\ UNCHANGED srvKeep /\ UNCHANGED envKeep

Server ==
  \/ \E sid \in Sids, gz \in BOOLEAN : SrvReply(sid, gz)
  \/ \E sid \in Sids, bad, fin \in BOOLEAN : SrvData(sid, bad, fin)
  \/ \E sid \in Sids : SrvRst(sid)
  \/ \E pid \in PushIds : SrvPush(pid)
  \/ SrvGoaway \/ SrvGarbage

-----------------------------------------------------------------------------
RecvStep == RecvReply \/ RecvData \/ RecvRst \/ RecvPush \/ RecvGoaway
            \/ RecvBad \/ RecvDone

\* what the single-threaded event loop runs once its events are ready
ClientStep == EventConnected \/ ReadCb \/ WriteCb \/ RecvStep

Next ==
  \/ ClientStep
  \/ EventError \/ EventTimeout \/ EventEof
  \/ Transmit \/ Server

\* the server answers every stream it accepted
Serve(sid) == \/ \E gz \in BOOLEAN : SrvReply(sid, gz)
              \/ \E bad, fin \in BOOLEAN : SrvData(sid, bad, fin)

Fairness ==
  /\ WF_vars(ClientStep)
  /\ WF_vars(Transmit)
  /\ \A sid \in Sids : WF_vars(Serve(sid))
  /\ WF_vars(srvGoaway /\ EventEof)

Spec == Init /\ [][Next]_vars
FairSpec == Spec /\ Fairness

-----------------------------------------------------------------------------
(* Properties                                                               *)

Frame == [t : {"SETTINGS", "GOAWAY", "PREFACE", "BAD"}]
         \cup [t : {"HEADERS"}, req : Nat] \cup [t : {"HEADERS", "RST", "PUSH"}, sid : Sids]
         \cup [t : {"REPLY"}, sid : Sids, gz : BOOLEAN]
         \cup [t : {"DATA"}, sid : Sids, bad : BOOLEAN, fin : BOOLEAN]

TypeOK ==
  /\ reqvec \in Seq(Request)
  /\ path_cache \subseteq Uris
  /\ DOMAIN streams \subseteq ClientSids
  /\ \A sid \in DOMAIN streams : streams[sid] \in 1..Len(reqvec)
  /\ complete \in 0..Len(reqvec) /\ goaways \in Nat
  /\ state \in {"IDLE", "CONNECTED"} /\ alive \in BOOLEAN
  /\ phase \in {"idle", "recv"}
  /\ obq \in Seq(Frame) /\ outbuf \in Seq(Frame) /\ toClient \in Seq(Frame)
  /\ sopen \subseteq Sids /\ nextSid \in Nat
  /\ goawaySent \in BOOLEAN /\ goawayRecv \in BOOLEAN
  /\ tcp \in {"connecting", "up", "closed"} /\ writePending \in BOOLEAN
  /\ DOMAIN srv \subseteq Sids
  /\ \A sid \in DOMAIN srv : srv[sid] \in [st : {"open", "replied", "closed"},
                                           n : 0..MaxChunks, gz : BOOLEAN]
  /\ srvGoaway \in BOOLEAN

\* How often reqvec[i] has been given to nghttp2: HEADERS still queued plus
\* streams it has been bound to by check_stream_id.
SubmittedTimes(i) ==
  Cardinality({sid \in DOMAIN streams : streams[sid] = i})
    + Cardinality({k \in DOMAIN obq : obq[k] = HeadersOf(i)})

(* I1. Every request is submitted at most once over the session, whether by *)
(* on_connect or by update_html_parser for an asset, so no two streams are  *)
(* bound to the same Request and no request is bound twice.                 *)
UniqueStreamBinding == \A i \in 1..Len(reqvec) : SubmittedTimes(i) <= 1

(* I2. complete counts exactly the streams bound to a Request that have     *)
(* closed: a close reported by nghttp2 for a pushed stream, a stream the  *)
(* client resets after a decode error while the server ends it, or a DATA *)
(* frame arriving after the client's RST never count twice or count for  *)
(* nothing.                                                                *)
CompleteAccounting ==
  complete = Cardinality({sid \in DOMAIN streams : sid \notin sopen})

(* I10. on_stream_close_callback submits GOAWAY at most once, and only when *)
(* every request of reqvec, assets found by the final parser tick included, *)
(* has been sent and has closed.                                           *)
GoawayAfterAllDone ==
  /\ goaways <= 1
  /\ goaways = 1 =>
       \A i \in 1..Len(reqvec) :
         \E sid \in DOMAIN streams : streams[sid] = i /\ sid \notin sopen

(* I8. Without -m, add_request's path_cache lets no URI into reqvec twice,  *)
(* whether it comes from the command line or from a link in a page.         *)
NoDuplicateRequests ==
  Multiply = 1 =>
    \A i, j \in 1..Len(reqvec) : i # j => reqvec[i].uri # reqvec[j].uri

(* Against a server that answers every stream, the loop ends (the session  *)
(* becomes quiescent after the GOAWAY and on_read/on_write disconnect) with *)
(* every request processed: assets found late and WOULDBLOCK pauses of the *)
(* send pump included.                                                      *)
ProcessedThenExit == <>(~alive /\ AllRequestsProcessed)

(* Once every request of a connected session has been processed, a GOAWAY  *)
(* goes out or the connection ends: the client does not sit idle on an open *)
(* connection.                                                              *)
DoneLeadsToGoaway ==
  (state = "CONNECTED" /\ AllRequestsProcessed) ~> (goawaySent \/ ~alive)

-----------------------------------------------------------------------------
(* Refinement: the session implements RequestLifecycle.  A request is      *)
(* queued until check_stream_id binds a stream to it, open while a stream  *)
(* bound to it is open in nghttp2, and closed once its streams have        *)
(* closed; the GOAWAY is on_stream_close_callback's nghttp2_submit_goaway. *)

\* the lifecycle status of reqvec[i]
ReqStatus(i) ==
  LET bound == {sid \in DOMAIN streams : streams[sid] = i} IN
  IF bound = {} THEN "queued"
  ELSE IF bound \cap sopen # {} THEN "open"
  ELSE "closed"

\* The origin of a URI as RFC 6454 defines it, the reference the client's
\* same-origin test is checked against: scheme, host and port, the port
\* defaulted from the scheme's well-known port; a URI without an http or
\* https scheme and a host has an origin of its own.
WellKnownPort == [http |-> 80, https |-> 443]
RefOrigin ==
  [u \in Uris |->
     IF UriParts[u].scheme \in DOMAIN WellKnownPort /\ UriParts[u].host # ""
     THEN <<UriParts[u].scheme, UriParts[u].host,
            IF UriParts[u].port # 0 THEN UriParts[u].port
            ELSE WellKnownPort[UriParts[u].scheme]>>
     ELSE <<u>>]

Life == INSTANCE RequestLifecycle
          WITH Origin <- RefOrigin,
               reqs <- [i \in 1..Len(reqvec) |->
                          [uri |-> reqvec[i].uri, level |-> reqvec[i].level]],
               status <- [i \in 1..Len(reqvec) |-> ReqStatus(i)],
               goaway <- goaways > 0,
               live <- alive

(* Every step of the client, whatever the server and the network do, is a *)
(* step of RequestLifecycle: requests are only appended, each is sent once *)
(* and then closed and never reopened, an asset is admitted only from a    *)
(* page whose stream is still open when its data or its close arrives, and *)
(* the GOAWAY is submitted only once every request has closed.             *)
LifecycleRefined == Life!Spec

===============================================================================
