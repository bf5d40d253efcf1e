-------------------------------- MODULE Http --------------------------------
(***************************************************************************)
(* The incremental HTTP decoders of protocol/: CoProtocolHttpServer::decode *)
(* (requests read by CoCallbackRequest::request_read) and                  *)
(* CoProtocolHttpClient::decode (responses read by upstream_read), with     *)
(* the line parsers of co_protocol_http.cpp they call.                      *)
(*                                                                         *)
(* Each side is one keepalive connection: the peer sends its messages one  *)
(* at a time, each after the previous one was answered, and the bytes      *)
(* reach the reader in reads of any length (tcp_read returns whatever the  *)
(* socket holds).  Every read is followed by a decode of the whole          *)
(* CoBuffer, which erases what it parsed.                                  *)
(*                                                                         *)
(* Bytes are abstracted to what the parsers tell apart: CR, LF, a body     *)
(* byte, and one symbol for the text of each kind of line (a request line, *)
(* an "HTTP/..." status line, "Content-Length: n", "Transfer-Encoding:     *)
(* chunked", a chunk-size line "<hex n>").  The text of a line is one      *)
(* symbol because the parsers only look at it once its LF has arrived,     *)
(* and only at its first character: a read that ends inside it behaves    *)
(* like one that ends just before its CR.                                  *)
(***************************************************************************)
EXTENDS Integers, Sequences, SequencesExt

CONSTANTS
    Requests,    \* the requests the client sends, in order
    Responses    \* the responses the backend sends, in order

Side == {"srv", "cli"}   \* the server decoding requests, the upstream client decoding responses

Byte(k) == [k |-> k, n |-> 0]
CR == Byte("CR")
LF == Byte("LF")
BB == Byte("B")          \* a body byte
SL == Byte("SL")         \* "GET /path HTTP/1.1"
ST == Byte("ST")         \* "HTTP/1.1 200 OK"
XX == Byte("XX")         \* a line that does not start with "HTTP"
TE == Byte("TE")         \* "Transfer-Encoding: chunked"
CLH(n) == [k |-> "CL", n |-> n]   \* "Content-Length: n"
SZ(n) == [k |-> "SZ", n |-> n]    \* a chunk-size line, n in hex

(* A message: its start line, how its body is framed, and the sizes of   *)
(* its body (one size, or one per chunk).                                 *)
Msg == [start: {SL, ST, XX}, mode: {"none", "length", "chunked"}, sizes: Seq(Nat)]

Line(x) == <<x, CR, LF>>
Bytes(n) == [i \in 1..n |-> BB]
BodyOf(m) == FlattenSeq([i \in DOMAIN m.sizes |-> Bytes(m.sizes[i])])
Chunk(n) == Line(SZ(n)) \o Bytes(n) \o <<CR, LF>>

(* The bytes a well-formed peer writes for m.  A chunked body ends with  *)
(* the last chunk "0" CR LF and the empty line CR LF after it, the two    *)
(* bytes parse_content_chunked waits for after every chunk size.          *)
Wire(m) ==
    Line(m.start)
    \o (CASE m.mode = "length"  -> Line(CLH(Len(BodyOf(m))))
          [] m.mode = "chunked" -> Line(TE)
          [] OTHER              -> <<>>)
    \o <<CR, LF>>
    \o (IF m.mode = "chunked"
        THEN FlattenSeq([i \in DOMAIN m.sizes |-> Chunk(m.sizes[i])]) \o Chunk(0)
        ELSE BodyOf(m))

VARIABLES
    wire,   \* bytes the peer has written and the connection has not read
    buf,    \* the connection's CoBuffer
    msg,    \* the CoHTTPRequest / CoHTTPResponse being decoded
    pc,     \* "read": in the read loop; "process": decoded; "error": failed
    sent,   \* messages the peer has written
    done    \* messages the connection has finished with

vars == <<wire, buf, msg, pc, sent, done>>

Peer(s) == IF s = "srv" THEN Requests ELSE Responses

(* A fresh CoProtocolHttp: m_parseStatus eStartLine, m_contentRemain 0,  *)
(* m_contentChunked 0, no headers, empty content.  cl = -1: no           *)
(* Content-Length header.                                                 *)
Fresh == [status |-> "StartLine", remain |-> 0, chunked |-> FALSE,
          line |-> <<>>, cl |-> -1, te |-> FALSE, content |-> <<>>]

(* memchr(buffer + from, '\n', len - from): the length of the line that  *)
(* starts after position from, LF included, or 0 when no LF has arrived. *)
LineLen(b, from) ==
    LET i == SelectInSubSeq(b, from + 1, Len(b), LAMBDA x : x = LF)
    IN IF i = 0 THEN 0 ELSE i - from

(* parse_startline: 0 while no LF has arrived, else the line's length;   *)
(* the response parser answers -1 when the line does not start with      *)
(* "HTTP".  The request parser accepts any line.                          *)
parse_startline(s, b) ==
    LET n == LineLen(b, 0)
    IN IF n > 0 /\ s = "cli" /\ b[1] # ST THEN -1 ELSE n

(* parse_header on one complete line: hasStrsep(&pos, ":") cuts the name *)
(* at the first ':', so only a line that starts with the header's own    *)
(* text sets Content-Length or Transfer-Encoding (add_header overwrites). *)
parse_header(m, line) ==
    CASE line[1].k = "CL" -> [m EXCEPT !.cl = line[1].n]
      [] line[1].k = "TE" -> [m EXCEPT !.te = TRUE]
      [] OTHER            -> m

(* The end of the header block: eContent, and m_contentRemain from        *)
(* Content-Length (atoi); without it the client decoder turns to chunked  *)
(* when Transfer-Encoding is "chunked".                                    *)
EndHeader(s, m) ==
    [m EXCEPT !.status  = "Content",
              !.remain  = IF m.cl >= 0 THEN m.cl ELSE @,
              !.chunked = s = "cli" /\ m.cl < 0 /\ m.te]

(* The header loop of decode:                                             *)
(*   for (headerLen = 1; eHeader == status && headerLen > 0 && p < len;   *)
(*        p += headerLen) { headerLen = parse_header(...);                *)
(*        if (buffer[p] is '\r' or '\n') status = eContent ... }          *)
(* The first byte of the line is tested whether or not its LF has come.   *)
RECURSIVE HeaderLoop(_, _, _, _, _)
HeaderLoop(s, m, b, p, hl) ==
    IF m.status # "Header" \/ hl <= 0 \/ p >= Len(b) THEN [m |-> m, p |-> p]
    ELSE LET n  == LineLen(b, p)
             m1 == IF n > 0 THEN parse_header(m, SubSeq(b, p + 1, p + n)) ELSE m
             m2 == IF b[p + 1] \in {CR, LF} THEN EndHeader(s, m1) ELSE m1
         IN HeaderLoop(s, m2, b, p + n, n)

(* parse_content: take up to m_contentRemain bytes; eCompleted once it is *)
(* down to zero (at once when there is no Content-Length).                *)
parse_content(m, b, p) ==
    LET take == IF m.remain > 0 THEN IF Len(b) - p < m.remain THEN Len(b) - p ELSE m.remain
                ELSE 0
        m1   == [m EXCEPT !.content = @ \o SubSeq(b, p + 1, p + take),
                          !.remain  = @ - take]
    IN [m |-> IF m1.remain <= 0 THEN [m1 EXCEPT !.status = "Completed"] ELSE m1,
        p |-> p + take, err |-> FALSE]

(* The hex value of the text before a chunk-size line's CR: the empty     *)
(* text is 0, a character that is not a hex digit is an error (-1).       *)
HexOf(t) == CASE t = <<>>                   -> 0
              [] Len(t) = 1 /\ t[1].k = "SZ" -> t[1].n
              [] OTHER                      -> -1

(* parse_content_chunked from position p: each pass needs a whole chunk   *)
(* (size line, data and the two bytes after it) or stops with what it has *)
(* parsed; a size line that is empty of CR or holds a non-hex character   *)
(* fails; the size-0 chunk completes the message.  The two bytes after    *)
(* the data are skipped unchecked.                                        *)
RECURSIVE Chunked(_, _, _, _)
Chunked(m, b, p, parsed) ==
    LET o   == p + parsed
        n   == LineLen(b, o)
        pos == o + n                      \* the LF
        sz  == HexOf(SubSeq(b, o + 1, pos - 2))
    IN CASE n = 0 -> [m |-> m, p |-> o, err |-> FALSE]
         [] n = 1 \/ b[pos - 1] # CR \/ sz < 0 -> [m |-> m, p |-> o, err |-> TRUE]
         [] Len(b) - o < n + sz + 2 -> [m |-> m, p |-> o, err |-> FALSE]
         [] sz = 0 -> [m |-> [m EXCEPT !.status = "Completed"], p |-> o + n + 2, err |-> FALSE]
         [] OTHER -> Chunked([m EXCEPT !.content = @ \o SubSeq(b, pos + 1, pos + sz)],
                             b, p, parsed + n + sz + 2)

(* The content step of decode: nothing before eContent; the client       *)
(* decoder parses a chunked body with parse_content_chunked, every other  *)
(* body with parse_content.                                               *)
ContentStep(m, b, p) ==
    CASE m.status # "Content" -> [m |-> m, p |-> p, err |-> FALSE]
      [] m.chunked           -> Chunked(m, b, p, 0)
      [] OTHER               -> parse_content(m, b, p)

(* CoBuffer::buffer_erase: drop the first n bytes (all of them when n is  *)
(* at least the data size).                                               *)
buffer_erase(b, n) == IF n >= Len(b) THEN <<>> ELSE SubSeq(b, n + 1, Len(b))

(* buffer_expand(4096), tcp_read into the free space, buffer_size_expand: *)
(* the bytes read follow the data already held (the buffer compacts or    *)
(* grows so that they fit; a failed realloc is not modelled).             *)
ReadInto(b, d) == b \o d

(* CoProtocolHttpServer::decode and CoProtocolHttpClient::decode, run on  *)
(* the whole CoBuffer after each read: the new message, the buffer after  *)
(* buffer_erase(parsedLen) (or reset on a bad start line) and the result. *)
decode(s, m, b) ==
    IF m.status = "Completed" THEN [m |-> m, b |-> b, ret |-> "OK"]
    ELSE IF m.status = "StartLine" /\ parse_startline(s, b) <= 0
    THEN IF parse_startline(s, b) = -1 THEN [m |-> m, b |-> <<>>, ret |-> "Error"]
         ELSE [m |-> m, b |-> b, ret |-> "AGAIN"]
    ELSE LET sl == IF m.status = "StartLine" THEN parse_startline(s, b) ELSE 0
             m1 == IF m.status = "StartLine"
                   THEN [m EXCEPT !.status = "Header", !.line = SubSeq(b, 1, sl)] ELSE m
             h  == HeaderLoop(s, m1, b, sl, 1)
             c  == ContentStep(h.m, b, h.p)
         IN IF c.err THEN [m |-> c.m, b |-> b, ret |-> "Error"]
            ELSE [m |-> c.m, b |-> buffer_erase(b, c.p),
                  ret |-> IF c.m.status = "Completed" THEN "OK" ELSE "AGAIN"]

-----------------------------------------------------------------------------
Init ==
    /\ wire = [s \in Side |-> <<>>]
    /\ buf  = [s \in Side |-> <<>>]
    /\ msg  = [s \in Side |-> Fresh]
    /\ pc   = [s \in Side |-> "read"]
    /\ sent = [s \in Side |-> 0]
    /\ done = [s \in Side |-> 0]

(* The peer writes its next message once the previous one is answered.    *)
Send(s) ==
    /\ pc[s] # "error" /\ sent[s] = done[s] /\ sent[s] < Len(Peer(s))
    /\ wire' = [wire EXCEPT ![s] = @ \o Wire(Peer(s)[sent[s] + 1])]
    /\ sent' = [sent EXCEPT ![s] = @ + 1]
    /\ UNCHANGED <<buf, msg, pc, done>>

(* One pass of the read loop of request_read / upstream_read:             *)
(* buffer_expand, tcp_read of k > 0 bytes, buffer_size_expand, decode;    *)
(* CO_AGAIN reads again, CO_OK goes on to process the message, anything   *)
(* else fails the request.                                                *)
Read(s, k) ==
    /\ pc[s] = "read" /\ k \in 1..Len(wire[s])
    /\ LET d == decode(s, msg[s], ReadInto(buf[s], SubSeq(wire[s], 1, k)))
       IN /\ buf' = [buf EXCEPT ![s] = d.b]
          /\ msg' = [msg EXCEPT ![s] = d.m]
          /\ pc'  = [pc EXCEPT ![s] = CASE d.ret = "OK"    -> "process"
                                        [] d.ret = "AGAIN" -> "read"
                                        [] OTHER           -> "error"]
    /\ wire' = [wire EXCEPT ![s] = SubSeq(@, k + 1, Len(@))]
    /\ UNCHANGED <<sent, done>>

(* The message is handled and answered.  request_write (upstream_write    *)
(* for the client side) resets a non-empty CoBuffer before it encodes, so *)
(* bytes read past the message are dropped; the next request on the       *)
(* connection gets a new protocol object (create_protocol in CoRequest,   *)
(* reset_respmsg in the upstream).                                        *)
Answer(s) ==
    /\ pc[s] = "process"
    /\ buf'  = [buf EXCEPT ![s] = <<>>]
    /\ msg'  = [msg EXCEPT ![s] = Fresh]
    /\ pc'   = [pc EXCEPT ![s] = "read"]
    /\ done' = [done EXCEPT ![s] = @ + 1]
    /\ UNCHANGED <<wire, sent>>

Next == \E s \in Side : Send(s) \/ Answer(s) \/ (\E k \in 1..Len(wire[s]) : Read(s, k))

Spec == Init /\ [][Next]_vars

-----------------------------------------------------------------------------
ByteSet == [k: {"CR", "LF", "B", "SL", "ST", "XX", "TE", "CL", "SZ"}, n: Nat]

TypeOK ==
    /\ \A s \in Side :
        /\ pc[s] \in {"read", "process", "error"}
        /\ msg[s].status \in {"StartLine", "Header", "Content", "Completed"}
        /\ sent[s] \in 0..Len(Peer(s)) /\ done[s] \in 0..sent[s]
        /\ wire[s] \in Seq(ByteSet) /\ buf[s] \in Seq(ByteSet)
        /\ msg[s].content \in Seq(ByteSet) /\ msg[s].line \in Seq(ByteSet)

(* A message the decoder completes is the message its peer sent: the same *)
(* start line and the same body, whatever the sizes of the reads that     *)
(* brought it (request_read and upstream_read decode after every read).   *)
DecodedAsSent ==
    \A s \in Side :
        pc[s] = "process" =>
            LET m == Peer(s)[done[s] + 1]
            IN msg[s].line = Line(m.start) /\ msg[s].content = BodyOf(m)
====
