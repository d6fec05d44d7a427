-------------------------------- MODULE Http --------------------------------
(***************************************************************************)
(* http::headers and the heads of HTTP/1.1 messages: what request_encode() *)
(* and response_encode() write, and what request_decode() and              *)
(* response_decode() make of it.  The names of methods and headers are     *)
(* shortened to one or two letters.  A write that fails ends an encoder    *)
(* with its error after part of this text; nothing else depends on it.     *)
(***************************************************************************)
EXTENDS Url

CONSTANTS
    HeaderKeys,     \* spellings of header names
    HeaderValues,
    MaxHeaderBytes  \* the limits max_header_bytes of server and client

Space == 32
Dot == 46
Comma == 44
Semicolon == 59
LineEnd == <<13, 10>>
HostKey == <<72>>
LengthKey == <<76>>
TransferKey == <<84>>
TypeKey == <<67>>
Chunked == <<99>>
Charset == <<115>>
HttpName == <<72, 84, 84, 80, Slash>>
Nothing == <<-1>>

\* std::to_string(), and from_chars(): the digits in front, or an error (-1).
RECURSIVE Decimal(_)
Decimal(n) == IF n < 10 THEN <<48 + n>> ELSE Append(Decimal(n \div 10), 48 + (n % 10))

from_chars(s) ==
    LET digits == Slice(s, 0, Find(s, (0..127) \ (48..57), 0))
    IN IF digits = <<>> THEN -1 ELSE FoldLeft(LAMBDA n, c : 10 * n + c - 48, 0, digits)

-----------------------------------------------------------------------------
(* headers: a map from names to values in which the case of names does not *)
(* matter (keyhash and keyequal), as entries in some order.                *)

Entry(h, key) == {i \in DOMAIN h : equal_ignore_case(h[i].key, key)}

headers_set(h, key, vals) ==
    IF Entry(h, key) = {} THEN Append(h, [key |-> key, vals |-> vals])
    ELSE [h EXCEPT ![Min(Entry(h, key))].vals = vals]

\* Mutant of headers_add: the values that are there are forgotten.
headers_add_sets(h, key, val) == headers_set(h, key, <<val>>)

headers_add(h, key, val) ==
    IF Entry(h, key) = {} THEN Append(h, [key |-> key, vals |-> <<val>>])
    ELSE [h EXCEPT ![Min(Entry(h, key))].vals = Append(@, val)]

get_all(h, key) == IF Entry(h, key) = {} THEN <<>> ELSE h[Min(Entry(h, key))].vals
get(h, key) == IF get_all(h, key) = <<>> THEN Nothing ELSE Head(get_all(h, key))

set_content_length(h, n) == headers_set(h, LengthKey, <<Decimal(n)>>)
get_content_length(h) == IF get(h, LengthKey) = Nothing THEN -1 ELSE from_chars(get(h, LengthKey))

is_chunked(h) == \E v \in ToSet(get_all(h, TransferKey)) : equal_ignore_case(trim_string(v), Chunked)

\* The parameters; the type is the whole value.  emplace() keeps the first of two
\* parameters of a name.
get_content_type(h) ==
    LET type == get(h, TypeKey)
        split == Find(type, {Semicolon}, 0)
        Parameter(params, p) ==
          LET eq == Find(p, {Equals}, 0)
              name == trim_string(Slice(p, 0, eq))
              value == unquote(trim_string(From(p, eq + 1)))
              new == IF eq = Len(p) THEN <<p, <<>>>>
                     ELSE IF equal_ignore_case(name, Charset) THEN <<Lower(name), Lower(value)>>
                     ELSE <<name, value>>
          IN IF \E q \in params : q[1] = new[1] THEN params ELSE params \cup {new}
    IN IF type = Nothing THEN Nothing
       ELSE [type |-> type,
             parameters |-> IF split = Len(type) THEN {}
                            ELSE FoldLeft(Parameter, {}, split_string(type, Semicolon, split + 1))]

-----------------------------------------------------------------------------
(* Methods and status codes.                                               *)

MethodName ==
    [CONNECT |-> <<67, 79>>, DELETE |-> <<68, 69>>, GET |-> <<71, 69>>, HEAD |-> <<72, 69>>, OPTIONS |-> <<79, 80>>,
     PATCH |-> <<80, 65>>, POST |-> <<80, 79>>, PUT |-> <<80, 85>>, TRACE |-> <<84, 82>>]
method_string(m) == IF m \in DOMAIN MethodName THEN MethodName[m] ELSE <<78, 79>>
parse_method(s) ==
    IF \E m \in DOMAIN MethodName : equal_ignore_case(s, MethodName[m])
    THEN CHOOSE m \in DOMAIN MethodName : equal_ignore_case(s, MethodName[m]) ELSE "NONE"

\* The enumerators of status that have a text.
Statuses ==
    100..102 \cup 200..208 \cup {226} \cup 300..305 \cup {307, 308} \cup 400..418 \cup 421..424
      \cup {426, 428, 429, 431, 444, 451, 499} \cup 500..508 \cup {510, 511, 599}
status_text(s) == IF s \in Statuses THEN Decimal(s) \o <<Space, 79>> ELSE <<88, 88, 88, Space, 85>>
parse_status(s) == IF from_chars(s) = -1 THEN 0 ELSE from_chars(s)

-----------------------------------------------------------------------------
(* Encoding.                                                               *)

write_headers(h) ==
    FlattenSeq([i \in DOMAIN h |-> h[i].key \o <<Colon, Space>> \o join(<<Comma, Space>>, h[i].vals) \o LineEnd])

Version(v) == HttpName \o <<v[1] + 48, Dot, v[2] + 48, Space>>

\* writer::write(char): the task it returns points at the parameter and starts after
\* the call is over, when there may be another byte in its place.
WrittenChar(c) == {c, 0}

\* A version that was not set is sent as 1.0.  The blank after the method is what
\* write(' ') has made of it.
request_encode(req, blank) ==
    method_string(req.method) \o <<blank>> \o build(req.uri) \o <<Space>>
      \o Version(IF req.version = <<0, 0>> THEN <<1, 0>> ELSE req.version) \o LineEnd
      \o write_headers(req.headers) \o LineEnd

response_encode(resp) ==
    Version(resp.version) \o status_text(resp.status) \o LineEnd \o write_headers(resp.headers) \o LineEnd

\* response_writer::send().
send(resp, status, length) ==
    response_encode([resp EXCEPT !.status = status, !.headers = set_content_length(@, length)])

-----------------------------------------------------------------------------
(* Decoding.                                                               *)

\* io::readline(): what stands before the next line break, or all there is.
readline(s) ==
    LET ends == {i \in 0..Len(s) - 2 : Slice(s, i, i + 2) = LineEnd}
    IN IF ends = {} THEN [line |-> s, rest |-> <<>>]
       ELSE [line |-> Slice(s, 0, Min(ends)), rest |-> From(s, Min(ends) + 2)]

Failed(e) == [err |-> e]

parse_http_version(s) ==
    LET version == From(s, Len(HttpName))
        split == Find(version, {Dot}, 0)
        major == from_chars(Slice(version, 0, split))
        minor == from_chars(From(version, split + 1))
    IN IF ~IsPrefix(HttpName, s) \/ split = Len(version) \/ major = -1 \/ minor = -1 THEN Nothing
       ELSE <<major, minor>>

parse_status_line(line) ==
    LET version_end == Find(line, {Space}, 0)
        status_end == Find(line, {Space}, version_end + 1)
        version == parse_http_version(Slice(line, 0, version_end))
        status == parse_status(From(line, version_end + 1))
    IN IF line = <<>> THEN Failed("closed")
       ELSE IF status_end = Len(line) \/ version = Nothing \/ status = 0 THEN Failed("illegal")
       ELSE [err |-> "none", version |-> version, status |-> status]

\* A target that is no url stands for "/".
parse_request_line(line) ==
    LET method_end == Find(line, {Space}, 0)
        uri_end == Find(line, {Space}, method_end + 1)
        method == parse_method(Slice(line, 0, method_end))
        uri == Slice(line, method_end + 1, uri_end)
        parsed == parse(uri)
        version == parse_http_version(From(line, uri_end + 1))
    IN IF line = <<>> THEN Failed("closed")
       ELSE IF uri_end = Len(line) \/ method = "NONE" \/ version = Nothing THEN Failed("illegal")
       ELSE [err |-> "none", method |-> method, version |-> version,
             uri |-> IF uri = <<42>> THEN [EmptyUrl EXCEPT !.host = uri, !.query = NoQuery]
                     ELSE IF parsed.state = "done" THEN parsed.url
                     ELSE [EmptyUrl EXCEPT !.path = <<Slash>>, !.query = NoQuery]]

\* The limit is only looked at between two lines.
RECURSIVE ParseHeaders(_, _, _, _)
ParseHeaders(s, amount_read, max_read, h) ==
    LET next == readline(s)
        split == Find(next.line, {Colon}, 0)
        key == trim_string(Slice(next.line, 0, split))
        vals == split_string(trim_string(From(next.line, split + 1)), Comma, 0)
    IN IF amount_read >= max_read THEN Failed("too large")
       ELSE IF next.line = <<>> THEN [err |-> "none", headers |-> h, rest |-> next.rest]
       ELSE ParseHeaders(next.rest, amount_read + Len(next.line), max_read,
                         IF split = Len(next.line) THEN h
                         ELSE FoldLeft(LAMBDA g, v : headers_add(g, key, v), h, vals))
parse_headers(s, max_read) == ParseHeaders(s, 0, max_read, <<>>)

\* How the body ends: chunks, or a count of bytes.
BodyLength(h) == IF is_chunked(h) THEN "chunked" ELSE IF get_content_length(h) = -1 THEN 0 ELSE get_content_length(h)

request_decode(s, max_header_bytes) ==
    LET first == readline(s)
        line == parse_request_line(first.line)
        head == parse_headers(first.rest, max_header_bytes)
        host == IF get(head.headers, HostKey) = Nothing THEN <<>> ELSE get(head.headers, HostKey)
    IN IF line.err # "none" THEN line
       ELSE IF head.err # "none" THEN head
       ELSE [err |-> "none", method |-> line.method, version |-> line.version,
             uri |-> IF line.uri.host = <<>> THEN [line.uri EXCEPT !.host = host] ELSE line.uri,
             headers |-> head.headers, body |-> BodyLength(head.headers), rest |-> head.rest]

response_decode(s, max_header_bytes) ==
    LET first == readline(s)
        line == parse_status_line(first.line)
        head == parse_headers(first.rest, max_header_bytes)
    IN IF line.err # "none" THEN line
       ELSE IF head.err # "none" THEN head
       ELSE [err |-> "none", version |-> line.version, status |-> line.status,
             headers |-> head.headers, body |-> BodyLength(head.headers), rest |-> head.rest]

-----------------------------------------------------------------------------

\* The calls that fill the headers of a message.
HeaderCalls == [op : {"set", "add"}, key : HeaderKeys, val : HeaderValues]
Fill(calls) ==
    FoldLeft(LAMBDA h, c : IF c.op = "set" THEN headers_set(h, c.key, <<c.val>>) ELSE headers_add(h, c.key, c.val),
             <<>>, calls)

Body == <<98, 13, 10>>
RequestUris ==
    {[EmptyUrl EXCEPT !.path = <<Slash, 97>>, !.query = NoQuery],
     [EmptyUrl EXCEPT !.scheme = <<115>>, !.host = <<104>>, !.path = <<Slash>>, !.query = [k \in {<<107>>} |-> <<<<118>>>>]]}

CallHead ==
    \E calls \in SeqOf(HeaderCalls, 2), max \in MaxHeaderBytes :
      LET h == Fill(calls)
      IN \/ \E method \in {"GET", "POST", "NONE"}, uri \in RequestUris, version \in {<<0, 0>>, <<1, 1>>},
               blank \in WrittenChar(Space) :
              LET req == [method |-> method, uri |-> uri, version |-> version, headers |-> h]
              IN call' = [fn |-> "request", calls |-> calls, max |-> max, sent |-> req, blank |-> blank,
                          out |-> request_decode(request_encode(req, blank) \o Body, max)]
         \/ \E status \in {200, 404, 599, 600}, length \in {0, 10} :
              LET resp == [version |-> <<1, 1>>, status |-> 0, headers |-> h]
              IN call' = [fn |-> "response", calls |-> calls, max |-> max,
                          sent |-> [resp EXCEPT !.status = status, !.headers = set_content_length(h, length)],
                          out |-> response_decode(send(resp, status, length) \o Body, max)]

CallContentType ==
    \E blank \in {<<>>, <<Space>>}, q \in {<<>>, <<Quote>>, <<DoubleQuote>>}, k \in {<<115>>, <<83>>, <<98>>} :
      LET value == <<116, Semicolon>> \o blank \o k \o blank \o <<Equals>> \o blank \o q \o <<65>> \o q
      IN call' = [fn |-> "type", name |-> k, out |-> get_content_type(headers_set(<<>>, Lower(TypeKey), <<value>>))]

\* What a map from names to values, whatever their case, is after the calls: the
\* value of the last set() of a name and those added since.
Expected(calls, key) ==
    LET mine == SelectSeq(calls, LAMBDA c : equal_ignore_case(c.key, key))
        sets == {i \in DOMAIN mine : mine[i].op = "set"}
        since == IF sets = {} THEN mine ELSE From(mine, Max(sets) - 1)
    IN [i \in DOMAIN since |-> since[i].val]

\* A value after the first comes with the blank that the encoder puts in front.
Arrives(vals) == [i \in DOMAIN vals |-> IF i = 1 THEN vals[i] ELSE <<Space>> \o vals[i]]

HeaderBytes(h) == Len(write_headers(h)) - 2 * Len(h)

\* What one end writes the other reads: method, target, version and status, and
\* every header the calls asked for, with the values of a name set in one case and
\* added in another together (the blanks that http11.cpp:212 writes and :186 does not
\* remove aside).  The head is refused when the lines of the headers reach the
\* limit and only then, without a known method or status, or when the blank after
\* the method was lost (http11.cpp:239).  The body starts
\* at the first byte after the blank line, and is as long as the headers say,
\* chunks before a length.  Parameters of a content type are found whatever the
\* blanks and quotes around them.
HeadRoundTrip ==
    /\ call.fn \in {"request", "response"} =>
         LET sent == call.sent
             out == call.out
             known == IF call.fn = "request" THEN sent.method # "NONE" /\ call.blank = Space ELSE sent.status \in Statuses
         IN /\ (out.err = "illegal") = ~known
            /\ known => (out.err = "too large") = (HeaderBytes(sent.headers) >= call.max)
            /\ out.err = "none" =>
                 /\ \A key \in HeaderKeys :
                      call.fn = "request" \/ ~equal_ignore_case(key, LengthKey) =>
                        get_all(out.headers, key) = Arrives(Expected(call.calls, key))
                 /\ out.rest = Body
                 /\ out.body = IF \E v \in ToSet(get_all(sent.headers, TransferKey)) : equal_ignore_case(v, Chunked)
                               THEN "chunked" ELSE Max({get_content_length(sent.headers), 0})
            /\ out.err = "none" /\ call.fn = "request" =>
                 /\ out.method = sent.method
                 /\ out.version = IF sent.version = <<0, 0>> THEN <<1, 0>> ELSE sent.version
                 /\ [out.uri EXCEPT !.host = sent.uri.host] = sent.uri
                 /\ out.uri.host = IF sent.uri.host # <<>> THEN sent.uri.host
                                   ELSE IF get(sent.headers, HostKey) = Nothing THEN <<>> ELSE get(sent.headers, HostKey)
            /\ out.err = "none" /\ call.fn = "response" => out.status = sent.status /\ out.version = sent.version
    /\ call.fn = "type" =>
         call.out.parameters = {IF equal_ignore_case(call.name, Charset) THEN <<Charset, <<97>>>> ELSE <<call.name, <<65>>>>}

=============================================================================
