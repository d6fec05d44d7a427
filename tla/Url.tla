--------------------------------- MODULE Url ---------------------------------
(***************************************************************************)
(* net::url: the parser, one state of its loop per step, build(), encode() *)
(* and decode().                                                           *)
(***************************************************************************)
EXTENDS Text

CONSTANTS
    UrlParts,       \* the strings the parts of an url are made of
    UrlLetters,     \* the characters of any other text that is parsed
    MaxUrl          \* bound on its length

Colon == 58
Slash == 47
At == 64
Question == 63
Hash == 35
Percent == 37
Ampersand == 38
Equals == 61

EmptyUrl ==
    [scheme |-> <<>>, username |-> <<>>, password |-> <<>>, host |-> <<>>,
     port |-> <<>>, path |-> <<>>, query |-> <<>>, fragment |-> <<>>]

HexValue(c) == CASE c \in 48..57 -> c - 48 [] c \in 65..70 -> c - 55 [] c \in 97..102 -> c - 87 [] OTHER -> 16

HexChars(c) ==
    LET char(v) == IF v < 10 THEN 48 + v ELSE 87 + v
    IN <<char(c \div 16), char(c % 16)>>

\* The search goes on from idx although what stood before it has been cut off.
RECURSIVE EncodeFrom(_, _, _)
EncodeFrom(str, reserved, from) ==
    LET idx == Find(str, reserved, from)
    IN IF idx = Len(str) THEN str
       ELSE Slice(str, 0, idx) \o <<Percent>> \o HexChars(str[idx + 1])
              \o EncodeFrom(From(str, idx + 1), reserved, idx)
encode(str, reserved) == EncodeFrom(str, reserved, 0)

\* Fewer than two characters after a '%' make substr() throw, in a noexcept
\* function.
RECURSIVE Decodable(_)
Decodable(str) ==
    LET idx == Find(str, {Percent}, 0)
    IN idx = Len(str) \/ (idx + 3 =< Len(str) /\ Decodable(From(str, idx + 3)))

\* from_chars() reads as many of the two characters as are digits; when none is,
\* what stood before the '%' is dropped with it.
RECURSIVE decode(_)
decode(str) ==
    LET idx == Find(str, {Percent}, 0)
        hi == HexValue(str[idx + 2])
        lo == HexValue(str[idx + 3])
        val == IF lo = 16 THEN hi ELSE hi * 16 + lo
    IN IF idx = Len(str) THEN str
       ELSE (IF hi = 16 THEN <<>> ELSE Append(Slice(str, 0, idx), val)) \o decode(From(str, idx + 3))

-----------------------------------------------------------------------------
(* url_parser.                                                             *)

Parser(s) == [state |-> "scheme", start |-> 0, end |-> 0, input |-> s, out |-> EmptyUrl]

Size(p) == Len(p.input)

parse_scheme(p) ==
    IF p.input[p.end + 1] = Colon
    THEN [p EXCEPT !.out.scheme = Slice(p.input, p.start, p.end),
                   !.start = p.end + 1, !.end = p.end + 1, !.state = "authority"]
    ELSE IF p.end + 1 < Size(p) THEN [p EXCEPT !.end = @ + 1]
    ELSE [p EXCEPT !.end = 0,
                   !.state = IF IsPrefix(<<Slash, Slash>>, p.input) THEN "authority"
                             ELSE IF p.input[1] = Slash THEN "path" ELSE "host"]

parse_authority(p) ==
    IF p.end + 1 < Size(p) /\ p.input[p.start + 1] = Slash /\ p.input[p.end + 2] = Slash
    THEN [p EXCEPT !.state = "userinfo", !.start = p.end + 2, !.end = p.end + 2]
    ELSE [p EXCEPT !.state = "path", !.end = p.start]

\* The first '@' of all that follows ends the user information.
parse_userinfo(p) ==
    LET idx == Find(p.input, {At}, p.start)
        userinfo == Slice(p.input, p.start, idx)
        split == Find(userinfo, {Colon}, 0)
    IN IF idx = Size(p) THEN [p EXCEPT !.state = "host"]
       ELSE [p EXCEPT !.out.username = Slice(userinfo, 0, split), !.out.password = From(userinfo, split + 1),
                      !.state = "host", !.start = idx + 1, !.end = idx + 1]

\* What parse_host(), parse_port(), parse_path() and parse_query() share: the part
\* ends where one of the marks stands, which also says what comes next; a '/'
\* belongs to the path.
UpTo(p, part, marks) ==
    LET idx == Find(p.input, marks, p.start)
        mark == p.input[idx + 1]
        next == CASE mark = Colon -> "port" [] mark = Slash -> "path"
                  [] mark = Question -> "query" [] mark = Hash -> "fragment"
        start == IF mark = Slash THEN idx ELSE idx + 1
    IN IF idx = Size(p)
       THEN [p EXCEPT !.out[part] = From(p.input, p.start), !.state = "done", !.end = Size(p)]
       ELSE [p EXCEPT !.out[part] = Slice(p.input, p.start, idx), !.state = next, !.start = start, !.end = start]

\* The mark is skipped like the others.
UpToSkips(p, part, marks) ==
    LET idx == Find(p.input, marks, p.start)
    IN IF idx = Size(p) THEN UpTo(p, part, marks)
       ELSE [UpTo(p, part, marks) EXCEPT !.start = idx + 1, !.end = idx + 1]

\* Mutant of parse_host: the '/' is left out of the path.
parse_host_skips(p) == UpToSkips(p, "host", {Colon, Slash, Question, Hash})

parse_host(p) == UpTo(p, "host", {Colon, Slash, Question, Hash})
parse_port(p) == UpTo(p, "port", {Slash, Question, Hash})
parse_path(p) == UpTo(p, "path", {Question, Hash})

\* A key without '=' is there without values; an empty rest ends the loop.
Variables(raw) ==
    LET pieces == split_string(raw, Ampersand, 0)
    IN IF Last(pieces) = <<>> THEN Front(pieces) ELSE pieces

AddVariable(query, kv) ==
    LET eq == Find(kv, {Equals}, 0)
        key == decode(Slice(kv, 0, eq))
        old == IF key \in DOMAIN query THEN query[key] ELSE <<>>
        new == IF eq = Len(kv) THEN old ELSE Append(old, decode(From(kv, eq + 1)))
    IN [k \in DOMAIN query \cup {key} |-> IF k = key THEN new ELSE query[k]]

NoQuery == [k \in {} |-> <<>>]

parse_query(p) ==
    LET q == UpTo(p, "query", {Hash})
        vars == Variables(q.out.query)
        sides == UNION {{Slice(vars[i], 0, Find(vars[i], {Equals}, 0)), From(vars[i], Find(vars[i], {Equals}, 0))} :
                          i \in DOMAIN vars}
    IN IF \A s \in sides : Decodable(s)
       THEN [q EXCEPT !.out.query = FoldLeft(AddVariable, NoQuery, vars)]
       ELSE [q EXCEPT !.state = "terminate"]

parse_fragment(p) == [p EXCEPT !.out.fragment = From(p.input, p.start), !.state = "done"]

\* One round of the loop of parse().
ParseStep(p) ==
    CASE p.state = "scheme" -> parse_scheme(p)
      [] p.state = "authority" -> parse_authority(p)
      [] p.state = "userinfo" -> parse_userinfo(p)
      [] p.state = "host" -> parse_host(p)
      [] p.state = "port" -> parse_port(p)
      [] p.state = "path" -> parse_path(p)
      [] p.state = "query" -> parse_query(p)
      [] p.state = "fragment" -> parse_fragment(p)
      [] p.state = "done" -> [p EXCEPT !.end = Size(p)]

ParseEnded(p) == p.end >= Size(p) \/ p.state = "terminate"

\* The parts are decoded after the loop; a loop that ended elsewhere than in
\* "done" is a failure.
Decoded == {"scheme", "username", "password", "host", "port", "path", "fragment"}
ParseResult(p) ==
    IF p.state = "terminate" \/ \E part \in Decoded : ~Decodable(p.out[part]) THEN [state |-> "terminate"]
    ELSE IF p.state # "done" THEN [state |-> p.state]
    ELSE [state |-> "done", url |-> [part \in DOMAIN p.out |->
            IF part \in Decoded THEN decode(p.out[part]) ELSE IF p.out.query = <<>> THEN NoQuery ELSE p.out.query]]

RECURSIVE RunParser(_)
RunParser(p) == IF ParseEnded(p) THEN ParseResult(p) ELSE RunParser(ParseStep(p))
parse(s) == RunParser(Parser(s))

-----------------------------------------------------------------------------

\* Nothing is encoded.  The map of variables has no order of its own.
build(u) ==
    LET Optional(s, t) == IF s = <<>> THEN <<>> ELSE t
        pairs == FlattenSeq([i \in 1..Cardinality(DOMAIN u.query) |->
                   LET k == SetToSeq(DOMAIN u.query)[i]
                   IN [j \in DOMAIN u.query[k] |-> k \o <<Equals>> \o u.query[k][j]]])
    IN Optional(u.scheme, u.scheme \o <<Colon, Slash, Slash>>)
         \o Optional(u.username \o u.password, u.username \o <<Colon>> \o u.password \o <<At>>)
         \o u.host
         \o Optional(u.port, <<Colon>> \o u.port)
         \o u.path
         \o Optional(pairs, <<Question>> \o join(<<Ampersand>>, pairs))
         \o Optional(u.fragment, <<Hash>> \o u.fragment)

-----------------------------------------------------------------------------

Queries ==
    {NoQuery} \cup [{<<107>>} -> {<< <<>> >>, <<<<118>>, <<119>>>>}]
      \cup [{<<107>>, <<108>>} -> {<<<<118>>>>}]

\* Any of the parts may be missing, except a scheme, and all that follows the
\* user information.
Urls ==
    {u \in [scheme : {<<115>>}, username : UrlParts, password : UrlParts, host : UrlParts, port : UrlParts,
            path : {<<>>} \cup {<<Slash>> \o s : s \in UrlParts}, query : Queries, fragment : UrlParts] :
       u.host \o u.port \o u.path \o u.fragment # <<>> \/ u.query # NoQuery}

CallUrlParse ==
    \/ \E u \in Urls : call' = [fn |-> "build", url |-> u, parser |-> Parser(build(u))]
    \/ \E s \in SeqOf(UrlLetters, MaxUrl) : call' = [fn |-> "parse", parser |-> Parser(s)]

CallUrlEncode ==
    \E s \in SeqOf(UrlLetters, MaxUrl) : \E reserved \in {{Percent}, {Percent, Slash, Question}} :
      LET e == encode(s, reserved)
      IN call' = [fn |-> "encode", s |-> s, reserved |-> reserved, encoded |-> e,
                  out |-> IF Decodable(e) THEN decode(e) ELSE <<-1>>]

Parsing == call.fn \in {"build", "parse"} /\ "parser" \in DOMAIN call

UrlStep ==
    /\ Parsing
    /\ IF ParseEnded(call.parser)
       THEN call' = [fn |-> "parsed", url |-> IF call.fn = "build" THEN call.url ELSE EmptyUrl,
                     built |-> call.fn = "build", input |-> call.parser.input, out |-> ParseResult(call.parser)]
       ELSE call' = [call EXCEPT !.parser = ParseStep(@)]

States == <<"scheme", "authority", "userinfo", "host", "port", "path", "query", "fragment", "done", "terminate">>
Rank(p) == (CHOOSE i \in DOMAIN States : States[i] = p.state) * (Size(p) + 1) + p.end

\* What build() wrote, parse() reads: the same parts, whichever are missing, and
\* the same values of every variable, as long as the parts hold none of the marks
\* that build() does not encode (url.cpp:374).  A text is only given up with an
\* exception for an escape that ends too soon (url.cpp:346).  encode() and
\* decode() are inverse as long as no '%' follows the first reserved character: the
\* search of url.cpp:313 may pass over it.  The loop of parse() ends: every round
\* moves to a later state, or forward in the same.
UrlRoundTrip ==
    /\ Parsing /\ ~ParseEnded(call.parser) => Rank(ParseStep(call.parser)) > Rank(call.parser)
    /\ call.fn = "parsed" =>
         /\ call.built => call.out = [state |-> "done", url |-> call.url]
         /\ call.out.state = "terminate" => Contains(call.input, Percent)
    /\ call.fn = "encode" =>
         LET first == Find(call.s, call.reserved, 0)
         IN ~Contains(From(call.s, first + 1), Percent) => call.out = call.s

=============================================================================
