------------------------------- MODULE Formats -------------------------------
(***************************************************************************)
(* Internet addresses and their text, the traceparent header of a request, *)
(* and io::write_all(), which puts such texts together.                    *)
(***************************************************************************)
EXTENDS Http, Encodings

CONSTANTS
    Octets,         \* numbers in an IPv4 address
    PartTexts,      \* what may stand between two dots
    Words           \* numbers in an IPv6 address

(* An address is its bytes in the order of the array data.                 *)

\* to_chars(), base 16.
RECURSIVE HexDecimal(_)
HexDecimal(n) ==
    IF n < 16 THEN <<tolower(HexDigit(n))>> ELSE Append(HexDecimal(n \div 16), tolower(HexDigit(n % 16)))

\* from_chars(), base 16, or an error (-1).
from_hex_chars(s) ==
    LET digits == Slice(s, 0, Find(s, {c \in 0..127 : ~is_hex_char(c)}, 0))
    IN IF digits = <<>> THEN -1 ELSE FoldLeft(LAMBDA n, c : 16 * n + hex_decode_char(48, c), 0, digits)

\* The numbers of the parts in an array of n zeros, filled from its end; more than n
\* parts would be written in front of it.  What follows the digits of a part is not
\* looked at.
Filled(numbers, n, limit) ==
    IF \E i \in DOMAIN numbers : numbers[i] \notin 0..limit THEN NullOpt
    ELSE [k \in 1..n |-> IF n - k < Len(numbers) THEN numbers[n - k + 1] ELSE 0]

\* Mutant of ipv4_parse: the array is filled from its beginning.
ipv4_parse_forward(str) ==
    LET parts == split_string(str, Dot, 0)
        values == Filled([i \in DOMAIN parts |-> from_chars(parts[i])], 4, 255)
    IN IF values = NullOpt THEN NullOpt ELSE Reverse(values)

ipv4_parse(str) ==
    LET parts == split_string(str, Dot, 0)
    IN Filled([i \in DOMAIN parts |-> from_chars(parts[i])], 4, 255)

ipv4_to_string(data) == join(<<Dot>>, [i \in 1..4 |-> Decimal(data[5 - i])])

\* ipv4_addr(std::uint32_t) and operator std::uint32_t.
ipv4_addr(addr) == [i \in 1..4 |-> (addr \div 256^(4 - i)) % 256]
uint32(data) == FoldLeft(LAMBDA n, b : 256 * n + b, 0, data)

\* operator<=>: the bytes in order, the first that differ decide.
Less(lhs, rhs) ==
    \E i \in DOMAIN lhs : lhs[i] < rhs[i] /\ \A j \in 1..i - 1 : lhs[j] = rhs[j]

\* ipv6_addr(std::array<std::uint16_t, 8>).
ipv6_addr(parts) == [i \in 1..16 |-> IF i % 2 = 1 THEN parts[(i + 1) \div 2] \div 256 ELSE parts[i \div 2] % 256]

ipv6_parse(str) ==
    LET parts == split_string(str, Colon, 0)
        values == Filled([i \in DOMAIN parts |-> from_hex_chars(parts[i])], 8, 65535)
    IN IF values = NullOpt THEN NullOpt ELSE ipv6_addr(values)

\* The pairs of bytes from the last to the first.
ipv6_to_string(data) ==
    join(<<Colon>>, [i \in 1..8 |-> HexDecimal(data[18 - 2 * i] + 256 * data[17 - 2 * i])])

\* ip_addr: one or the other, told apart by the number of bytes.
ip_parse(str) ==
    IF Colon \in ToSet(str) /\ ipv6_parse(str) # NullOpt THEN ipv6_parse(str)
    ELSE IF Dot \in ToSet(str) THEN ipv4_parse(str) ELSE NullOpt
ip_to_string(data) == IF Len(data) = 4 THEN ipv4_to_string(data) ELSE ipv6_to_string(data)

-----------------------------------------------------------------------------
(* tracecontext: the identifiers have two bytes and one instead of 16 and 8. *)

Hyphen == 45
TraceParentKey == <<80>>
TraceStateKey == <<83>>
trace_id_00_length == 4
parent_id_00_length == 2

parse_version_00(tp) ==
    LET parent == trace_id_00_length + 1
        flags == parent + parent_id_00_length + 1
        trace_id == hex_decode(Slice(tp, 0, trace_id_00_length))
        parent_id == hex_decode(Slice(tp, parent, parent + parent_id_00_length))
    IN IF \/ Len(tp) # flags + 2
          \/ tp[trace_id_00_length + 1] # Hyphen \/ tp[flags] # Hyphen
          \/ trace_id = NullOpt \/ parent_id = NullOpt
       THEN NullOpt
       ELSE <<trace_id, parent_id, hex_decode_char(tp[flags + 1], tp[flags + 2])>>

\* The span of the two headers: identifiers, flags and state.
trace_parse(headers) ==
    LET tp == get(headers, TraceParentKey)
        version_end == Find(tp, {Hyphen}, 0)
        span == IF tp = Nothing \/ version_end = Len(tp) \/ version_end # 2 \/ hex_decode_char(tp[1], tp[2]) # 0
                THEN NullOpt ELSE parse_version_00(From(tp, version_end + 1))
        state == get(headers, TraceStateKey)
    IN IF span = NullOpt THEN NullOpt ELSE Append(span, IF state = Nothing THEN <<>> ELSE state)

-----------------------------------------------------------------------------
(* write_all(): one text after another until a write fails.                *)

\* A writer with room for so many bytes takes what fits and fails on the rest.
RECURSIVE write_all(_, _)
write_all(room, texts) ==
    IF texts = <<>> THEN [count |-> 0, err |-> FALSE, wrote |-> <<>>]
    ELSE LET n == Min({room, Len(Head(texts))})
             wrote == Slice(Head(texts), 0, n)
             rest == write_all(room - n, Tail(texts))
         IN IF n < Len(Head(texts)) THEN [count |-> n, err |-> TRUE, wrote |-> wrote]
            ELSE [count |-> n + rest.count, err |-> rest.err, wrote |-> wrote \o rest.wrote]

-----------------------------------------------------------------------------

CallAddress ==
    \/ \E data \in [1..4 -> Octets] :
         call' = [fn |-> "address", data |-> data, out |-> ip_parse(ip_to_string(data)), back |-> ipv4_addr(uint32(data))]
    \/ \E parts \in [1..8 -> Words] :
         call' = [fn |-> "address", data |-> ipv6_addr(parts), out |-> ip_parse(ip_to_string(ipv6_addr(parts))),
                  back |-> ipv6_addr(parts)]
    \/ \E parts \in SeqOf(PartTexts, 4) :
         parts # <<>> /\ call' = [fn |-> "dots", parts |-> parts, out |-> ip_parse(join(<<Dot>>, parts))]
    \/ \E l, r \in [1..4 -> {Min(Octets), Max(Octets)}] :
         call' = [fn |-> "order", l |-> l, r |-> r, less |-> Less(l, r), greater |-> Less(r, l)]

CallTrace ==
    \E id \in [1..2 -> Bytes], parent \in Bytes, flags \in {0, 1}, version \in {0, 1}, state \in {Nothing, <<97>>} :
      LET ids == hex_encode(id) \o <<Hyphen>> \o hex_encode(<<parent>>)
          start == IF state = Nothing THEN <<>> ELSE headers_set(<<>>, TraceStateKey, <<state>>)
      IN \E t \in Transits(ids) :
           call' = [fn |-> "trace", kind |-> IF version = 0 THEN t.kind ELSE "version",
                    span |-> <<id, <<parent>>, flags, IF state = Nothing THEN <<>> ELSE state>>,
                    out |-> trace_parse(headers_set(start, Lower(TraceParentKey),
                              <<hex_encode(<<version>>) \o <<Hyphen>> \o t.s \o <<Hyphen>> \o hex_encode(<<flags>>)>>))]

CallWriteAll ==
    \E texts \in SeqOf(SeqOf({97}, 2), 3), room \in 0..6 :
      call' = [fn |-> "write_all", texts |-> texts, room |-> room, out |-> write_all(room, texts)]

\* An address is the same after to_string() and parse(), and after the conversion to
\* a number, whichever order of bytes they use (ipv4_addr.cpp:20, :39); one read from
\* fewer than four parts, or with letters after the digits, keeps its value when it is
\* written and read again, and a number out of range or missing is refused.  The order
\* of addresses is that of their numbers.  A traceparent gives the identifiers, flags
\* and state it was made of, or nothing when one character is damaged or lost, or the
\* version is another.  write_all() reports the bytes that reached the writer,
\* which are the first of the texts, and an error when they are not all.
FormatsInvert ==
    /\ EncodingsInvert
    /\ call.fn = "address" => call.out = call.data /\ call.back = call.data
    /\ call.fn = "dots" =>
         /\ call.out # NullOpt => Len(call.out) = 4 /\ ip_parse(ip_to_string(call.out)) = call.out
         /\ call.out # NullOpt => Last(call.out) = from_chars(Head(call.parts))
         /\ (call.out = NullOpt) = (Len(call.parts) = 1 \/ \E p \in ToSet(call.parts) : from_chars(p) \notin 0..255)
    /\ call.fn = "order" => call.less = (uint32(call.l) < uint32(call.r)) /\ ~(call.less /\ call.greater)
    /\ call.fn = "trace" => call.out = IF call.kind = "whole" THEN call.span ELSE NullOpt
    /\ call.fn = "write_all" =>
         LET all == FlattenSeq(call.texts)
         IN /\ call.out.count = Len(call.out.wrote) /\ IsPrefix(call.out.wrote, all)
            /\ call.out.err = (call.out.wrote # all)

=============================================================================
