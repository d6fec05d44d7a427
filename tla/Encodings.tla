------------------------------ MODULE Encodings ------------------------------
(***************************************************************************)
(* net::encoding::base64 and net::encoding::hex, on sequences of bytes.    *)
(***************************************************************************)
EXTENDS Text

CONSTANTS
    Bytes,      \* the bytes that are encoded
    MaxBytes    \* bound on their number

NullOpt == <<-1>>
PadChar == 61
NoPad == 0

\* standard_alphabet() and url_alphabet(): the 64 characters, by index.
Alphabet(url) ==
    [i \in 0..63 |-> CASE i < 26 -> 65 + i
                       [] i \in 26..51 -> 71 + i
                       [] i \in 52..61 -> i - 4
                       [] i = 62 -> IF url THEN 45 ELSE 43
                       [] i = 63 -> IF url THEN 95 ELSE 47]

StandardEncoder == Alphabet(FALSE)
UrlEncoder == Alphabet(TRUE)
Encoder(url) == IF url THEN UrlEncoder ELSE StandardEncoder

\* The map from characters to indices, 255 for the others.  The cache of maps
\* in front of it is only filled with what this computes.
build_decoder(encoder) ==
    [c \in 0..127 |-> LET at == {i \in 0..63 : encoder[i] = c} IN IF at = {} THEN 255 ELSE Min(at)]

StandardDecoder == build_decoder(StandardEncoder)
UrlDecoder == build_decoder(UrlEncoder)
Decoder(url) == IF url THEN UrlDecoder ELSE StandardDecoder

encoded_size(n, pad) == IF pad # NoPad THEN ((n + 2) \div 3) * 4 ELSE (n * 8 + 5) \div 6
decoded_size(n, pad) == IF pad # NoPad THEN (n \div 4) * 3 ELSE (n * 6) \div 8

\* The k-th group of six bits of 24, and the k-th of eight.
Sextet(combined, k) == (combined \div 64^(4 - k)) % 64
Octet(combined, k) == (combined \div 256^(3 - k)) % 256

Digit(digits, i, weight) == IF i =< Len(digits) THEN digits[i] * weight ELSE 0

\* Three bytes as four characters, and one or two as two or three.
encode_triplet(url, d) ==
    LET combined == Digit(d, 1, 65536) + Digit(d, 2, 256) + Digit(d, 3, 1)
    IN [k \in 1..Len(d) + 1 |-> Encoder(url)[Sextet(combined, k)]]

\* The blocks of a sequence.
Blocks(s, n) == [b \in 1..(Len(s) + n - 1) \div n |-> Slice(s, (b - 1) * n, Min({b * n, Len(s)}))]

\* The string is made of pad characters first, and the blocks written over it.
base64_encode(url, pad, data) ==
    LET wrote == FlattenSeq([b \in DOMAIN Blocks(data, 3) |-> encode_triplet(url, Blocks(data, 3)[b])])
    IN [i \in 1..encoded_size(Len(data), pad) |-> IF i =< Len(wrote) THEN wrote[i] ELSE pad]

\* Up to four characters.  After the first that is not in the alphabet only
\* padding may follow.
decode_triplet(url, pad, d) ==
    LET decoded == [i \in DOMAIN d |-> Decoder(url)[d[i]]]
        buflen == Find(decoded, {255}, 0)
        buf == Slice(decoded, 0, buflen)
        combined == Digit(buf, 1, 262144) + Digit(buf, 2, 4096) + Digit(buf, 3, 64) + Digit(buf, 4, 1)
    IN IF \E i \in buflen + 1..Len(d) : pad = NoPad \/ d[i] # pad THEN NullOpt
       ELSE [k \in 1..Max({buflen - 1, 0}) |-> Octet(combined, k)]

\* The size is computed from the last two characters, of which there must be
\* two; each block is decoded in its place.
base64_decode(url, pad, data) ==
    LET padding == IF pad = NoPad THEN 0
                   ELSE Cardinality({i \in Len(data) - 1..Len(data) : data[i] = pad})
        out_size == decoded_size(Len(data), pad) - padding
        blocks == [b \in DOMAIN Blocks(data, 4) |-> decode_triplet(url, pad, Blocks(data, 4)[b])]
    IN IF \E b \in DOMAIN blocks : blocks[b] = NullOpt THEN NullOpt
       ELSE [i \in 1..out_size |->
               LET block == blocks[(i + 2) \div 3]
                   k == ((i - 1) % 3) + 1
               IN IF k =< Len(block) THEN block[k] ELSE 0]

-----------------------------------------------------------------------------

is_hex_char(c) == c \in 48..57 \/ c \in 65..70 \/ c \in 97..102

HexDigit(v) == IF v < 10 THEN v + 48 ELSE v - 10 + 65
hex_encode(data) == FlattenSeq([i \in DOMAIN data |-> <<HexDigit(data[i] \div 16), HexDigit(data[i] % 16)>>])

\* Two characters of either case.
hex_decode_char(hi, lo) ==
    LET upper(c) == IF c > 70 THEN c - 32 ELSE c
        parse(c) == IF c >= 65 THEN c - 65 + 10 ELSE c - 48
    IN parse(upper(hi)) * 16 + parse(upper(lo))

hex_decode(data) ==
    IF Len(data) % 2 # 0 \/ \E i \in DOMAIN data : ~is_hex_char(data[i]) THEN NullOpt
    ELSE [i \in 1..Len(data) \div 2 |-> hex_decode_char(data[2 * i - 1], data[2 * i])]

-----------------------------------------------------------------------------

\* Bytes are encoded, a character may be damaged on the way or the last one
\* lost, and the rest is decoded.  An empty padded text is not decoded:
\* data.last(2) asks for two characters.
Transits(s) ==
    {[kind |-> "whole", s |-> s]}
      \cup {[kind |-> "damaged", s |-> [s EXCEPT ![i] = 33]] : i \in DOMAIN s}
      \cup (IF s = <<>> THEN {} ELSE {[kind |-> "cut", s |-> Front(s)]})

CallEncodings ==
    \E data \in SeqOf(Bytes, MaxBytes) :
      \/ \E url \in BOOLEAN, pad \in {NoPad, PadChar} :
           /\ data # <<>> \/ pad = NoPad
           /\ \E t \in Transits(base64_encode(url, pad, data)) :
                /\ t.kind # "cut"
                /\ call' = [fn |-> "base64", data |-> data, kind |-> t.kind, out |-> base64_decode(url, pad, t.s)]
      \/ \E t \in Transits(hex_encode(data)), fold \in BOOLEAN :
           call' = [fn |-> "hex", data |-> data, kind |-> t.kind,
                    out |-> hex_decode(IF fold THEN Lower(t.s) ELSE t.s)]

\* Decoding gives back the bytes that were encoded, with and without padding,
\* for every remainder of their number by three, and for hexadecimal digits of
\* either case; a character outside the alphabet, wherever it stands, or half a
\* byte, is refused.
EncodingsInvert ==
    call.fn \in {"base64", "hex"} => call.out = IF call.kind = "whole" THEN call.data ELSE NullOpt

=============================================================================
