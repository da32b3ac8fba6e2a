------------------------------- MODULE Codecs -------------------------------
(***************************************************************************)
(* The text conversions of kurlyk::utils, as operators: percent encoding   *)
(* and query strings, base64url, cookies and the URL validator.            *)
(*                                                                         *)
(* A text is a sequence of bytes, numbers in 0..255.  For the URL          *)
(* validator, which looks at the class of a character only, it is a        *)
(* sequence of tokens: a delimiter, a letter, a digit or a scheme.         *)
(* Positions count from 1 where the code counts from 0; 0 stands for npos. *)
(***************************************************************************)
EXTENDS Integers, Sequences, FiniteSetsExt

\* string::find and find_first_of: the first position from `from` on that
\* holds a member of T.
Find(s, T, from) ==
    LET at == {i \in from..Len(s) : s[i] \in T}
    IN  IF at = {} THEN 0 ELSE Min(at)

\* What a loop that appends one part after the other leaves in its result.
Concat(parts) ==
    LET appended[n \in 0..Len(parts)] ==
            IF n = 0 THEN <<>> ELSE appended[n - 1] \o parts[n]
    IN  appended[Len(parts)]

\* The parts one after the other, with sep between two of them.
Join(parts, sep) ==
    Concat([i \in DOMAIN parts |-> (IF i = 1 THEN <<>> ELSE sep) \o parts[i]])

-----------------------------------------------------------------------------
(* Percent encoding and query strings. *)

Digit == 48..57
Upper == 65..90
Lower == 97..122
Unreserved == Digit \cup Upper \cup Lower \cup {45, 46, 95, 126}

HexChar(n) == IF n < 10 THEN 48 + n ELSE 55 + n

EncodeByte(c) ==
    IF c \in Unreserved THEN <<c>> ELSE <<37, HexChar(c \div 16), HexChar(c % 16)>>

percent_encode(value) == Concat([i \in DOMAIN value |-> EncodeByte(value[i])])

HexValue(c) ==
    CASE c \in Digit -> c - 48
      [] c \in 65..70 -> c - 55
      [] c \in 97..102 -> c - 87
      [] OTHER -> -1

\* strtol(hex, nullptr, 16) of two characters: the longest prefix that is a
\* number, after a blank or a sign; 0 where there is none.
Strtol(c, d) ==
    CASE HexValue(c) >= 0 /\ HexValue(d) >= 0 -> 16 * HexValue(c) + HexValue(d)
      [] HexValue(c) >= 0 /\ HexValue(d) < 0  -> HexValue(c)
      [] c \in {9, 10, 11, 12, 13, 32, 43} /\ HexValue(d) >= 0 -> HexValue(d)
      [] c = 45 /\ HexValue(d) >= 0 -> (256 - HexValue(d)) % 256
      [] OTHER -> 0

\* Mutant: the last position is taken for the end of the text.
EscapeFitsBefore(value, i) == i + 2 < Len(value)

\* An escape needs both of its digits before the end of the text.
EscapeFits(value, i) == i + 2 <= Len(value)

\* One turn of the loop, at position i; rest[j] is what the turns from j on add.
DecodeAt(value, rest, i) ==
    IF i > Len(value) THEN <<>>
    ELSE IF value[i] = 37 /\ EscapeFits(value, i)
         THEN <<Strtol(value[i + 1], value[i + 2])>> \o rest[i + 3]
         ELSE <<IF value[i] = 43 THEN 32 ELSE value[i]>> \o rest[i + 1]

percent_decode(value) ==
    LET rest[i \in 1..(Len(value) + 1)] == DecodeAt(value, rest, i)
    IN  rest[1]

\* The curl build: curl_easy_escape escapes what percent_encode does.  A query
\* is a sequence of <<key, value>> in the order of the multimap.  The empty
\* result when curl_easy_init or curl_easy_escape fails, and the prefix, are
\* left out.
to_query_string(query) ==
    Join([i \in DOMAIN query |->
              percent_encode(query[i][1]) \o <<61>> \o percent_encode(query[i][2])], <<38>>)

-----------------------------------------------------------------------------
(* base64url. *)

Pad == 61

\* The lookup in table: A-Z, a-z, 0-9, '-' and '_'.
TableChar(n) ==
    CASE n < 26             -> 65 + n
      [] n >= 26 /\ n < 52  -> 71 + n
      [] n >= 52 /\ n < 62  -> n - 4
      [] n = 62             -> 45
      [] n = 63             -> 95

\* The lookup in decode_table; -1 outside the alphabet.
DecodeChar(c) ==
    CASE c \in Upper -> c - 65
      [] c \in Lower -> c - 71
      [] c \in Digit -> c + 4
      [] c = 45      -> 62
      [] c = 95      -> 63
      [] OTHER       -> -1

\* The four characters of 24 bits.
TableChars(b) ==
    <<TableChar(b \div 262144), TableChar((b \div 4096) % 64),
      TableChar((b \div 64) % 64), TableChar(b % 64)>>

\* Mutant: a rest of two bytes is written as a rest of one byte is.
EncodeGroupShort(g) ==
    LET At(i) == IF i <= Len(g) THEN g[i] ELSE 0
    IN  SubSeq(TableChars(At(1) * 65536 + At(2) * 256 + At(3)), 1,
               IF Len(g) = 3 THEN 4 ELSE 2)

\* The characters of one group of at most three bytes.
EncodeGroup(g) ==
    LET At(i) == IF i <= Len(g) THEN g[i] ELSE 0
    IN  SubSeq(TableChars(At(1) * 65536 + At(2) * 256 + At(3)), 1, Len(g) + 1)

\* The bytes that a turn of the loop, or what follows it, takes together.
Group(data, g) == SubSeq(data, 3 * g - 2, IF 3 * g <= Len(data) THEN 3 * g ELSE Len(data))

base64url_encode(data) ==
    Concat([g \in 1..((Len(data) + 2) \div 3) |-> EncodeGroup(Group(data, g))])

\* The bytes of one quartet: those whose character is padding are left out.
DecodeQuartet(q) ==
    LET Bits(c) == IF DecodeChar(c) >= 0 THEN DecodeChar(c) ELSE 0
        b == Bits(q[1]) * 262144 + Bits(q[2]) * 4096 + Bits(q[3]) * 64 + Bits(q[4])
    IN  <<b \div 65536>>
            \o (IF q[3] = Pad THEN <<>> ELSE <<(b \div 256) % 256>>)
            \o (IF q[4] = Pad THEN <<>> ELSE <<b % 256>>)

\* Decoding stops at the first quartet with a character outside the alphabet,
\* or with padding in its first half.
DecodableQuartet(q) ==
    /\ DecodeChar(q[1]) >= 0 /\ DecodeChar(q[2]) >= 0
    /\ DecodeChar(q[3]) >= 0 \/ q[3] = Pad
    /\ DecodeChar(q[4]) >= 0 \/ q[4] = Pad

Padded(value) == value \o [i \in 1..((4 - (Len(value) % 4)) % 4) |-> Pad]

Quartet(padded, g) == SubSeq(padded, 4 * g - 3, 4 * g)

base64url_decode(value) ==
    LET padded == Padded(value)
        all    == 1..(Len(padded) \div 4)
        read   == {n \in {0} \cup all : \A g \in 1..n : DecodableQuartet(Quartet(padded, g))}
    IN  Concat([g \in 1..Max(read) |-> DecodeQuartet(Quartet(padded, g))])

-----------------------------------------------------------------------------
(* Cookies. *)

\* "expires", "max-age", "path", "domain", "samesite".
Options ==
    {<<101, 120, 112, 105, 114, 101, 115>>, <<109, 97, 120, 45, 97, 103, 101>>,
     <<112, 97, 116, 104>>, <<100, 111, 109, 97, 105, 110>>,
     <<115, 97, 109, 101, 115, 105, 116, 101>>}

\* "secure", "httponly".
Flags == {<<115, 101, 99, 117, 114, 101>>, <<104, 116, 116, 112, 111, 110, 108, 121>>}

\* tolower in the C locale; a byte above 127 is left as it is.
ToLower(c) == IF c \in Upper THEN c + 32 ELSE c

\* case_insensitive_equal to one of the words.
SameWord(name, words) == [i \in DOMAIN name |-> ToLower(name[i])] \in words

\* std::to_string
Decimal(n) ==
    LET digits[k \in 0..n] ==
            IF k < 10 THEN <<48 + k>> ELSE Append(digits[k \div 10], 48 + (k % 10))
    IN  digits[n]

\* What to_cookie_string writes for one cookie, cut at its "; ": name and value,
\* then "Path=" and "Expires=" if they are set.
CookieFragments(c) ==
    <<c.name \o <<61>> \o c.value>>
        \o (IF c.path = <<>> THEN <<>> ELSE <<<<80, 97, 116, 104>> \o <<61>> \o c.path>>)
        \o (IF c.expires = 0 THEN <<>>
            ELSE <<<<69, 120, 112, 105, 114, 101, 115>> \o <<61>> \o Decimal(c.expires)>>)

to_cookie_string(cookies) ==
    Join(Concat([i \in DOMAIN cookies |-> CookieFragments(cookies[i])]), <<59, 32>>)

\* A name longer than "__Host-" that starts with "__" loses what stands before
\* its first '-', and the '-'.  None of Options and Flags starts like that.
StripPrefix(name) ==
    LET dash == Find(name, {45}, 1)
    IN  IF Len(name) > 7 /\ name[1] = 95 /\ name[2] = 95 /\ dash # 0
        THEN SubSeq(name, dash + 1, Len(name)) ELSE name

\* Mutant: the blank after the semicolon is not skipped.
AfterFlagBlank(text, sep) == sep + 1

\* Where parsing goes on after a flag whose name ends at sep.
AfterFlag(text, sep) == IF text[sep] = 59 THEN sep + 2 ELSE sep + 1

\* The position of the next "; ".
FindFragmentEnd(text, from) ==
    LET at == {i \in from..(Len(text) - 1) : text[i] = 59 /\ text[i + 1] = 32}
    IN  IF at = {} THEN 0 ELSE Min(at)

\* One turn of the loop; rest[p] is what it finds from position p on.
ParseCookieAt(text, rest, start) ==
    LET sep   == Find(text, {61, 59}, start)
        name  == SubSeq(text, start, sep - 1)
        end   == FindFragmentEnd(text, sep + 1)
        value == SubSeq(text, sep + 1, (IF end = 0 THEN Len(text) ELSE end) - 1)
        found == IF SameWord(name, Options) THEN <<>> ELSE <<<<StripPrefix(name), value>>>>
    IN  CASE sep = 0 -> <<>>
          [] sep # 0 /\ SameWord(name, Flags) -> rest[AfterFlag(text, sep)]
          [] sep # 0 /\ ~SameWord(name, Flags) /\ end = 0 -> found
          [] OTHER -> found \o rest[end + 2]

\* The cookies that the loop emplaces, one after the other.
EmplacedCookies(cookie) ==
    LET text == Append(cookie, 59)
        rest[start \in 1..(Len(text) + 2)] == ParseCookieAt(text, rest, start)
    IN  rest[1]

\* An unordered multimap: how often each element is in it.
Multimap(s) == [x \in Range(s) |-> Cardinality({i \in DOMAIN s : s[i] = x})]

parse_cookie(cookie) == Multimap(EmplacedCookies(cookie))

-----------------------------------------------------------------------------
(* URLs: "a" stands for a letter, "1" for a digit, "http" for a scheme.    *)

Alpha == {"a"}
Alnum == {"a", "1"}

is_valid_domain(domain) ==
    LET dot == Find(domain, {"."}, 1)
    IN  /\ dot \notin {0, 1, Len(domain)}
        /\ Range(domain) \subseteq Alnum \cup {"-", "."}
        /\ Range(SubSeq(domain, dot + 1, Len(domain))) \subseteq Alpha

is_valid_path(path) ==
    /\ path # <<>>
    /\ path[1] = "/"
    /\ Range(path) \subseteq Alnum \cup {"/", "-", "_"}

\* One turn of the loop; rest[p] is what it says of the parameters from p on.
ParamValidAt(query, rest, pos) ==
    LET equal == Find(query, {"="}, pos)
        amp   == Find(query, {"&"}, pos)
    IN  \/ pos > Len(query)
        \/ /\ equal # 0
           /\ amp = 0 \/ equal < amp
           /\ amp # 0 => rest[amp + 1]

is_valid_query(query) ==
    LET rest[pos \in 1..(Len(query) + 1)] == ParamValidAt(query, rest, pos)
    IN  query # <<>> /\ query[1] = "?" /\ rest[2]

\* Mutant: only the path ends the domain.
DomainEndAtPath(url, path, query) == (IF path # 0 THEN path ELSE Len(url) + 1) - 1

\* The domain ends where the path, or without one the query, starts.
DomainEnd(url, path, query) ==
    (IF path # 0 THEN path ELSE IF query # 0 THEN query ELSE Len(url) + 1) - 1

is_valid_url(url, protocol) ==
    LET scheme == Find(url, {"://"}, 1)
        path   == Find(url, {"/"}, scheme + 1)
        query  == Find(url, {"?"}, scheme + 1)
    IN  /\ scheme # 0
        /\ SubSeq(url, 1, scheme - 1) \in protocol
        /\ is_valid_domain(SubSeq(url, scheme + 1, DomainEnd(url, path, query)))
        /\ path # 0 =>
               is_valid_path(SubSeq(url, path, IF query # 0 THEN query - 1 ELSE Len(url)))
        /\ query # 0 => is_valid_query(SubSeq(url, query, Len(url)))
=============================================================================
