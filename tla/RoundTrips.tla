----------------------------- MODULE RoundTrips -----------------------------
(***************************************************************************)
(* Inputs of the conversions of Codecs: a behaviour picks a kind of input  *)
(* and lets it grow by one element per step, so that a violation comes     *)
(* with the shortest input that shows it.  Each property compares a        *)
(* parser with its encoder, or the URL validator with a grammar.           *)
(***************************************************************************)
EXTENDS Codecs

CONSTANTS
    QueryPairs, MaxParams,      \* <<key, value>> of a query
    Bytes, MaxBytes,            \* what base64url is given
    CookieSet, MaxCookies,      \* cookies of a header
    Protocols,                  \* the schemes that is_valid_url accepts
    UrlStarts, UrlTokens, MaxUrl

VARIABLES kind, input

vars == <<kind, input>>

Byte == 0..255

\* A name holds neither '=' nor ';' and is none of the reserved words, and no
\* value holds the "; " between two fragments.
PlainName(name) ==
    Range(name) \cap {61, 59} = {} /\ ~SameWord(name, Options) /\ ~SameWord(name, Flags)
WholeValue(value) == \A i \in 1..(Len(value) - 1) : value[i] = 59 => value[i + 1] # 32

\* A flag, in any spelling, is what a server may add after a cookie; the library
\* never does.
CookieRecords ==
    [name : Seq(Byte), value : Seq(Byte), path : Seq(Byte), expires : Nat, flag : Seq(Byte)]

PlainCookie(c) ==
    /\ PlainName(c.name) /\ WholeValue(c.value) /\ WholeValue(c.path)
    /\ c.flag # <<>> => SameWord(c.flag, Flags)

ASSUME InputsAssumption ==
    /\ QueryPairs \subseteq Seq(Byte) \X Seq(Byte)
    /\ Bytes \subseteq Byte
    /\ \A c \in CookieSet : c \in CookieRecords /\ PlainCookie(c)
    /\ \A p \in Protocols : p \in Seq(STRING \ {"/"})
    /\ UrlTokens \subseteq STRING \ {"://"}
    /\ \A s \in UrlStarts :
         s \in Seq(STRING) /\ \A i, j \in DOMAIN s : s[i] = "://" /\ s[j] = "://" => i = j
    /\ {MaxParams, MaxBytes, MaxCookies, MaxUrl} \subseteq Nat

Grows(k, n, Elements) ==
    /\ kind = k
    /\ Len(input) < n
    /\ \E x \in Elements : input' = Append(input, x)
    /\ UNCHANGED kind

Init ==
    \/ kind \in {"query", "bytes", "cookies"} /\ input = <<>>
    \/ kind = "url" /\ input \in UrlStarts

Next ==
    \/ Grows("query", MaxParams, QueryPairs)
    \/ Grows("bytes", MaxBytes, Bytes)
    \/ Grows("cookies", MaxCookies, CookieSet)
    \/ Grows("url", MaxUrl, UrlTokens)

Spec == Init /\ [][Next]_vars

-----------------------------------------------------------------------------
\* The fields of a text after one more character.
Cut(fields, c, delim) ==
    IF c = delim THEN Append(fields, <<>>)
    ELSE [fields EXCEPT ![Len(fields)] = Append(@, c)]

\* The text cut at delim, delimiters dropped.
Split(text, delim) ==
    LET fields[n \in 0..Len(text)] ==
            IF n = 0 THEN <<<<>>>> ELSE Cut(fields[n - 1], text[n], delim)
    IN  fields[Len(text)]

\* What a server reads out of a query string.
Params(text) ==
    LET pairs == Split(text, 38)
    IN  [i \in DOMAIN pairs |->
            LET halves == Split(pairs[i], 61)
            IN  <<percent_decode(halves[1]), percent_decode(halves[2])>>]

\* Whatever bytes keys and values hold, the string that to_query_string writes
\* in the curl build splits at '&' and '=' into the same pairs, in order, once
\* percent_decode undoes percent_encode: no byte of a value is taken for a
\* delimiter, an escape at the very end of the text included.
QueryRoundTrip ==
    kind = "query" /\ input # <<>> => Params(to_query_string(input)) = input

\* base64url_decode gives back the bytes base64url_encode was given, for every
\* length modulo three, although the encoder leaves the padding out.
Base64RoundTrip ==
    kind = "bytes" => base64url_decode(base64url_encode(input)) = input

\* The fragments a server sends for a cookie.
ServerFragments(c) == CookieFragments(c) \o (IF c.flag = <<>> THEN <<>> ELSE <<c.flag>>)

ServerText(cookies) ==
    Join(Concat([i \in DOMAIN cookies |-> ServerFragments(cookies[i])]), <<59, 32>>)

\* parse_cookie finds exactly the cookies of a text, equal ones as often as they
\* are there, with their values whole and their names without a prefix: path,
\* expiry and flags of one cookie, at the end of the text or before another
\* cookie, neither become cookies nor swallow one.
CookieRoundTrip ==
    kind = "cookies" /\ input # <<>> =>
        parse_cookie(ServerText(input))
            = Multimap([i \in DOMAIN input |-> <<StripPrefix(input[i].name), input[i].value>>])

\* A host name: labels of letters, digits and '-' with a dot between two of
\* them, the last one of letters only.
HostName(name) ==
    /\ Range(name) \subseteq Alnum \cup {"-", "."}
    /\ \A k \in DOMAIN name : name[k] = "." => k \notin {1, Len(name)} /\ name[k + 1] # "."
    /\ \E d \in DOMAIN name :
         name[d] = "." /\ Range(SubSeq(name, d + 1, Len(name))) \subseteq Alpha

\* A URL by its grammar: a host name, then a path or none, then a query or
\* none.  Every parameter, whether the query or an '&' starts it, has a '='
\* before the next '&'; only the last one may be empty.
QueryGrammar(q) ==
    \A p \in 2..Len(q) :
        p = 2 \/ q[p - 1] = "&" =>
            \E e \in p..Len(q) : q[e] = "=" /\ \A k \in p..e : q[k] # "&"

UrlGrammar(rest) ==
    \E i, j \in 0..Len(rest) :
        LET domain == SubSeq(rest, 1, i)
            path   == SubSeq(rest, i + 1, j)
            query  == SubSeq(rest, j + 1, Len(rest))
        IN  /\ i <= j
            /\ HostName(domain)
            /\ path # <<>> => path[1] = "/" /\ Range(path) \subseteq Alnum \cup {"/", "-", "_"}
            /\ query # <<>> => query[1] = "?" /\ QueryGrammar(query)

WellFormed(url) ==
    \E s \in DOMAIN url :
        /\ url[s] = "://"
        /\ SubSeq(url, 1, s - 1) \in Protocols
        /\ UrlGrammar(SubSeq(url, s + 1, Len(url)))

\* The first '/' stands behind a '?'.
SlashInQuery(url) ==
    \E q, p \in DOMAIN url :
        q < p /\ url[q] = "?" /\ url[p] = "/" /\ \A k \in 1..q : url[k] # "/"

\* The host name has two dots.
Subdomain(url) ==
    \E s, i, j \in DOMAIN url :
        /\ s < i /\ i < j
        /\ url[s] = "://" /\ url[i] = "." /\ url[j] = "."
        /\ \A k \in s..j : url[k] \notin {"/", "?"}

\* is_valid_url accepts no text outside the grammar, and a URL of the grammar is
\* cut where the grammar cuts it and accepted, but for two kinds: a query that
\* follows the domain directly and holds a '/' (to_query_string never writes
\* one), and a host name of more than two labels, see UrlAccepted.
UrlSplits ==
    kind = "url" =>
        /\ is_valid_url(input, Protocols) => WellFormed(input)
        /\ WellFormed(input) =>
               is_valid_url(input, Protocols) \/ SlashInQuery(input) \/ Subdomain(input)

\* What the comments of is_valid_domain and is_valid_url say, and the client of
\* the repository's README needs, whose URL is "wss://echo-websocket.fly.dev/":
\* a correctly formatted URL passes.  It does not: is_valid_domain takes what
\* follows the first dot for the top-level domain and finds the second dot there.
UrlAccepted ==
    kind = "url" /\ WellFormed(input) /\ ~SlashInQuery(input) => is_valid_url(input, Protocols)
=============================================================================
