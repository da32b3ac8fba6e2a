SPECIFICATION Spec
CONSTANTS
    QueryPairs <- MCQueryPairs
    MaxParams = 2
    \* Bit patterns that fill, empty and straddle the six-bit groups.
    Bytes = {0, 1, 62, 170, 255}
    MaxBytes = 5
    CookieSet <- MCCookieSet
    MaxCookies = 2
    Protocols <- MCProtocols
    UrlStarts <- MCUrlStarts
    UrlTokens = {"a", "1", ".", "/", "?", "=", "&", "-"}
    MaxUrl = 8
INVARIANTS
    QueryRoundTrip
    Base64RoundTrip
    CookieRoundTrip
    UrlSplits
CHECK_DEADLOCK FALSE
