------------------------------ MODULE MCCodecs ------------------------------
EXTENDS RoundTrips

\* Characters with a meaning of their own (% & + = and the two hex digits of
\* an escape), a letter, a NUL and a byte with its top bit set.
QueryWords == {<<>>} \cup {<<c>> : c \in {0, 37, 38, 43, 61, 65, 255}}
MCQueryPairs == QueryWords \X (QueryWords \cup {<<37, 52, 49>>, <<65, 37>>, <<255, 38>>})

\* Names "n", "__Host-" (too short to lose it), "__Host-n" and "__a-Path" (which
\* is no path); values with each of the marks in them; flags "Secure", "HTTPonly".
MCCookieSet ==
    [name : {<<110>>, <<95, 95, 72, 111, 115, 116, 45>>, <<95, 95, 72, 111, 115, 116, 45, 110>>,
             <<95, 95, 97, 45, 80, 97, 116, 104>>},
     value : {<<>>, <<118>>, <<118, 61>>, <<118, 59, 118>>},
     path : {<<>>, <<47>>}, expires : {0, 10},
     flag : {<<>>, <<83, 101, 99, 117, 114, 101>>, <<72, 84, 84, 80, 111, 110, 108, 121>>}]

MCProtocols == {<<"http">>}
MCUrlStarts == {<<"http", "://">>, <<"ftp", "://">>, <<"http">>}
=============================================================================
