---------------------------- MODULE CollectorUrl ----------------------------
(***************************************************************************)
(* parseHttpUrl, which cuts pg_eatrace.collector_url into host, port and   *)
(* path, and the Host header that httpPostJson builds from the parts.      *)
(*                                                                         *)
(* A URL is a sequence of its scheme, "[", "]", ":", "/", numbers (a       *)
(* number is a single token) and names.                                    *)
(***************************************************************************)
EXTENDS Naturals, Sequences, FiniteSetsExt

CONSTANTS
    Numbers, Names,                \* the tokens that are numbers, and all other text
    HostSize, PortSize, PathSize   \* the buffers of ParsedUrl, in tokens

Http == "http://"   \* in any case
Punctuation == {"[", "]", ":", "/"}

DefaultPort == <<"80">>
DefaultPath == <<"/">>

At(url, i) == IF i <= Len(url) THEN url[i] ELSE ""

\* The first position from i on whose token is in the set, or is not in it.
Find(url, tokens, i) == Min({Len(url) + 1} \cup {j \in i..Len(url) : url[j] \in tokens})
Skip(url, tokens, i) == Min({Len(url) + 1} \cup {j \in i..Len(url) : url[j] \notin tokens})

Invalid == [valid |-> FALSE]

\* Slip: the terminator of a string is forgotten.
FitsExactly(part, size) == Len(part) \in 1..size

\* A part is there and fits its buffer with the terminator.
Fits(part, size) == Len(part) \in 1..(size - 1)

\* From the end of the host on
ParsePortAndPath(url, host, hostEnd) ==
    LET hasPort == At(url, hostEnd) = ":"
        portEnd == IF hasPort THEN Skip(url, Numbers, hostEnd + 1) ELSE hostEnd
        port == IF hasPort THEN SubSeq(url, hostEnd + 1, portEnd - 1) ELSE DefaultPort
        path == IF portEnd > Len(url) THEN DefaultPath ELSE SubSeq(url, portEnd, Len(url))
    IN  IF /\ Fits(host, HostSize) /\ Fits(port, PortSize)
           /\ path[1] = "/" /\ Fits(path, PathSize)
        THEN [valid |-> TRUE, host |-> host, port |-> port, path |-> path]
        ELSE Invalid

\* A host in brackets may hold anything else; without, it ends at a port or a path.
ParseHttpUrl(url) ==
    LET closingBracket == Find(url, {"]"}, 2)
        hostEnd == Find(url, {":", "/"}, 2)
    IN  CASE At(url, 1) # Http -> Invalid
          [] At(url, 1) = Http /\ At(url, 2) = "[" ->
                IF closingBracket > Len(url) THEN Invalid
                ELSE ParsePortAndPath(url, SubSeq(url, 3, closingBracket - 1),
                                      closingBracket + 1)
          [] OTHER -> ParsePortAndPath(url, SubSeq(url, 2, hostEnd - 1), hostEnd)

\* httpPostJson: brackets for a host with a colon, and no port when it is 80
HostHeader(parsed) ==
    (IF \E i \in 1..Len(parsed.host) : parsed.host[i] = ":"
     THEN <<"[">> \o parsed.host \o <<"]">> ELSE parsed.host)
    \o (IF parsed.port = DefaultPort THEN <<>> ELSE <<":">> \o parsed.port)

-----------------------------------------------------------------------------
\* What a URL is, said by writing instead of by reading.
Strings(tokens, size) == UNION {[1..n -> tokens] : n \in 1..(size - 1)}
Tokens == Punctuation \cup Numbers \cup Names

\* What may stand between brackets, and what may stand without
IsEnclosed(host) == \A i \in 1..Len(host) : host[i] # "]"
IsBare(host) == host[1] # "[" /\ \A i \in 1..Len(host) : host[i] \notin {":", "/"}

Parts == [valid : {TRUE},
          host : {host \in Strings(Tokens, HostSize) : IsEnclosed(host) \/ IsBare(host)},
          port : Strings(Numbers, PortSize),
          path : {path \in Strings(Tokens, PathSize) : path[1] = "/"}]

\* A host as it should be: a name, or an address with colons.
IsAddress(host) == \A i \in 1..Len(host) : host[i] \notin {"[", "]", "/"}

\* Every way to write a URL with these parts
Spellings(parts) ==
    {<<Http>> \o host \o port \o path :
        host \in (IF IsEnclosed(parts.host) THEN {<<"[">> \o parts.host \o <<"]">>} ELSE {})
                   \cup (IF IsBare(parts.host) THEN {parts.host} ELSE {}),
        port \in {<<":">> \o parts.port} \cup (IF parts.port = DefaultPort THEN {<<>>} ELSE {}),
        path \in {parts.path} \cup (IF parts.path = DefaultPath THEN {<<>>} ELSE {})}
=============================================================================
