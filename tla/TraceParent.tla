---------------------------- MODULE TraceParent ----------------------------
(***************************************************************************)
(* The traceparent parsers: of a W3C value (pg_eatrace.traceparent), and   *)
(* of the SQLCommenter comment in the text of a statement.                 *)
(*                                                                         *)
(* A text is a sequence of tokens: the comment marks, the key with the     *)
(* quote that ends it, a lone quote, the dollar quote, and values, which   *)
(* are known by name.  Everything else a text is made of makes no          *)
(* difference to the scan.                                                 *)
(***************************************************************************)
EXTENDS Integers, Sequences, FiniteSetsExt

CONSTANT Values   \* what the values that occur in texts look like, by name

Key == "traceparent='"
Quote == "'"
Marks == {"/*", "*/", Key, Quote, "$$"}

\* The fields of a value as numbers, for those that are not hexadecimal NotHex.
NotHex == -1

NoContext == [found |-> FALSE]
Context(traceId, parentSpanId, sampled) ==
    [found |-> TRUE, traceId |-> traceId, parentSpanId |-> parentSpanId,
     sampled |-> sampled]

IsNonzeroId(id) == id # NotHex /\ id # 0

ParseTraceParentValue(value) ==
    IF /\ value.length = 55 /\ value.dashes
       /\ value.version # NotHex /\ value.version # 255
       /\ IsNonzeroId(value.traceId) /\ IsNonzeroId(value.parentSpanId)
       /\ value.flags # NotHex
    THEN Context(value.traceId, value.parentSpanId, value.flags % 2 = 1)
    ELSE NoContext

-----------------------------------------------------------------------------
\* strstr from a position on; after the end of the text when there is no such token.
NextToken(text, token, from) ==
    Min({Len(text) + 1} \cup {i \in from..Len(text) : text[i] = token})

\* What stands after a key: 55 characters and the closing quote, before the comment
\* ends.
ValueAt(text, i, commentEnd) ==
    IF /\ i + 1 < commentEnd
       /\ text[i] \in DOMAIN Values /\ Values[text[i]].length = 55
       /\ text[i + 1] = Quote
    THEN ParseTraceParentValue(Values[text[i]])
    ELSE NoContext

\* Slip: the key may lie behind the end of the comment.
ContextInCommentAnywhere(text, open, commentEnd) ==
    ValueAt(text, NextToken(text, Key, open + 1) + 1, Len(text) + 1)

\* Only the first key after the comment's start is looked at.
ContextInComment(text, open, commentEnd) ==
    LET hit == NextToken(text, Key, open + 1) IN
    IF hit < commentEnd THEN ValueAt(text, hit + 1, commentEnd) ELSE NoContext

ParseTraceParentFromQuery(text) ==
    LET scan[cursor \in 1..(Len(text) + 1)] ==
            LET open == NextToken(text, "/*", cursor)
                commentEnd == NextToken(text, "*/", open + 1)
                context == ContextInComment(text, open, commentEnd)
            IN  IF commentEnd > Len(text) THEN NoContext
                ELSE IF context.found THEN context
                ELSE scan[commentEnd + 1]
    IN  scan[1]

-----------------------------------------------------------------------------
\* How PostgreSQL reads a text: the place of every token.  Comments nest, nothing
\* starts a comment in a literal, and the key opens one when it stands in the code.
After(place, token) ==
    CASE place = "code" -> (CASE token = "/*" -> "comment"
                              [] token \in {Quote, Key} -> "string"
                              [] token = "$$" -> "dollar"
                              [] OTHER -> "code")
      [] place = "comment" -> (CASE token = "*/" -> "code"
                                 [] token = "/*" -> "inner comment"
                                 [] OTHER -> "comment")
      [] place = "inner comment" -> IF token = "*/" THEN "comment" ELSE place
      [] place = "string" -> IF token \in {Quote, Key} THEN "code" ELSE place
      [] place = "dollar" -> IF token = "$$" THEN "code" ELSE place

\* Places(text)[i] is where token i stands; the last is where the text ends.
Places(text) ==
    LET place[i \in 1..(Len(text) + 1)] ==
            IF i = 1 THEN "code" ELSE After(place[i - 1], text[i - 1])
    IN  place

\* A text the server may run, and one in which every comment mark is one.
IsStatement(text) ==
    /\ Places(text)[Len(text) + 1] = "code"
    /\ \A i \in 1..Len(text) :
          text[i] = "*/" \/ text[i] \in DOMAIN Values => Places(text)[i] # "code"
IsPlain(text) ==
    \A i \in 1..Len(text) :
        /\ text[i] = "/*" => Places(text)[i] = "code"
        /\ text[i] = "*/" => Places(text)[i] = "comment"

\* The values PostgreSQL would call commented, each the first of its comment.
Commented(text) ==
    LET places == Places(text)
        Opens(i) == Max({j \in 1..i : text[j] = "/*" /\ places[j] = "code"})
    IN  {i \in 1..(Len(text) - 2) :
            /\ places[i] = "comment" /\ places[i + 2] = "comment"
            /\ text[i] = Key /\ text[i + 2] = Quote
            /\ \A j \in (Opens(i) + 1)..(i - 1) : text[j] # Key
            /\ text[i + 1] \in DOMAIN Values
            /\ ParseTraceParentValue(Values[text[i + 1]]).found}

FirstCommented(text) ==
    IF Commented(text) = {} THEN NoContext
    ELSE ParseTraceParentValue(Values[text[Min(Commented(text)) + 1]])
=============================================================================
