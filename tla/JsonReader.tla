----------------------------- MODULE JsonReader -----------------------------
(***************************************************************************)
(* What a collector makes of a document: a reader for JSON (RFC 8259) over *)
(* the tokens of OtlpJson.  It is the judge of that module and models      *)
(* nothing of pg_eatrace.                                                  *)
(*                                                                         *)
(* A value is a pair of its kind and its content, so that values of two    *)
(* kinds can be compared.  The reader takes one token after the other; its *)
(* state is what it expects and what is open, an array, an object, a       *)
(* member that has its name, or a string, each within another one and with *)
(* what it has so far.                                                     *)
(***************************************************************************)
EXTENDS Naturals, Sequences

Quote == "\""
Escape == "\\"
Controls == {"LF", "CR", "TAB", "control"}
\* What is no value by itself, although it is no bracket either
NoValues == {"]", "}", ",", ":", Escape, "NaN", "Infinity", "-Infinity"} \cup Controls

\* What follows a backslash, by the character it stands for
Unescaped == [c \in {Quote, Escape, "n", "r", "t", "u0001"} |->
    CASE c = "n" -> "LF" [] c = "r" -> "CR" [] c = "t" -> "TAB" [] c = "u0001" -> "control"
      [] OTHER -> c]

Open(kind, content, within) == [kind |-> kind, content |-> content, within |-> within]
Add(open, x) == Open(open.kind, Append(open.content, x), open.within)

State(expects, open) == [expects |-> expects, open |-> open]
Start == State("value", Open("document", <<>>, <<>>))
Unreadable == State("nothing", Open("none", <<>>, <<>>))

\* A value that is complete goes to what it is in; in an object it is a name.
Deliver(value, open) ==
    CASE open.kind = "object" -> State("colon", Open("member", value, open))
      [] open.kind = "member" -> State("comma", Add(open.within, <<open.content, value>>))
      [] OTHER -> State("comma", Add(open, value))

\* The next character of a string, or its end; control characters must be escaped.
TakeInString(state, token) ==
    CASE state.expects = "escaped" ->
            IF token \in DOMAIN Unescaped THEN State("character", Add(state.open, Unescaped[token]))
            ELSE Unreadable
      [] state.expects = "character" ->
            CASE token = Quote -> Deliver(<<"string", state.open.content>>, state.open.within)
              [] token = Escape -> State("escaped", state.open)
              [] token \in Controls -> Unreadable
              [] OTHER -> State("character", Add(state.open, token))

\* An array or object that was just opened may be closed, or has its first item or name.
Take(state, token) ==
    LET value == state.expects \in {"value", "first item"}
        name == state.expects \in {"name", "first name"}
        closes(kind, first) == state.open.kind = kind /\ state.expects \in {"comma", first}
    IN  CASE state.expects \in {"character", "escaped"} -> TakeInString(state, token)
          [] token = Quote /\ (value \/ name) ->
                State("character", Open("string", <<>>, state.open))
          [] token = "[" /\ value -> State("first item", Open("array", <<>>, state.open))
          [] token = "{" /\ value -> State("first name", Open("object", <<>>, state.open))
          [] token \notin {Quote, "[", "{"} \cup NoValues /\ value ->
                Deliver(<<"bare", token>>, state.open)
          [] token = "]" /\ closes("array", "first item") ->
                Deliver(<<"array", state.open.content>>, state.open.within)
          [] token = "}" /\ closes("object", "first name") ->
                Deliver(<<"object", state.open.content>>, state.open.within)
          [] token = "," /\ state.expects = "comma" /\ state.open.kind = "array" ->
                State("value", state.open)
          [] token = "," /\ state.expects = "comma" /\ state.open.kind = "object" ->
                State("name", state.open)
          [] token = ":" /\ state.expects = "colon" -> State("value", state.open)
          [] OTHER -> Unreadable

\* What a block of tokens, the n-th of a document, makes of the state it finds.
Block == 40
TakeBlock(state, document, n) ==
    LET after[i \in 0..Block] ==
            IF i = 0 THEN state
            ELSE IF n * Block + i > Len(document) THEN after[i - 1]
            ELSE Take(after[i - 1], document[n * Block + i])
    IN  IF state.expects = "nothing" THEN Unreadable ELSE after[Block]

\* The value of a whole document
Parsed(document) ==
    LET blocks == Len(document) \div Block + 1
        after[n \in 0..blocks] ==
            IF n = 0 THEN Start ELSE TakeBlock(after[n - 1], document, n - 1)
        end == after[blocks]
    IN  IF end.open.kind = "document" /\ end.expects = "comma" THEN end.open.content[1]
        ELSE <<"none">>
=============================================================================
