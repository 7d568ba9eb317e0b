--------------------------- MODULE DocumentProofs ---------------------------
(***************************************************************************)
(* The proof that a collector reads back from a document the spans that    *)
(* were put into it, however many there are and whatever texts, optional   *)
(* parts and numbers they have (DocumentReadsBack).                        *)
(*                                                                         *)
(* The reader takes one token after the other, so that what it makes of a  *)
(* text does not depend on what follows: it goes from one state to another *)
(* by the text (Goes).  A text is read as a value when the reader goes by  *)
(* it from every state in which it expects a value to the one in which it  *)
(* has been delivered (Reads), and as some items or members accordingly    *)
(* (AreRead).  Both put together as the serializer puts its texts          *)
(* together, from a character to the whole document.  Apart from that, the *)
(* attributes of a span are of the kinds that can be written and no key is *)
(* there twice (Carries), which is shown type by type.                     *)
(***************************************************************************)
EXTENDS ConversionsProofs

\* Sequences, whatever they are of.
IsSequence(s) == \E S : s \in Seq(S)

\* Two sequences in a row are one, with the items of both.
LEMMA BothAreSequences ==
    ASSUME NEW s, IsSequence(s), NEW t, IsSequence(t)
    PROVE  /\ IsSequence(s \o t)
           /\ Len(s) \in Nat /\ Len(t) \in Nat /\ Len(s \o t) = Len(s) + Len(t)
           /\ \A i \in 1..Len(s) : (s \o t)[i] = s[i]
           /\ \A i \in 1..Len(t) : (s \o t)[Len(s) + i] = t[i]
<1>1. PICK S : s \in Seq(S)
  BY DEF IsSequence
<1>2. PICK T : t \in Seq(T)
  BY DEF IsSequence
<1> DEFINE U == S \cup T
           u == s \o t
           m == Len(s)
           n == Len(t)
<1>3. s \in Seq(U) /\ t \in Seq(U)
  <2>1. S \subseteq U /\ T \subseteq U
    OBVIOUS
  <2> HIDE DEF U
  <2> QED  BY <1>1, <1>2, <2>1
<1> HIDE DEF U
<1>4. /\ u \in Seq(U) /\ m \in Nat /\ n \in Nat /\ Len(u) = m + n
      /\ \A i \in 1..Len(u) : u[i] = IF i <= m THEN s[i] ELSE t[i - m]
  BY <1>3
<1>5. IsSequence(u)
  BY <1>4 DEF IsSequence
<1> HIDE DEF u, m, n
<1>6. \A i \in 1..m : i \in 1..(m + n) /\ i <= m
  BY <1>4
<1>7. \A i \in 1..m : u[i] = s[i]
  BY <1>4, <1>6
<1>8. ASSUME NEW i \in 1..n
      PROVE  u[m + i] = t[i]
  <2> DEFINE k == m + i
  <2>1. k \in 1..(m + n) /\ ~(k <= m) /\ k - m = i
    BY <1>4
  <2> HIDE DEF k
  <2>2. u[k] = t[k - m]
    BY <1>4, <2>1
  <2>3. u[k] = t[i]
    BY <2>1, <2>2
  <2> QED  BY <2>3 DEF k
<1> QED  BY <1>4, <1>5, <1>7, <1>8 DEF u, m, n

LEMMA Associative ==
    ASSUME NEW a, IsSequence(a), NEW b, IsSequence(b), NEW c, IsSequence(c)
    PROVE  (a \o b) \o c = a \o (b \o c)
<1>1. PICK A : a \in Seq(A)
  BY DEF IsSequence
<1>2. PICK B : b \in Seq(B)
  BY DEF IsSequence
<1>3. PICK C : c \in Seq(C)
  BY DEF IsSequence
<1> DEFINE U == A \cup B \cup C
<1>4. a \in Seq(U) /\ b \in Seq(U) /\ c \in Seq(U)
  <2>1. A \subseteq U /\ B \subseteq U /\ C \subseteq U
    OBVIOUS
  <2> HIDE DEF U
  <2> QED  BY <1>1, <1>2, <1>3, <2>1
<1> HIDE DEF U
<1> QED  BY <1>4, ConcatAssociative

LEMMA EmptyAndSingle ==
    ASSUME NEW s, IsSequence(s), NEW x
    PROVE  /\ <<>> \o s = s /\ s \o <<>> = s /\ IsSequence(<<>>)
           /\ IsSequence(<<x>>) /\ Append(s, x) = s \o <<x>>
           /\ Len(<<x>>) = 1 /\ <<x>>[1] = x
<1>1. PICK S : s \in Seq(S)
  BY DEF IsSequence
<1> DEFINE U == S \cup {x}
<1>2. s \in Seq(U) /\ x \in U
  <2>1. S \subseteq U
    OBVIOUS
  <2>2. x \in U
    OBVIOUS
  <2> HIDE DEF U
  <2> QED  BY <1>1, <2>1, <2>2
<1> HIDE DEF U
<1>3. <<x>> \in Seq(U) /\ <<>> \in Seq(U)
  BY <1>2
<1>4. Append(s, x) = s \o <<x>>
  BY <1>2, AppendIsConcat
<1> QED  BY <1>2, <1>3, <1>4, ConcatEmptySeq DEF IsSequence

LEMMA SinglesAreSequences == IsSequence(<<>>) /\ \A x : IsSequence(<<x>>)
<1>1. IsSequence(<<>>)
  <2>1. <<>> \in Seq({})
    OBVIOUS
  <2> QED  BY <2>1 DEF IsSequence
<1> QED  BY <1>1, EmptyAndSingle

\* One item more
LEMMA Longer1 ==
    ASSUME NEW a, NEW b
    PROVE  <<a>> \o <<b>> = <<a, b>> /\ IsSequence(<<a, b>>)
<1> DEFINE S == {a, b}
           t == <<a>>
           u == <<a, b>>
<1>1. a \in S /\ b \in S
  OBVIOUS
<1> HIDE DEF S
<1>2. t \in Seq(S) /\ u \in Seq(S)
  BY <1>1
<1>3. u = [i \in 1..2 |-> u[i]]
  BY <1>1
<1>4. Append(t, b) = [i \in 1..2 |-> u[i]]
  BY <1>1
<1> QED  BY <1>1, <1>2, <1>3, <1>4, AppendIsConcat DEF IsSequence

LEMMA Longer2 ==
    ASSUME NEW a, NEW b, NEW c
    PROVE  <<a, b>> \o <<c>> = <<a, b, c>> /\ IsSequence(<<a, b, c>>)
<1> DEFINE S == {a, b, c}
           t == <<a, b>>
           u == <<a, b, c>>
<1>1. a \in S /\ b \in S /\ c \in S
  OBVIOUS
<1> HIDE DEF S
<1>2. t \in Seq(S) /\ u \in Seq(S)
  BY <1>1
<1>3. u = [i \in 1..3 |-> u[i]]
  BY <1>1
<1>4. Append(t, c) = [i \in 1..3 |-> u[i]]
  BY <1>1
<1> QED  BY <1>1, <1>2, <1>3, <1>4, AppendIsConcat DEF IsSequence

LEMMA Longer3 ==
    ASSUME NEW a, NEW b, NEW c, NEW d
    PROVE  <<a, b, c>> \o <<d>> = <<a, b, c, d>> /\ IsSequence(<<a, b, c, d>>)
<1> DEFINE S == {a, b, c, d}
           t == <<a, b, c>>
           u == <<a, b, c, d>>
<1>1. a \in S /\ b \in S /\ c \in S /\ d \in S
  OBVIOUS
<1> HIDE DEF S
<1>2. t \in Seq(S) /\ u \in Seq(S)
  BY <1>1
<1>3. u = [i \in 1..4 |-> u[i]]
  BY <1>1
<1>4. Append(t, d) = [i \in 1..4 |-> u[i]]
  BY <1>1
<1> QED  BY <1>1, <1>2, <1>3, <1>4, AppendIsConcat DEF IsSequence

LEMMA Longer4 ==
    ASSUME NEW a, NEW b, NEW c, NEW d, NEW e
    PROVE  <<a, b, c, d>> \o <<e>> = <<a, b, c, d, e>> /\ IsSequence(<<a, b, c, d, e>>)
<1> DEFINE S == {a, b, c, d, e}
           t == <<a, b, c, d>>
           u == <<a, b, c, d, e>>
<1>1. a \in S /\ b \in S /\ c \in S /\ d \in S /\ e \in S
  OBVIOUS
<1> HIDE DEF S
<1>2. t \in Seq(S) /\ u \in Seq(S)
  BY <1>1
<1>3. u = [i \in 1..5 |-> u[i]]
  BY <1>1
<1>4. Append(t, e) = [i \in 1..5 |-> u[i]]
  BY <1>1
<1> QED  BY <1>1, <1>2, <1>3, <1>4, AppendIsConcat DEF IsSequence

LEMMA Longer5 ==
    ASSUME NEW a, NEW b, NEW c, NEW d, NEW e, NEW f
    PROVE  <<a, b, c, d, e>> \o <<f>> = <<a, b, c, d, e, f>> /\ IsSequence(<<a, b, c, d, e, f>>)
<1> DEFINE S == {a, b, c, d, e, f}
           t == <<a, b, c, d, e>>
           u == <<a, b, c, d, e, f>>
<1>1. a \in S /\ b \in S /\ c \in S /\ d \in S /\ e \in S /\ f \in S
  OBVIOUS
<1> HIDE DEF S
<1>2. t \in Seq(S) /\ u \in Seq(S)
  BY <1>1
<1>3. u = [i \in 1..6 |-> u[i]]
  BY <1>1
<1>4. Append(t, f) = [i \in 1..6 |-> u[i]]
  BY <1>1
<1> QED  BY <1>1, <1>2, <1>3, <1>4, AppendIsConcat DEF IsSequence

LEMMA Longer6 ==
    ASSUME NEW a, NEW b, NEW c, NEW d, NEW e, NEW f, NEW g
    PROVE  /\ <<a, b, c, d, e, f>> \o <<g>> = <<a, b, c, d, e, f, g>>
           /\ IsSequence(<<a, b, c, d, e, f, g>>)
<1> DEFINE S == {a, b, c, d, e, f, g}
           t == <<a, b, c, d, e, f>>
           u == <<a, b, c, d, e, f, g>>
<1>1. a \in S /\ b \in S /\ c \in S /\ d \in S /\ e \in S /\ f \in S /\ g \in S
  OBVIOUS
<1> HIDE DEF S
<1>2. t \in Seq(S) /\ u \in Seq(S)
  BY <1>1
<1>3. u = [i \in 1..7 |-> u[i]]
  BY <1>1
<1>4. Append(t, g) = [i \in 1..7 |-> u[i]]
  BY <1>1
<1> QED  BY <1>1, <1>2, <1>3, <1>4, AppendIsConcat DEF IsSequence

LEMMA Longer7 ==
    ASSUME NEW a, NEW b, NEW c, NEW d, NEW e, NEW f, NEW g, NEW h
    PROVE  /\ <<a, b, c, d, e, f, g>> \o <<h>> = <<a, b, c, d, e, f, g, h>>
           /\ IsSequence(<<a, b, c, d, e, f, g, h>>)
<1> DEFINE S == {a, b, c, d, e, f, g, h}
           t == <<a, b, c, d, e, f, g>>
           u == <<a, b, c, d, e, f, g, h>>
<1>1. a \in S /\ b \in S /\ c \in S /\ d \in S /\ e \in S /\ f \in S /\ g \in S /\ h \in S
  OBVIOUS
<1> HIDE DEF S
<1>2. t \in Seq(S) /\ u \in Seq(S)
  BY <1>1
<1>3. u = [i \in 1..8 |-> u[i]]
  BY <1>1
<1>4. Append(t, h) = [i \in 1..8 |-> u[i]]
  BY <1>1
<1> QED  BY <1>1, <1>2, <1>3, <1>4, AppendIsConcat DEF IsSequence

-----------------------------------------------------------------------------
\* The reader.

\* The reader goes from one state to another by some tokens.
IsReading(run, a, w, b) ==
    /\ run[0] = a /\ run[Len(w)] = b
    /\ \A k \in 1..Len(w) : run[k] = Json!Take(run[k - 1], w[k])
Goes(a, w, b) == IsSequence(w) /\ \E run : IsReading(run, a, w, b)

\* It goes by no token to where it is, by a token to where it takes it, and by two texts
\* in a row where it goes by the second from where it went by the first.
LEMMA GoesNowhere ==
    ASSUME NEW a
    PROVE  Goes(a, <<>>, a)
<1> DEFINE run == [k \in 0..0 |-> a]
<1>1. run[0] = a
  OBVIOUS
<1>2. Len(<<>>) = 0 /\ 1..0 = {}
  OBVIOUS
<1> HIDE DEF run
<1>3. IsReading(run, a, <<>>, a)
  BY <1>1, <1>2 DEF IsReading
<1>4. IsSequence(<<>>)
  BY SinglesAreSequences
<1> QED  BY <1>3, <1>4 DEF Goes

LEMMA GoesOne ==
    ASSUME NEW a, NEW t
    PROVE  Goes(a, <<t>>, Json!Take(a, t))
<1> DEFINE b == Json!Take(a, t)
           w == <<t>>
           run == [k \in 0..1 |-> IF k = 0 THEN a ELSE b]
<1>1. Len(w) = 1 /\ w[1] = t
  OBVIOUS
<1>2. run[0] = a /\ run[1] = b
  <2> HIDE DEF b
  <2> QED  OBVIOUS
<1>3. \A k \in 1..1 : k = 1 /\ k - 1 = 0
  OBVIOUS
<1> HIDE DEF run, w
<1>4. \A k \in 1..Len(w) : run[k] = Json!Take(run[k - 1], w[k])
  <2>1. SUFFICES ASSUME NEW k \in 1..Len(w) PROVE run[k] = Json!Take(run[k - 1], w[k])
    OBVIOUS
  <2>2. k = 1 /\ k - 1 = 0
    BY <1>1, <1>3
  <2>3. run[1] = Json!Take(run[0], w[1])
    BY <1>1, <1>2
  <2> QED  BY <2>2, <2>3
<1>5. IsReading(run, a, w, b)
  BY <1>1, <1>2, <1>4 DEF IsReading
<1>6. IsSequence(w)
  BY SinglesAreSequences DEF w
<1> QED  BY <1>5, <1>6 DEF Goes, w

LEMMA GoesOn ==
    ASSUME NEW a, NEW v, NEW b, Goes(a, v, b), NEW w, NEW c, Goes(b, w, c)
    PROVE  Goes(a, v \o w, c)
<1>1. PICK r : IsReading(r, a, v, b)
  BY DEF Goes
<1>2. PICK s : IsReading(s, b, w, c)
  BY DEF Goes
<1> DEFINE u == v \o w
           m == Len(v)
           n == Len(w)
           run == [k \in 0..(m + n) |-> IF k <= m THEN r[k] ELSE s[k - m]]
<1>3. /\ IsSequence(u) /\ m \in Nat /\ n \in Nat /\ Len(u) = m + n
      /\ \A i \in 1..m : u[i] = v[i]
      /\ \A i \in 1..n : u[m + i] = w[i]
  <2>1. IsSequence(v) /\ IsSequence(w)
    BY DEF Goes
  <2> QED  BY <2>1, BothAreSequences
<1>4. /\ r[0] = a /\ r[m] = b /\ s[0] = b /\ s[n] = c
      /\ \A k \in 1..m : r[k] = Json!Take(r[k - 1], v[k])
      /\ \A k \in 1..n : s[k] = Json!Take(s[k - 1], w[k])
  BY <1>1, <1>2 DEF IsReading
<1> HIDE DEF u, m, n
<1>5. \A k \in 0..m : run[k] = r[k]
  BY <1>3
<1>6. \A k \in 0..n : run[m + k] = s[k]
  <2>1. SUFFICES ASSUME NEW k \in 0..n PROVE run[m + k] = s[k]
    OBVIOUS
  <2>2. m + k \in 0..(m + n) /\ (m + k <= m <=> k = 0) /\ (m + k) - m = k
    BY <1>3
  <2>3. CASE k = 0
    <3>1. m + k = m /\ m \in 0..m
      BY <1>3, <2>3
    <3> HIDE DEF run
    <3> QED  BY <1>4, <1>5, <2>3, <3>1
  <2>4. CASE k # 0
    <3> DEFINE j == m + k
    <3>1. j \in 0..(m + n) /\ ~(j <= m) /\ j - m = k
      BY <2>2, <2>4
    <3> HIDE DEF j
    <3>2. run[j] = s[j - m]
      BY <3>1
    <3>3. run[j] = s[k]
      <4> HIDE DEF run
      <4> QED  BY <3>1, <3>2
    <3> HIDE DEF run
    <3> QED  BY <3>3 DEF j
  <2> QED  BY <2>3, <2>4
<1> HIDE DEF run
<1>7. ASSUME NEW k \in 1..(m + n)
      PROVE  run[k] = Json!Take(run[k - 1], u[k])
  <2>1. CASE k <= m
    <3>1. k \in 1..m /\ k \in 0..m /\ k - 1 \in 0..m
      BY <1>3, <2>1
    <3> QED  BY <1>3, <1>4, <1>5, <3>1
  <2>2. CASE ~(k <= m)
    <3> DEFINE i == k - m
               j == i - 1
    <3>1. i \in 1..n /\ i \in 0..n /\ j \in 0..n /\ k = m + i /\ k - 1 = m + j
      BY <1>3, <2>2
    <3>2. s[i] = Json!Take(s[j], w[i])
      BY <1>4, <3>1
    <3> HIDE DEF i, j
    <3>3. run[k] = s[i] /\ run[k - 1] = s[j] /\ u[k] = w[i]
      BY <1>3, <1>6, <3>1
    <3> QED  BY <3>2, <3>3
  <2> QED  BY <2>1, <2>2
<1>8. run[0] = a /\ run[m + n] = c
  <2>1. 0 \in 0..m /\ n \in 0..n
    BY <1>3
  <2> QED  BY <1>4, <1>5, <1>6, <2>1
<1>9. IsReading(run, a, u, c)
  BY <1>3, <1>7, <1>8 DEF IsReading
<1> QED  BY <1>3, <1>9 DEF Goes, u

\* What the reader makes of a token, by what it expects.
LEMMA TakesQuote ==
    ASSUME NEW e \in {"value", "first item", "name", "first name"}, NEW o
    PROVE  Json!Take(Json!State(e, o), Json!Quote) =
               Json!State("character", Json!Open("string", <<>>, o))
BY DEF Json!Take, Json!State, Json!Quote

LEMMA TakesCharacter ==
    ASSUME NEW o, NEW t
    PROVE  /\ t = Json!Quote =>
                Json!Take(Json!State("character", o), t) =
                   Json!Deliver(<<"string", o.content>>, o.within)
           /\ t = Json!Escape =>
                Json!Take(Json!State("character", o), t) = Json!State("escaped", o)
           /\ t \notin {Json!Quote, Json!Escape} \cup Json!Controls =>
                Json!Take(Json!State("character", o), t) = Json!State("character", Json!Add(o, t))
           /\ t \in DOMAIN Json!Unescaped =>
                Json!Take(Json!State("escaped", o), t) =
                    Json!State("character", Json!Add(o, Json!Unescaped[t]))
<1> DEFINE s == Json!State("character", o)
           z == Json!State("escaped", o)
<1>1. s.expects = "character" /\ s.open = o /\ z.expects = "escaped" /\ z.open = o
  BY DEF Json!State
<1>2. /\ Json!Take(s, t) = Json!TakeInString(s, t)
      /\ Json!Take(z, t) = Json!TakeInString(z, t)
  <2> HIDE DEF s, z
  <2> QED  BY <1>1, Zenon DEF Json!Take
<1> HIDE DEF s, z
<1>3. t = Json!Quote => Json!TakeInString(s, t) = Json!Deliver(<<"string", o.content>>, o.within)
  BY <1>1 DEF Json!TakeInString, Json!Quote, Json!Escape, Json!Controls
<1>4. t = Json!Escape => Json!TakeInString(s, t) = Json!State("escaped", o)
  BY <1>1 DEF Json!TakeInString, Json!Quote, Json!Escape, Json!Controls
<1>5. t \notin {Json!Quote, Json!Escape} \cup Json!Controls =>
         Json!TakeInString(s, t) = Json!State("character", Json!Add(o, t))
  BY <1>1 DEF Json!TakeInString
<1>6. t \in DOMAIN Json!Unescaped =>
         Json!TakeInString(z, t) = Json!State("character", Json!Add(o, Json!Unescaped[t]))
  BY <1>1 DEF Json!TakeInString
<1> QED  BY <1>2, <1>3, <1>4, <1>5, <1>6 DEF s, z

LEMMA TakesOpening ==
    ASSUME NEW e \in {"value", "first item"}, NEW o
    PROVE  /\ Json!Take(Json!State(e, o), "[") =
                 Json!State("first item", Json!Open("array", <<>>, o))
           /\ Json!Take(Json!State(e, o), "{") =
                 Json!State("first name", Json!Open("object", <<>>, o))
BY DEF Json!Take, Json!State, Json!Quote

LEMMA TakesBare ==
    ASSUME NEW e \in {"value", "first item"}, NEW o,
           NEW t, t \notin {Json!Quote, "[", "{"} \cup Json!NoValues
    PROVE  Json!Take(Json!State(e, o), t) = Json!Deliver(<<"bare", t>>, o)
<1>1. t \notin {Json!Quote, "[", "{"}
  OBVIOUS
<1> DEFINE s == Json!State(e, o)
<1>2. s.expects = e /\ s.open = o
  BY DEF Json!State
<1> HIDE DEF s
<1>3. Json!Take(s, t) = Json!Deliver(<<"bare", t>>, o)
  BY <1>1, <1>2 DEF Json!Take, Json!NoValues
<1> QED  BY <1>3 DEF s

LEMMA TakesPunctuation ==
    ASSUME NEW content, NEW within
    PROVE  /\ \A e \in {"comma", "first item"} :
                Json!Take(Json!State(e, Json!Open("array", content, within)), "]") =
                    Json!Deliver(<<"array", content>>, within)
           /\ \A e \in {"comma", "first name"} :
                Json!Take(Json!State(e, Json!Open("object", content, within)), "}") =
                    Json!Deliver(<<"object", content>>, within)
           /\ Json!Take(Json!State("comma", Json!Open("array", content, within)), ",") =
                 Json!State("value", Json!Open("array", content, within))
           /\ Json!Take(Json!State("comma", Json!Open("object", content, within)), ",") =
                 Json!State("name", Json!Open("object", content, within))
           /\ Json!Take(Json!State("colon", Json!Open("member", content, within)), ":") =
                 Json!State("value", Json!Open("member", content, within))
<1>1. \A kind : /\ Json!Open(kind, content, within).kind = kind
                /\ Json!Open(kind, content, within).content = content
                /\ Json!Open(kind, content, within).within = within
  BY DEF Json!Open
<1> DEFINE a == Json!Open("array", content, within)
           o == Json!Open("object", content, within)
           m == Json!Open("member", content, within)
<1>2. /\ a.kind = "array" /\ a.content = content /\ a.within = within
      /\ o.kind = "object" /\ o.content = content /\ o.within = within
      /\ m.kind = "member"
  BY <1>1
<1> HIDE DEF a, o, m
<1>3. \A e \in {"comma", "first item"} :
         Json!Take(Json!State(e, a), "]") = Json!Deliver(<<"array", content>>, within)
  BY <1>2 DEF Json!Take, Json!State, Json!Quote, Json!NoValues
<1>4. \A e \in {"comma", "first name"} :
         Json!Take(Json!State(e, o), "}") = Json!Deliver(<<"object", content>>, within)
  BY <1>2 DEF Json!Take, Json!State, Json!Quote, Json!NoValues
<1>5. Json!Take(Json!State("comma", a), ",") = Json!State("value", a)
  BY <1>2 DEF Json!Take, Json!State, Json!Quote, Json!NoValues
<1>6. Json!Take(Json!State("comma", o), ",") = Json!State("name", o)
  BY <1>2 DEF Json!Take, Json!State, Json!Quote, Json!NoValues
<1>7. Json!Take(Json!State("colon", m), ":") = Json!State("value", m)
  BY <1>2 DEF Json!Take, Json!State, Json!Quote, Json!NoValues
<1> QED  BY <1>3, <1>4, <1>5, <1>6, <1>7 DEF a, o, m

LEMMA DeliversName ==
    ASSUME NEW value, NEW open, open.kind = "object"
    PROVE  Json!Deliver(value, open) = Json!State("colon", Json!Open("member", value, open))
BY DEF Json!Deliver

\* What becomes of a value that is complete
LEMMA Delivers ==
    ASSUME NEW value, NEW content, NEW within
    PROVE  /\ Json!Deliver(value, Json!Open("member", content, within)) =
                 Json!State("comma", Json!Add(within, <<content, value>>))
           /\ \A kind \in {"array", "document"} :
                 Json!Deliver(value, Json!Open(kind, content, within)) =
                     Json!State("comma", Json!Open(kind, Append(content, value), within))
<1>1. \A kind : /\ Json!Open(kind, content, within).kind = kind
                /\ Json!Open(kind, content, within).content = content
                /\ Json!Open(kind, content, within).within = within
  BY DEF Json!Open
<1>2. Json!Deliver(value, Json!Open("member", content, within)) =
         Json!State("comma", Json!Add(within, <<content, value>>))
  BY <1>1 DEF Json!Deliver
<1>3. \A kind \in {"array", "document"} :
         Json!Deliver(value, Json!Open(kind, content, within)) =
             Json!State("comma", Json!Open(kind, Append(content, value), within))
  BY <1>1 DEF Json!Deliver, Json!Add
<1> QED  BY <1>2, <1>3

-----------------------------------------------------------------------------
\* What the serializer writes, from a character to an attribute.

LEMMA QuoteIsQuote == Otlp!Q = Json!Quote /\ Otlp!Backslash = Json!Escape
BY DEF Otlp!Q, Json!Quote, Otlp!Backslash, Json!Escape

\* A text is read as a value, and another one as items of an array or members of an object.
Reads(w, v) ==
    \A e \in {"value", "first item"} : \A o : Goes(Json!State(e, o), w, Json!Deliver(v, o))

Beginnings(kind) == IF kind = "array" THEN {"value", "first item"} ELSE {"name", "first name"}

AreRead(kind, w, xs) ==
    /\ IsSequence(xs)
    /\ \A e \in Beginnings(kind) : \A c, o : IsSequence(c) =>
          Goes(Json!State(e, Json!Open(kind, c, o)), w,
               Json!State("comma", Json!Open(kind, c \o xs, o)))

\* Numbers and flags, the items and members alone and in a row, and what they make
LEMMA BareIsRead ==
    ASSUME NEW t, t \notin {Json!Quote, "[", "{"} \cup Json!NoValues
    PROVE  Reads(<<t>>, <<"bare", t>>)
<1>1. SUFFICES ASSUME NEW e \in {"value", "first item"}, NEW o
               PROVE  Goes(Json!State(e, o), <<t>>, Json!Deliver(<<"bare", t>>, o))
  BY DEF Reads
<1>2. Json!Take(Json!State(e, o), t) = Json!Deliver(<<"bare", t>>, o)
  BY TakesBare
<1> QED  BY <1>2, GoesOne

LEMMA ItemIsRead ==
    ASSUME NEW w, NEW v, Reads(w, v)
    PROVE  AreRead("array", w, <<v>>)
<1>1. IsSequence(<<v>>)
  BY SinglesAreSequences
<1>2. ASSUME NEW e \in Beginnings("array"), NEW c, NEW o, IsSequence(c)
      PROVE  Goes(Json!State(e, Json!Open("array", c, o)), w,
                  Json!State("comma", Json!Open("array", c \o <<v>>, o)))
  <2>1. e \in {"value", "first item"}
    BY DEF Beginnings
  <2>2. Goes(Json!State(e, Json!Open("array", c, o)), w, Json!Deliver(v, Json!Open("array", c, o)))
    BY <2>1 DEF Reads
  <2>3. Json!Deliver(v, Json!Open("array", c, o)) =
           Json!State("comma", Json!Open("array", Append(c, v), o))
    BY Delivers
  <2>4. Append(c, v) = c \o <<v>>
    BY <1>2, EmptyAndSingle
  <2> QED  BY <2>2, <2>3, <2>4
<1> QED  BY <1>1, <1>2 DEF AreRead

LEMMA BothAreRead ==
    ASSUME NEW kind \in {"array", "object"},
           NEW v, NEW xs, AreRead(kind, v, xs), NEW w, NEW ys, AreRead(kind, w, ys)
    PROVE  AreRead(kind, v \o <<",">> \o w, xs \o ys)
<1>1. IsSequence(xs) /\ IsSequence(ys) /\ IsSequence(xs \o ys)
  BY BothAreSequences DEF AreRead
<1> DEFINE u == v \o <<",">>
           next == IF kind = "array" THEN "value" ELSE "name"
<1>2. ASSUME NEW e \in Beginnings(kind), NEW c, NEW o, IsSequence(c)
      PROVE  Goes(Json!State(e, Json!Open(kind, c, o)), u \o w,
                  Json!State("comma", Json!Open(kind, c \o (xs \o ys), o)))
  <2> DEFINE d == c \o xs
             a1 == Json!State(e, Json!Open(kind, c, o))
             a2 == Json!State("comma", Json!Open(kind, d, o))
             a3 == Json!State(next, Json!Open(kind, d, o))
             a4 == Json!State("comma", Json!Open(kind, d \o ys, o))
  <2>1. IsSequence(d) /\ d \o ys = c \o (xs \o ys)
    <3>1. IsSequence(d) /\ IsSequence(c)
      BY <1>1, <1>2, BothAreSequences
    <3>2. (c \o xs) \o ys = c \o (xs \o ys)
      BY <1>1, <3>1, Associative
    <3> QED  BY <3>1, <3>2
  <2>2. next \in Beginnings(kind)
    BY DEF Beginnings
  <2> HIDE DEF d
  <2>3. Goes(a1, v, a2)
    BY <1>2 DEF AreRead, d
  <2>4. Json!Take(a2, ",") = a3
    BY TakesPunctuation
  <2>5. Goes(a3, w, a4)
    <3> HIDE DEF next
    <3> QED  BY <2>1, <2>2 DEF AreRead
  <2> HIDE DEF a1, a2, a3, a4
  <2>6. Goes(a2, <<",">>, a3)
    BY <2>4, GoesOne
  <2>7. Goes(a1, u, a3)
    BY <2>3, <2>6, GoesOn
  <2> HIDE DEF u
  <2>8. Goes(a1, u \o w, a4)
    BY <2>5, <2>7, GoesOn
  <2> QED  BY <2>1, <2>8 DEF a1, a4
<1> HIDE DEF u
<1>3. AreRead(kind, u \o w, xs \o ys)
  BY <1>1, <1>2 DEF AreRead
<1> QED  BY <1>3 DEF u

LEMMA AllAreRead ==
    ASSUME NEW w, NEW xs
    PROVE  /\ AreRead("array", w, xs) => Reads(<<"[">> \o w \o <<"]">>, <<"array", xs>>)
           /\ AreRead("object", w, xs) => Reads(<<"{">> \o w \o <<"}">>, <<"object", xs>>)
<1> DEFINE first(kind) == IF kind = "array" THEN "first item" ELSE "first name"
           opening(kind) == IF kind = "array" THEN "[" ELSE "{"
           closing(kind) == IF kind = "array" THEN "]" ELSE "}"
<1>1. ASSUME NEW kind \in {"array", "object"}, AreRead(kind, w, xs),
             NEW e \in {"value", "first item"}, NEW o
      PROVE  Goes(Json!State(e, o), <<opening(kind)>> \o w \o <<closing(kind)>>,
                  Json!Deliver(<<kind, xs>>, o))
  <2> DEFINE l == opening(kind)
             r == closing(kind)
             a1 == Json!State(e, o)
             a2 == Json!State(first(kind), Json!Open(kind, <<>>, o))
             a3 == Json!State("comma", Json!Open(kind, xs, o))
             a4 == Json!Deliver(<<kind, xs>>, o)
             u == <<l>> \o w
  <2>1. first(kind) \in Beginnings(kind)
    <3>1. CASE kind = "array"
      <4>1. first(kind) = "first item"
        BY <3>1
      <4> HIDE DEF first
      <4>2. Beginnings("array") = {"value", "first item"}
        BY DEF Beginnings
      <4> QED  BY <3>1, <4>1, <4>2
    <3>2. CASE kind = "object"
      <4>1. first(kind) = "first name"
        BY <3>2
      <4> HIDE DEF first
      <4>2. Beginnings("object") = {"name", "first name"}
        BY DEF Beginnings
      <4> QED  BY <3>2, <4>1, <4>2
    <3> QED  BY <3>1, <3>2
  <2>2. Json!Take(a1, l) = a2
    BY TakesOpening
  <2>3. Json!Take(a3, r) = a4
    BY TakesPunctuation
  <2>4. Goes(a2, w, a3)
    <3> DEFINE f == first(kind)
    <3> HIDE DEF f
    <3>1. <<>> \o xs = xs /\ IsSequence(<<>>)
      BY <1>1, EmptyAndSingle DEF AreRead
    <3>2. Goes(Json!State(f, Json!Open(kind, <<>>, o)), w,
               Json!State("comma", Json!Open(kind, <<>> \o xs, o)))
      BY <1>1, <2>1, <3>1 DEF AreRead, f
    <3> QED  BY <3>1, <3>2 DEF f
  <2> HIDE DEF a1, a2, a3, a4, l, r
  <2>5. Goes(a1, <<l>>, a2) /\ Goes(a3, <<r>>, a4)
    BY <2>2, <2>3, GoesOne
  <2>6. Goes(a1, u, a3)
    BY <2>4, <2>5, GoesOn
  <2> HIDE DEF u
  <2>7. Goes(a1, u \o <<r>>, a4)
    BY <2>5, <2>6, GoesOn
  <2> QED  BY <2>7 DEF a1, a4, u, l, r
<1>2. ASSUME AreRead("array", w, xs)
      PROVE  Reads(<<"[">> \o w \o <<"]">>, <<"array", xs>>)
  <2>1. opening("array") = "[" /\ closing("array") = "]"
    OBVIOUS
  <2> HIDE DEF opening, closing
  <2> QED  BY <1>1, <1>2, <2>1 DEF Reads
<1>3. ASSUME AreRead("object", w, xs)
      PROVE  Reads(<<"{">> \o w \o <<"}">>, <<"object", xs>>)
  <2>1. opening("object") = "{" /\ closing("object") = "}"
    OBVIOUS
  <2> HIDE DEF opening, closing
  <2> QED  BY <1>1, <1>3, <2>1 DEF Reads
<1> QED  BY <1>2, <1>3

\* A name that needs no escape.
IsPlainName(name) == name \notin ({Json!Quote, Json!Escape} \cup Json!Controls)

LEMMA NameIsRead ==
    ASSUME NEW name, IsPlainName(name), NEW e \in Beginnings("object"), NEW c, NEW o
    PROVE  Goes(Json!State(e, Json!Open("object", c, o)), <<Otlp!Q, name, Otlp!Q, ":">>,
                Json!State("value",
                    Json!Open("member", StringRead(<<name>>), Json!Open("object", c, o))))
<1> DEFINE obj == Json!Open("object", c, o)
           s0 == Json!Open("string", <<>>, obj)
           s1 == Json!Open("string", <<name>>, obj)
           m == Json!Open("member", StringRead(<<name>>), obj)
<1>1. e \in {"name", "first name"} /\ Otlp!Q = Json!Quote
  <2>1. e \in {"name", "first name"}
    BY DEF Beginnings
  <2> QED  BY <2>1, QuoteIsQuote
<1>2. Json!Take(Json!State(e, obj), Otlp!Q) = Json!State("character", s0)
  <2> HIDE DEF obj
  <2> QED  BY <1>1, TakesQuote
<1>3. Json!Take(Json!State("character", s0), name) = Json!State("character", s1)
  <2>1. Json!Take(Json!State("character", s0), name) = Json!State("character", Json!Add(s0, name))
    <3> HIDE DEF s0
    <3> QED  BY <1>1, TakesCharacter DEF IsPlainName
  <2>2. Append(<<>>, name) = <<name>>
    OBVIOUS
  <2>3. Json!Add(s0, name) = s1
    BY <2>2 DEF Json!Add, Json!Open
  <2> QED  BY <2>1, <2>3
<1>4. Json!Take(Json!State("character", s1), Otlp!Q) = Json!State("colon", m)
  <2>1. Json!Take(Json!State("character", s1), Otlp!Q) =
           Json!Deliver(<<"string", s1.content>>, s1.within)
    <3> HIDE DEF s1
    <3> QED  BY <1>1, TakesCharacter
  <2>2. s1.content = <<name>> /\ s1.within = obj
    BY DEF Json!Open
  <2>3. Json!Deliver(StringRead(<<name>>), obj) = Json!State("colon", m)
    <3>1. obj.kind = "object"
      BY DEF Json!Open
    <3> HIDE DEF obj
    <3> QED  BY <3>1, DeliversName
  <2> QED  BY <2>1, <2>2, <2>3 DEF StringRead
<1>5. Json!Take(Json!State("colon", m), ":") = Json!State("value", m)
  BY TakesPunctuation
<1> HIDE DEF s0, s1, m, obj
<1> DEFINE a == Json!State(e, obj)
           b == Json!State("character", s0)
           d == Json!State("character", s1)
           f == Json!State("colon", m)
           g == Json!State("value", m)
<1>6. /\ Goes(a, <<Otlp!Q>>, b) /\ Goes(b, <<name>>, d)
      /\ Goes(d, <<Otlp!Q>>, f) /\ Goes(f, <<":">>, g)
  <2>1. Goes(a, <<Otlp!Q>>, Json!Take(a, Otlp!Q)) /\ Goes(b, <<name>>, Json!Take(b, name))
    BY GoesOne, Zenon
  <2>2. Goes(d, <<Otlp!Q>>, Json!Take(d, Otlp!Q)) /\ Goes(f, <<":">>, Json!Take(f, ":"))
    BY GoesOne, Zenon
  <2> QED  BY <1>2, <1>3, <1>4, <1>5, <2>1, <2>2
<1> HIDE DEF a, b, d, f, g
<1>7. Goes(a, <<Otlp!Q>> \o <<name>>, d)
  BY <1>6, GoesOn
<1>8. Goes(a, (<<Otlp!Q>> \o <<name>>) \o <<Otlp!Q>>, f)
  BY <1>6, <1>7, GoesOn
<1>9. Goes(a, ((<<Otlp!Q>> \o <<name>>) \o <<Otlp!Q>>) \o <<":">>, g)
  BY <1>6, <1>8, GoesOn
<1>10. ((<<Otlp!Q>> \o <<name>>) \o <<Otlp!Q>>) \o <<":">> = <<Otlp!Q, name, Otlp!Q, ":">>
  <2> DEFINE q == Otlp!Q
  <2> HIDE DEF q
  <2>1. <<q>> \o <<name>> = <<q, name>>
    BY Longer1
  <2>2. <<q, name>> \o <<q>> = <<q, name, q>>
    BY Longer2
  <2>3. <<q, name, q>> \o <<":">> = <<q, name, q, ":">>
    BY Longer3
  <2> QED  BY <2>1, <2>2, <2>3 DEF q
<1> QED  BY <1>9, <1>10 DEF a, g, obj, m

LEMMA MemberIsRead ==
    ASSUME NEW name, IsPlainName(name), NEW w, NEW v, Reads(w, v)
    PROVE  AreRead("object", Otlp!Member(name, w), <<Read(name, v)>>)
<1>1. IsSequence(<<Read(name, v)>>)
  BY SinglesAreSequences
<1>2. ASSUME NEW e \in Beginnings("object"), NEW c, NEW o, IsSequence(c)
      PROVE  Goes(Json!State(e, Json!Open("object", c, o)), Otlp!Member(name, w),
                  Json!State("comma", Json!Open("object", c \o <<Read(name, v)>>, o)))
  <2> DEFINE obj == Json!Open("object", c, o)
             n == StringRead(<<name>>)
             m == Json!Open("member", n, obj)
             a == Json!State(e, obj)
             b == Json!State("value", m)
             d == Json!State("comma", Json!Open("object", c \o <<Read(name, v)>>, o))
  <2>1. Goes(a, <<Otlp!Q, name, Otlp!Q, ":">>, b)
    BY NameIsRead
  <2>2. Goes(b, w, Json!Deliver(v, m))
    BY DEF Reads
  <2>3. Json!Deliver(v, m) = Json!State("comma", Json!Add(obj, <<n, v>>))
    <3>1. Json!Deliver(v, Json!Open("member", n, obj)) =
             Json!State("comma", Json!Add(obj, <<n, v>>))
      <4> HIDE DEF obj, n
      <4> QED  BY Delivers, Zenon
    <3> QED  BY <3>1
  <2>4. Json!Add(obj, <<n, v>>) = Json!Open("object", c \o <<Read(name, v)>>, o)
    <3>1. Append(c, Read(name, v)) = c \o <<Read(name, v)>>
      BY <1>2, EmptyAndSingle
    <3>2. <<n, v>> = Read(name, v)
      BY DEF Read
    <3> QED  BY <3>1, <3>2 DEF Json!Add, Json!Open
  <2> HIDE DEF a, b, obj
  <2>5. Goes(b, w, d)
    BY <2>2, <2>3, <2>4
  <2> HIDE DEF d
  <2>6. Goes(a, <<Otlp!Q, name, Otlp!Q, ":">> \o w, d)
    BY <2>1, <2>5, GoesOn
  <2> QED  BY <2>6 DEF a, d, obj, Otlp!Member
<1> QED  BY <1>1, <1>2 DEF AreRead

\* How one character is written.
EscapedOne(c) == IF c \in DOMAIN Otlp!Escapes THEN <<Otlp!Backslash, Otlp!Escapes[c]>> ELSE <<c>>

\* The reader takes the escape of a character as the character, wherever in a string.
LEMMA CharacterIsRead ==
    ASSUME NEW c, NEW o
    PROVE  /\ IsSequence(EscapedOne(c))
           /\ Goes(Json!State("character", o), EscapedOne(c),
                   Json!State("character", Json!Add(o, c)))
<1> DEFINE a == Json!State("character", o)
           b == Json!State("escaped", o)
           d == Json!State("character", Json!Add(o, c))
<1>1. CASE c \notin DOMAIN Otlp!Escapes
  <2>1. c \notin {Json!Quote, Json!Escape} \cup Json!Controls
    BY <1>1 DEF Otlp!Escapes, Otlp!Q, Otlp!Backslash, Json!Quote, Json!Escape, Json!Controls
  <2>2. EscapedOne(c) = <<c>>
    BY <1>1 DEF EscapedOne
  <2>3. Json!Take(a, c) = d
    BY <2>1, TakesCharacter
  <2> HIDE DEF a, d
  <2>4. Goes(a, <<c>>, d) /\ IsSequence(<<c>>)
    BY <2>3, GoesOne, SinglesAreSequences
  <2> QED  BY <2>2, <2>4 DEF a, d
<1>2. CASE c \in DOMAIN Otlp!Escapes
  <2> DEFINE x == Otlp!Escapes[c]
  <2>1. x \in DOMAIN Json!Unescaped /\ Json!Unescaped[x] = c
    <3>1. c \in {Otlp!Q, Otlp!Backslash, "LF", "CR", "TAB", "control"}
      BY <1>2 DEF Otlp!Escapes
    <3>2. x = CASE c = "LF" -> "n" [] c = "CR" -> "r" [] c = "TAB" -> "t"
                [] c = "control" -> "u0001" [] OTHER -> c
      BY <3>1 DEF Otlp!Escapes
    <3>3. DOMAIN Json!Unescaped = {Json!Quote, Json!Escape, "n", "r", "t", "u0001"}
      BY DEF Json!Unescaped
    <3>4. \A y \in {Json!Quote, Json!Escape, "n", "r", "t", "u0001"} :
             Json!Unescaped[y] = CASE y = "n" -> "LF" [] y = "r" -> "CR" [] y = "t" -> "TAB"
                                   [] y = "u0001" -> "control" [] OTHER -> y
      BY DEF Json!Unescaped
    <3> HIDE DEF x
    <3> QED  BY <3>1, <3>2, <3>3, <3>4 DEF Otlp!Q, Otlp!Backslash, Json!Quote, Json!Escape
  <2>2. EscapedOne(c) = <<Otlp!Backslash, x>>
    BY <1>2 DEF EscapedOne
  <2> HIDE DEF x
  <2>3. Json!Take(a, Otlp!Backslash) = b
    BY TakesCharacter, QuoteIsQuote
  <2>4. Json!Take(b, x) = d
    BY <2>1, TakesCharacter
  <2> HIDE DEF a, b, d
  <2> DEFINE q == Otlp!Backslash
  <2> HIDE DEF q
  <2>5. Goes(a, <<q>>, b) /\ Goes(b, <<x>>, d)
    BY <2>3, <2>4, GoesOne DEF q
  <2>6. Goes(a, <<q>> \o <<x>>, d)
    BY <2>5, GoesOn
  <2>7. <<q>> \o <<x>> = <<q, x>> /\ IsSequence(<<q, x>>)
    BY Longer1
  <2>8. Goes(a, EscapedOne(c), d) /\ IsSequence(EscapedOne(c))
    BY <2>2, <2>6, <2>7 DEF q
  <2> QED  BY <2>8 DEF a, d
<1> QED  BY <1>1, <1>2 DEF a, d

LEMMA CharactersAreRead ==
    ASSUME NEW T, NEW text \in Seq(T), NEW o
    PROVE  Goes(Json!State("character", Json!Open("string", <<>>, o)), Otlp!Escaped(text),
                Json!State("character", Json!Open("string", text, o)))
<1> DEFINE top == Len(text)
           parts == [i \in 1..top |-> EscapedOne(text[i])]
           U == T \cup {Otlp!Backslash} \cup {Otlp!Escapes[c] : c \in DOMAIN Otlp!Escapes}
<1>1. top \in Nat /\ DOMAIN text = 1..top /\ \A i \in 1..top : text[i] \in T
  OBVIOUS
<1>2. \A c \in T : EscapedOne(c) \in Seq(U)
  <2>1. SUFFICES ASSUME NEW c \in T PROVE EscapedOne(c) \in Seq(U)
    OBVIOUS
  <2>2. CASE c \in DOMAIN Otlp!Escapes
    <3> DEFINE q == Otlp!Backslash
               x == Otlp!Escapes[c]
    <3>1. q \in U /\ x \in U
      BY <2>2
    <3>2. EscapedOne(c) = <<q, x>>
      BY <2>2 DEF EscapedOne
    <3> HIDE DEF q, x, U
    <3> QED  BY <3>1, <3>2
  <2>3. CASE c \notin DOMAIN Otlp!Escapes
    <3>1. EscapedOne(c) = <<c>> /\ c \in U
      BY <2>3 DEF EscapedOne
    <3> HIDE DEF U
    <3> QED  BY <3>1
  <2> QED  BY <2>2, <2>3
<1>3. Otlp!Escaped(text) = FlattenSeq(parts)
  <2> DEFINE p == [i \in DOMAIN text |->
                     IF text[i] \in DOMAIN Otlp!Escapes
                     THEN <<Otlp!Backslash, Otlp!Escapes[text[i]]>> ELSE <<text[i]>>]
  <2>1. parts = p
    BY <1>1, Zenon DEF EscapedOne
  <2>2. Otlp!Escaped(text) = Otlp!FlattenSeq(p)
    BY Zenon DEF Otlp!Escaped
  <2> HIDE DEF parts, p
  <2>3. Otlp!FlattenSeq(p) = FlattenSeq(p)
    BY Zenon DEF Otlp!FlattenSeq, FlattenSeq
  <2> QED  BY <2>1, <2>2, <2>3
<1>4. parts \in Seq(Seq(U)) /\ Len(parts) = top /\ \A i \in 1..top : parts[i] = EscapedOne(text[i])
  <2> HIDE DEF U, top
  <2>1. \A i \in 1..top : EscapedOne(text[i]) \in Seq(U)
    BY <1>1, <1>2
  <2>2. parts \in [1..top -> Seq(U)]
    BY <2>1
  <2>3. parts \in Seq(Seq(U)) /\ DOMAIN parts = 1..top
    BY <1>1, <2>2
  <2> QED  BY <1>1, <2>3, LengthOfDomain
<1> HIDE DEF parts, U, top
<1>5. PICK f : IsFlattening(f, parts)
  BY <1>4, Flattens
<1> DEFINE so(i) == Json!State("character", Json!Open("string", SubSeq(text, 1, i), o))
           S == {i \in 0..top : Goes(so(0), f[i], so(i))}
<1>6. 0 \in S
  <2>1. f[0] = <<>> /\ 0 \in 0..top
    BY <1>1, <1>5 DEF IsFlattening
  <2> HIDE DEF so
  <2> QED  BY <2>1, GoesNowhere
<1>7. ASSUME NEW i \in 0..top, i \in S, i < top
      PROVE  i + 1 \in S
  <2> DEFINE j == i + 1
             c == text[j]
             b == Json!Open("string", SubSeq(text, 1, i), o)
  <2>1. j \in 1..top /\ j \in 0..top /\ j - 1 = i
    BY <1>1, <1>7
  <2>2. SubSeq(text, 1, j) = Append(SubSeq(text, 1, i), c)
    <3>1. text \in Seq(T) /\ i \in 0..Len(text) /\ i < Len(text)
      BY <1>7 DEF top
    <3> HIDE DEF c
    <3>2. SubSeq(text, 1, i + 1) = Append(SubSeq(text, 1, i), text[i + 1])
      BY <3>1
    <3> QED  BY <3>2 DEF c
  <2>3. Json!Add(b, c) = Json!Open("string", SubSeq(text, 1, j), o)
    <3> HIDE DEF c, j
    <3> QED  BY <2>2 DEF Json!Add, Json!Open
  <2>4. f[j] = f[i] \o EscapedOne(c)
    <3> HIDE DEF j
    <3>1. f[j] = f[j - 1] \o parts[j] /\ parts[j] = EscapedOne(text[j])
      BY <1>4, <1>5, <2>1 DEF IsFlattening
    <3> QED  BY <2>1, <3>1
  <2>5. Goes(Json!State("character", b), EscapedOne(c), Json!State("character", Json!Add(b, c)))
    <3> HIDE DEF b, c
    <3> QED  BY CharacterIsRead
  <2>6. Goes(so(i), EscapedOne(c), so(j))
    <3> HIDE DEF c, j
    <3> QED  BY <2>3, <2>5
  <2>7. Goes(so(0), f[i], so(i))
    BY <1>7
  <2> HIDE DEF so, c, j
  <2>8. Goes(so(0), f[j], so(j))
    BY <2>4, <2>6, <2>7, GoesOn
  <2>9. j \in S
    BY <2>1, <2>8
  <2> QED  BY <2>9 DEF j
<1>8. top \in S
  <2> HIDE DEF S
  <2> QED  BY <1>1, <1>6, <1>7, HoldsUpTo
<1>9. SubSeq(text, 1, 0) = <<>> /\ SubSeq(text, 1, top) = text
  BY DEF top
<1>10. f[top] = FlattenSeq(parts)
  BY <1>4, <1>5 DEF IsFlattening
<1>11. Goes(so(0), f[top], so(top))
  <2> HIDE DEF so
  <2> QED  BY <1>8
<1> QED  BY <1>3, <1>9, <1>10, <1>11

LEMMA StringIsRead ==
    ASSUME NEW T, NEW text \in Seq(T)
    PROVE  Reads(Otlp!String(text), StringRead(text))
<1>1. ASSUME NEW e \in {"value", "first item"}, NEW o
      PROVE  Goes(Json!State(e, o), Otlp!String(text), Json!Deliver(StringRead(text), o))
  <2> DEFINE s0 == Json!Open("string", <<>>, o)
             s1 == Json!Open("string", text, o)
             a == Json!State(e, o)
             b == Json!State("character", s0)
             c == Json!State("character", s1)
             d == Json!Deliver(StringRead(text), o)
             q == Otlp!Q
             w == Otlp!Escaped(text)
  <2>1. Json!Take(a, q) = b
    BY TakesQuote, QuoteIsQuote
  <2>2. Goes(b, w, c)
    BY CharactersAreRead
  <2>3. Json!Take(c, q) = d
    <3>1. s1.content = text /\ s1.within = o
      BY DEF Json!Open
    <3> HIDE DEF s1
    <3>2. Json!Take(c, q) = Json!Deliver(<<"string", s1.content>>, s1.within)
      BY TakesCharacter, QuoteIsQuote
    <3> QED  BY <3>1, <3>2 DEF StringRead
  <2> HIDE DEF a, b, c, d, q, w
  <2>4. Goes(a, <<q>>, b) /\ Goes(c, <<q>>, d)
    BY <2>1, <2>3, GoesOne
  <2>5. Goes(a, <<q>> \o w, c)
    BY <2>2, <2>4, GoesOn
  <2>6. Goes(a, (<<q>> \o w) \o <<q>>, d)
    BY <2>4, <2>5, GoesOn
  <2> QED  BY <2>6 DEF a, d, q, w, Otlp!String
<1> QED  BY <1>1 DEF Reads

\* So a string is read as the text it was written from.
LEMMA TextIsRead ==
    ASSUME NEW text, IsSequence(text)
    PROVE  Reads(Otlp!String(text), StringRead(text))
<1>1. PICK T : text \in Seq(T)
  BY DEF IsSequence
<1> QED  BY <1>1, StringIsRead

LEMMA ObjectIsRead ==
    ASSUME NEW w, NEW xs, AreRead("object", w, xs)
    PROVE  Reads(Otlp!Object(w), <<"object", xs>>)
BY AllAreRead DEF Otlp!Object

\* The attributes that can be written: numbers and flags are named by one token.
IsAttribute(a) ==
    /\ IsSequence(a.key) /\ IsSequence(a.content)
    /\ a.kind \in {"stringValue", "intValue", "doubleValue", "boolValue"}
    /\ a.kind = "boolValue" => a.content \in {<<"true">>, <<"false">>}
    /\ a.kind = "doubleValue" => \E x \in {"number"} \cup Otlp!NonFinite : a.content = <<x>>

LEMMA PlainNames ==
    \A name \in {"key", "value", "stringValue", "intValue", "doubleValue", "boolValue",
                 "traceId", "spanId", "parentSpanId", "name", "kind", "startTimeUnixNano",
                 "endTimeUnixNano", "attributes", "status", "code", "message", "resourceSpans",
                 "resource", "scopeSpans", "scope", "version", "spans"} : IsPlainName(name)
BY DEF IsPlainName, Json!Quote, Json!Escape, Json!Controls

LEMMA BareTokens ==
    \A t \in {"number", "true", "false", "0", "1", "2"} : Reads(<<t>>, BareRead(t))
<1>1. SUFFICES ASSUME NEW t \in {"number", "true", "false", "0", "1", "2"}
               PROVE  Reads(<<t>>, BareRead(t))
  OBVIOUS
<1>2. t \notin {Json!Quote, "[", "{"} \cup Json!NoValues
  BY DEF Json!NoValues, Json!Quote, Json!Escape, Json!Controls
<1> QED  BY <1>2, BareIsRead DEF BareRead

\* The value of an attribute is read by its kind, and numbers that are none as strings.
LEMMA ValueIsRead ==
    ASSUME NEW a, IsAttribute(a)
    PROVE  \E v : /\ AreRead("object", Otlp!Value(a), <<Read(a.kind, v)>>)
                  /\ v = IF \/ a.kind = "boolValue"
                            \/ a.kind = "doubleValue" /\ a.content = <<"number">>
                         THEN BareRead(a.content[1]) ELSE StringRead(a.content)
<1> DEFINE bare == \/ a.kind = "boolValue"
                   \/ a.kind = "doubleValue" /\ a.content = <<"number">>
           v == IF bare THEN BareRead(a.content[1]) ELSE StringRead(a.content)
           string == \/ a.kind \in {"stringValue", "intValue"}
                     \/ a.kind = "doubleValue" /\ a.content[1] \in Otlp!NonFinite
           w == IF string THEN Otlp!String(a.content) ELSE a.content
<1>1. IsPlainName(a.kind)
  BY PlainNames DEF IsAttribute
<1>2. string <=> ~bare
  <2>1. CASE a.kind # "doubleValue"
    <3>1. a.kind \in {"stringValue", "intValue", "boolValue"}
      BY <2>1 DEF IsAttribute
    <3>2. CASE a.kind = "boolValue"
      <4>1. a.kind \notin {"stringValue", "intValue"} /\ a.kind # "doubleValue"
        BY <3>2
      <4> QED  BY <3>2, <4>1, Zenon
    <3>3. CASE a.kind \in {"stringValue", "intValue"}
      BY <3>3
    <3> QED  BY <3>1, <3>2, <3>3
  <2>2. CASE a.kind = "doubleValue"
    <3>1. PICK x \in {"number"} \cup Otlp!NonFinite : a.content = <<x>>
      BY <2>2 DEF IsAttribute
    <3>2. a.content[1] = x /\ (a.content = <<"number">> <=> x = "number")
      BY <3>1
    <3>3. "number" \notin Otlp!NonFinite
      BY DEF Otlp!NonFinite
    <3> QED  BY <2>2, <3>2, <3>3
  <2> QED  BY <2>1, <2>2
<1>3. Reads(w, v)
  <2>1. CASE string
    <3>1. w = Otlp!String(a.content) /\ v = StringRead(a.content)
      BY <1>2, <2>1
    <3> HIDE DEF w, v
    <3> QED  BY <3>1, TextIsRead DEF IsAttribute
  <2>2. CASE ~string
    <3>1. w = a.content /\ v = BareRead(a.content[1])
      BY <1>2, <2>2
    <3>2. \E t \in {"number", "true", "false"} : a.content = <<t>>
      BY <1>2, <2>2 DEF IsAttribute
    <3> HIDE DEF w, v
    <3>3. PICK t \in {"number", "true", "false"} : a.content = <<t>>
      BY <3>2
    <3>4. a.content[1] = t
      BY <3>3
    <3> QED  BY <3>1, <3>3, <3>4, BareTokens
  <2> QED  BY <2>1, <2>2
<1>4. Otlp!Value(a) = Otlp!Member(a.kind, w)
  BY Zenon DEF Otlp!Value
<1> HIDE DEF w, v
<1>5. AreRead("object", Otlp!Value(a), <<Read(a.kind, v)>>)
  <2> DEFINE k == a.kind
  <2> HIDE DEF k
  <2>1. AreRead("object", Otlp!Member(k, w), <<Read(k, v)>>)
    BY <1>1, <1>3, MemberIsRead DEF k
  <2> QED  BY <1>4, <2>1 DEF k
<1>6. v = IF \/ a.kind = "boolValue"
             \/ a.kind = "doubleValue" /\ a.content = <<"number">>
          THEN BareRead(a.content[1]) ELSE StringRead(a.content)
  BY Zenon DEF v
<1> QED  BY <1>5, <1>6

LEMMA AttributeIsRead ==
    ASSUME NEW a, IsAttribute(a)
    PROVE  Reads(Otlp!Written(a), AttributeRead(a))
<1>1. PICK v : /\ AreRead("object", Otlp!Value(a), <<Read(a.kind, v)>>)
               /\ v = IF \/ a.kind = "boolValue"
                         \/ a.kind = "doubleValue" /\ a.content = <<"number">>
                      THEN BareRead(a.content[1]) ELSE StringRead(a.content)
  BY ValueIsRead
<1> DEFINE value == <<"object", <<Read(a.kind, v)>>>>
           key == Read("key", StringRead(a.key))
           wk == Otlp!Member("key", Otlp!String(a.key))
           wv == Otlp!Member("value", Otlp!Object(Otlp!Value(a)))
           vv == Read("value", value)
<1>2. Reads(Otlp!Object(Otlp!Value(a)), value)
  BY <1>1, ObjectIsRead
<1>3. AreRead("object", wv, <<vv>>)
  <2> HIDE DEF value
  <2> QED  BY <1>2, MemberIsRead, PlainNames
<1>4. AreRead("object", wk, <<key>>)
  <2>1. Reads(Otlp!String(a.key), StringRead(a.key))
    BY TextIsRead DEF IsAttribute
  <2> QED  BY <2>1, MemberIsRead, PlainNames
<1>5. AttributeRead(a) = <<"object", <<key, vv>>>>
  BY <1>1, Zenon DEF AttributeRead
<1>6. Otlp!Written(a) = Otlp!Object((wk \o <<",">>) \o wv)
  BY Zenon DEF Otlp!Written
<1> HIDE DEF key, vv, wk, wv
<1>7. AreRead("object", wk \o <<",">> \o wv, <<key>> \o <<vv>>)
  BY <1>3, <1>4, BothAreRead
<1>8. <<key>> \o <<vv>> = <<key, vv>>
  BY Longer1
<1> QED  BY <1>5, <1>6, <1>7, <1>8, ObjectIsRead

\* What the attributes are read as, and that they are written one after the other
AttributesRead(attributes) == [i \in DOMAIN attributes |-> AttributeRead(attributes[i])]

IsWriting(run, attributes) ==
    /\ run[0] = [builder |-> <<>>, first |-> TRUE]
    /\ \A k \in 1..Len(attributes) : run[k] = Otlp!WriteAttribute(run[k - 1], attributes[k])
    /\ run[Len(attributes)] =
          Otlp!FoldLeft(Otlp!WriteAttribute, [builder |-> <<>>, first |-> TRUE], attributes)

-----------------------------------------------------------------------------
\* All attributes of a span.

\* A sequence is one of whatever its items are in.
LEMMA SequenceOfItems ==
    ASSUME NEW s, IsSequence(s)
    PROVE  /\ Len(s) \in Nat /\ DOMAIN s = 1..Len(s)
           /\ \A U : (\A j \in 1..Len(s) : s[j] \in U) => s \in Seq(U)
<1>1. PICK S : s \in Seq(S)
  BY DEF IsSequence
<1>2. Len(s) \in Nat /\ DOMAIN s = 1..Len(s) /\ s = [j \in 1..Len(s) |-> s[j]]
  BY <1>1
<1>3. ASSUME NEW U, \A j \in 1..Len(s) : s[j] \in U
      PROVE  s \in Seq(U)
  <2>1. s \in [1..Len(s) -> U]
    BY <1>2, <1>3
  <2> QED  BY <1>2, <2>1
<1> QED  BY <1>2, <1>3

LEMMA SingleOf ==
    ASSUME NEW S, NEW x \in S
    PROVE  <<x>> \in Seq(S) /\ <<>> \in Seq(S)
OBVIOUS

\* All tokens in some texts
TokensOf(texts) == {","} \cup UNION {{text[j] : j \in 1..Len(text)} : text \in texts}

LEMMA TextsAreOfTokens ==
    ASSUME NEW texts, \A text \in texts : IsSequence(text)
    PROVE  /\ <<",">> \in Seq(TokensOf(texts)) /\ <<>> \in Seq(TokensOf(texts))
           /\ \A text \in texts : text \in Seq(TokensOf(texts))
<1> DEFINE U == TokensOf(texts)
<1>1. "," \in U
  BY DEF TokensOf
<1>2. ASSUME NEW text \in texts, NEW j \in 1..Len(text)
      PROVE  text[j] \in U
  <2> DEFINE T == {text[k] : k \in 1..Len(text)}
  <2>1. text[j] \in T /\ T \in {{t[k] : k \in 1..Len(t)} : t \in texts}
    OBVIOUS
  <2> HIDE DEF T
  <2> QED  BY <2>1, Zenon DEF TokensOf
<1> HIDE DEF U
<1>3. \A text \in texts : text \in Seq(U)
  BY <1>2, SequenceOfItems
<1>4. <<",">> \in Seq(U) /\ <<>> \in Seq(U)
  BY <1>1, SingleOf
<1> QED  BY <1>3, <1>4 DEF U

\* The fold that writes the attributes goes along them.
LEMMA AttributesAreWritten ==
    ASSUME NEW attributes, IsSequence(attributes),
           \A i \in 1..Len(attributes) : IsSequence(Otlp!Written(attributes[i]))
    PROVE  \E run : IsWriting(run, attributes)
<1> DEFINE n == Len(attributes)
           texts == {Otlp!Written(attributes[i]) : i \in 1..n}
           U == TokensOf(texts)
           V == [builder : Seq(U), first : BOOLEAN]
           base == [builder |-> <<>>, first |-> TRUE]
           step == [i \in 1..n |-> [v \in V |-> Otlp!WriteAttribute(v, attributes[i])]]
           IsFold(iter) == iter = [s \in SUBSET (DOMAIN attributes) |->
               IF s = {} THEN base
               ELSE Otlp!WriteAttribute(iter[s \ {Greatest(s)}], attributes[Greatest(s)])]
<1>1. n \in Nat /\ DOMAIN attributes = 1..n
  BY SequenceOfItems
<1>2. base \in V
  BY TextsAreOfTokens
<1>3. \A i \in 1..n : \A v \in V : Otlp!WriteAttribute(v, attributes[i]) \in V
  <2>1. SUFFICES ASSUME NEW v \in V, NEW i \in 1..n
                 PROVE  Otlp!WriteAttribute(v, attributes[i]) \in V
    OBVIOUS
  <2> DEFINE w == Otlp!Written(attributes[i])
             b == v.builder
             comma == Otlp!If(~v.first, <<",">>)
  <2>2. w \in Seq(U) /\ <<",">> \in Seq(U) /\ <<>> \in Seq(U)
    <3>1. \A text \in texts : IsSequence(text)
      OBVIOUS
    <3>2. w \in texts
      OBVIOUS
    <3> HIDE DEF texts, w
    <3> QED  BY <3>1, <3>2, TextsAreOfTokens
  <2>3. b \in Seq(U) /\ comma \in Seq(U)
    BY <2>2 DEF Otlp!If
  <2>4. Otlp!WriteAttribute(v, attributes[i]) = [builder |-> (b \o comma) \o w, first |-> FALSE]
    BY Zenon DEF Otlp!WriteAttribute
  <2> HIDE DEF w, b, comma, U
  <2>5. (b \o comma) \o w \in Seq(U)
    BY <2>2, <2>3, ConcatProperties
  <2> QED  BY <2>4, <2>5
<1>4. PICK iter : iter \in Folds(n, V, base, step)
  <2>1. \A i \in 1..n : \A v \in V : step[i][v] \in V
    BY <1>3
  <2> HIDE DEF n, base, step, V
  <2> QED  BY <1>1, <1>2, <2>1, FoldExists
<1>5. IsFold(iter)
  <2>1. ASSUME NEW s \in SUBSET (1..n), s # {}
        PROVE  iter[s] = Otlp!WriteAttribute(iter[s \ {Greatest(s)}], attributes[Greatest(s)])
    <3>1. Greatest(s) \in 1..n
      <4> HIDE DEF n
      <4> QED  BY <1>1, <2>1, GreatestOfSet
    <3>2. iter[s] = step[Greatest(s)][iter[s \ {Greatest(s)}]]
      <4> HIDE DEF step, n, base, V
      <4> QED  BY <1>4, <2>1 DEF Folds
    <3>3. iter[s \ {Greatest(s)}] \in V
      <4> HIDE DEF step, n, base, V
      <4> QED  BY <1>4 DEF Folds
    <3> HIDE DEF n, base, V
    <3> QED  BY <3>1, <3>2, <3>3
  <2>2. iter[{}] = base /\ iter = [s \in SUBSET (1..n) |-> iter[s]]
    <3> HIDE DEF step, n, base, V
    <3> QED  BY <1>4 DEF Folds
  <2> HIDE DEF step, n, base, V
  <2> QED  BY <1>1, <2>1, <2>2
<1> DEFINE fold == CHOOSE fold : IsFold(fold)
<1>6. IsFold(fold)
  <2> HIDE DEF IsFold
  <2> QED  BY <1>5
<1>7. Otlp!FoldLeft(Otlp!WriteAttribute, base, attributes) = fold[DOMAIN attributes]
  BY Zenon DEF Otlp!FoldLeft, Otlp!MapThenFoldSet, Otlp!Max, Greatest
<1> HIDE DEF fold
<1> DEFINE run == [k \in 0..n |-> fold[1..k]]
<1>8. IsWriting(run, attributes)
  <2>1. fold[1..0] = base
    <3>1. 1..0 = {}
      OBVIOUS
    <3> HIDE DEF base
    <3> QED  BY <1>6, <3>1
  <2>2. ASSUME NEW k \in 1..n
        PROVE  fold[1..k] = Otlp!WriteAttribute(fold[1..(k - 1)], attributes[k])
    <3> DEFINE g == Greatest(1..k)
    <3>1. /\ 1..k \in SUBSET (DOMAIN attributes) /\ 1..k # {} /\ g = k
          /\ (1..k) \ {k} = 1..(k - 1)
      <4> HIDE DEF base, n
      <4> QED  BY <1>1, GreatestOfInterval
    <3>2. fold[1..k] = Otlp!WriteAttribute(fold[(1..k) \ {g}], attributes[g])
      <4> HIDE DEF base, n
      <4> QED  BY <1>6, <3>1
    <3> QED  BY <3>1, <3>2
  <2>3. \A k \in 1..n : k \in 0..n /\ k - 1 \in 0..n
    OBVIOUS
  <2>4. n \in 0..n /\ 0 \in 0..n
    BY <1>1
  <2>5. run[0] = base
    BY <2>1, <2>4
  <2> HIDE DEF base
  <2>6. \A k \in 1..n : run[k] = Otlp!WriteAttribute(run[k - 1], attributes[k])
    BY <2>2, <2>3
  <2>7. run[n] = fold[DOMAIN attributes]
    <3> HIDE DEF n
    <3> QED  BY <1>1, <2>4
  <2> HIDE DEF run
  <2> QED  BY <1>7, <2>5, <2>6, <2>7 DEF IsWriting, base
<1> HIDE DEF run
<1> QED  BY <1>8

\* What the first of some attributes, or spans, are read as.
FirstRead(reads, k) == [i \in 1..k |-> reads[i]]

LEMMA FirstsFollow ==
    ASSUME NEW reads
    PROVE  /\ FirstRead(reads, 1) = <<reads[1]>>
           /\ \A k \in Nat : k # 0 =>
                 FirstRead(reads, k + 1) = FirstRead(reads, k) \o <<reads[k + 1]>>
<1>1. FirstRead(reads, 1) = <<reads[1]>>
  <2> DEFINE x == reads[1]
             f == FirstRead(reads, 1)
             S == {x}
  <2>1. f = [i \in 1..1 |-> reads[i]] /\ \A i \in 1..1 : i = 1
    BY DEF FirstRead
  <2>2. f = [i \in 1..1 |-> x]
    BY <2>1
  <2>3. <<x>> = [i \in 1..1 |-> x]
    OBVIOUS
  <2> QED  BY <2>2, <2>3
<1>2. ASSUME NEW k \in Nat
      PROVE  FirstRead(reads, k + 1) = FirstRead(reads, k) \o <<reads[k + 1]>>
  <2> DEFINE x == reads[k + 1]
             f == FirstRead(reads, k)
             g == FirstRead(reads, k + 1)
             S == {reads[i] : i \in 1..(k + 1)}
  <2>1. f \in [1..k -> S] /\ x \in S
    BY DEF FirstRead
  <2>2. g = [i \in 1..(k + 1) |-> IF i = k + 1 THEN x ELSE f[i]]
    <3>1. \A i \in 1..(k + 1) : i # k + 1 => i \in 1..k
      OBVIOUS
    <3>2. \A i \in 1..(k + 1) : reads[i] = IF i = k + 1 THEN x ELSE f[i]
      BY <3>1 DEF FirstRead
    <3> HIDE DEF x, f
    <3> QED  BY <3>2 DEF FirstRead
  <2> HIDE DEF x, f, g, S
  <2>3. f \in Seq(S) /\ Len(f) = k
    BY <2>1
  <2>4. Append(f, x) = [i \in 1..(k + 1) |-> IF i = k + 1 THEN x ELSE f[i]]
    <3> DEFINE a == Append(f, x)
    <3>1. /\ a \in Seq(S) /\ Len(a) = k + 1
          /\ \A i \in 1..(k + 1) : a[i] = IF i = k + 1 THEN x ELSE f[i]
      BY <2>1, <2>3
    <3> HIDE DEF a
    <3>2. a = [i \in 1..(k + 1) |-> a[i]]
      BY <3>1
    <3>3. a = [i \in 1..(k + 1) |-> IF i = k + 1 THEN x ELSE f[i]]
      BY <3>1, <3>2
    <3> QED  BY <3>3 DEF a
  <2>5. Append(f, x) = f \o <<x>>
    BY <2>1, <2>3, AppendIsConcat
  <2> QED  BY <2>2, <2>4, <2>5 DEF f, g, x
<1> QED  BY <1>1, <1>2

\* What is written for some attributes is read as an array of them.
LEMMA AttributesAreRead ==
    ASSUME NEW attributes, IsSequence(attributes), Len(attributes) # 0,
           \A i \in 1..Len(attributes) : IsAttribute(attributes[i])
    PROVE  LET writer == Otlp!FoldLeft(Otlp!WriteAttribute, [builder |-> <<>>, first |-> TRUE],
                                       attributes)
           IN  Reads(<<"[">> \o writer.builder \o <<"]">>,
                     <<"array", [i \in DOMAIN attributes |-> AttributeRead(attributes[i])]>>)
<1> DEFINE n == Len(attributes)
           reads == [i \in 1..n |-> AttributeRead(attributes[i])]
<1>1. n \in Nat /\ DOMAIN attributes = 1..n
  BY SequenceOfItems
<1>2. \A i \in 1..n : Reads(Otlp!Written(attributes[i]), reads[i])
  BY AttributeIsRead
<1>3. \A i \in 1..n : IsSequence(Otlp!Written(attributes[i]))
  <2>1. ASSUME NEW w, NEW v, Reads(w, v)
        PROVE  IsSequence(w)
    <3>1. Goes(Json!State("value", {}), w, Json!Deliver(v, {}))
      BY <2>1 DEF Reads
    <3> QED  BY <3>1 DEF Goes
  <2> HIDE DEF n, reads
  <2> QED  BY <1>2, <2>1
<1>4. PICK run : IsWriting(run, attributes)
  BY <1>3, AttributesAreWritten
<1> HIDE DEF n, reads
<1> DEFINE S == {k \in 0..n : k = 0 \/ /\ run[k].first = FALSE
                                       /\ AreRead("array", run[k].builder, FirstRead(reads, k))}
<1>5. 0 \in S
  BY <1>1
<1>6. ASSUME NEW k \in 0..n, k \in S, k < n
      PROVE  k + 1 \in S
  <2> DEFINE j == k + 1
             w == Otlp!Written(attributes[j])
             x == reads[j]
  <2>1. j \in 1..n /\ j - 1 = k /\ j \in 0..n /\ j # 0
    BY <1>1, <1>6
  <2>2. Reads(w, x)
    <3> HIDE DEF j
    <3> QED  BY <1>2, <2>1
  <2>3. AreRead("array", w, <<x>>)
    <3> HIDE DEF w, x
    <3> QED  BY <2>2, ItemIsRead
  <2>4. run[j] = Otlp!WriteAttribute(run[k], attributes[j])
    <3> HIDE DEF j
    <3>1. run[j] = Otlp!WriteAttribute(run[j - 1], attributes[j])
      BY <1>4, <2>1 DEF IsWriting, n
    <3> QED  BY <2>1, <3>1
  <2>5. /\ run[j].builder = (run[k].builder \o Otlp!If(~run[k].first, <<",">>)) \o w
        /\ run[j].first = FALSE
    <3> DEFINE b == (run[k].builder \o Otlp!If(~run[k].first, <<",">>)) \o w
    <3>1. run[j] = [builder |-> b, first |-> FALSE]
      BY <2>4, Zenon DEF Otlp!WriteAttribute
    <3> HIDE DEF j, b
    <3>2. run[j].builder = b /\ run[j].first = FALSE
      BY <3>1
    <3> QED  BY <3>2 DEF b
  <2>6. AreRead("array", run[j].builder, FirstRead(reads, j))
    <3>1. CASE k = 0
      <4>1. run[k].builder = <<>> /\ run[k].first = TRUE
        BY <1>4, <3>1 DEF IsWriting
      <4>2. IsSequence(w) /\ j = 1
        BY <1>3, <2>1, <3>1 DEF n
      <4> HIDE DEF w, j
      <4>3. (<<>> \o <<>>) \o w = w
        BY <4>2, EmptyAndSingle, SinglesAreSequences
      <4>4. run[j].builder = w
        BY <2>5, <4>1, <4>3 DEF Otlp!If
      <4>5. FirstRead(reads, j) = <<x>>
        BY <4>2, FirstsFollow
      <4> QED  BY <2>3, <4>4, <4>5
    <3>2. CASE k # 0
      <4>1. run[k].first = FALSE /\ AreRead("array", run[k].builder, FirstRead(reads, k))
        BY <1>6, <3>2
      <4>2. FirstRead(reads, j) = FirstRead(reads, k) \o <<x>>
        BY <1>1, <3>2, FirstsFollow
      <4> HIDE DEF w, j, x
      <4>3. run[j].builder = run[k].builder \o <<",">> \o w
        BY <2>5, <4>1 DEF Otlp!If
      <4> DEFINE b == run[k].builder
                 r == FirstRead(reads, k)
      <4> HIDE DEF b, r
      <4>4. AreRead("array", b \o <<",">> \o w, r \o <<x>>)
        BY <2>3, <4>1, BothAreRead DEF b, r
      <4> QED  BY <4>2, <4>3, <4>4 DEF b, r
    <3> QED  BY <3>1, <3>2
  <2> HIDE DEF j
  <2>7. j \in S
    BY <2>1, <2>5, <2>6
  <2> QED  BY <2>7 DEF j
<1>7. n \in S
  <2> HIDE DEF S
  <2> QED  BY <1>1, <1>5, <1>6, HoldsUpTo
<1>8. AreRead("array", run[n].builder, FirstRead(reads, n))
  BY <1>7 DEF n
<1>9. FirstRead(reads, n) = [i \in DOMAIN attributes |-> AttributeRead(attributes[i])]
  BY <1>1 DEF FirstRead, reads
<1>10. run[n] = Otlp!FoldLeft(Otlp!WriteAttribute, [builder |-> <<>>, first |-> TRUE], attributes)
  BY <1>4 DEF IsWriting, n
<1> DEFINE writer == Otlp!FoldLeft(Otlp!WriteAttribute, [builder |-> <<>>, first |-> TRUE],
                                   attributes)
           rr == [i \in DOMAIN attributes |-> AttributeRead(attributes[i])]
<1> HIDE DEF writer, rr
<1>11. AreRead("array", writer.builder, rr)
  BY <1>8, <1>9, <1>10 DEF writer, rr
<1>12. Reads(<<"[">> \o writer.builder \o <<"]">>, <<"array", rr>>)
  BY <1>11, AllAreRead
<1> QED  BY <1>12 DEF writer, rr

-----------------------------------------------------------------------------
\* Which attributes a span has.

\* A list of attributes that can be written, with keys from a set and none of them twice.
Carries(s, K) ==
    /\ IsSequence(s)
    /\ \A i \in 1..Len(s) : IsAttribute(s[i]) /\ s[i].key \in K
    /\ \A i, j \in 1..Len(s) : s[i].key = s[j].key => i = j

\* Two lists of attributes in a row, with no key in both
LEMMA CarriesBoth ==
    ASSUME NEW s, NEW K, Carries(s, K), NEW t, NEW L, Carries(t, L), K \cap L = {}
    PROVE  Carries(s \o t, K \cup L)
<1> DEFINE u == s \o t
           m == Len(s)
           n == Len(t)
<1>1. /\ IsSequence(u) /\ m \in Nat /\ n \in Nat /\ Len(u) = m + n
      /\ \A i \in 1..m : u[i] = s[i]
      /\ \A i \in 1..n : u[m + i] = t[i]
  BY BothAreSequences DEF Carries
<1>2. /\ \A i \in 1..m : IsAttribute(s[i]) /\ s[i].key \in K
      /\ \A i \in 1..n : IsAttribute(t[i]) /\ t[i].key \in L
      /\ \A i, j \in 1..m : s[i].key = s[j].key => i = j
      /\ \A i, j \in 1..n : t[i].key = t[j].key => i = j
  BY DEF Carries
<1> HIDE DEF u, m, n
<1>3. ASSUME NEW i \in 1..(m + n), i \notin 1..m
      PROVE  \E k \in 1..n : i = m + k
  <2>1. i - m \in 1..n /\ i = m + (i - m)
    BY <1>1, <1>3
  <2> QED  BY <2>1
<1>4. ASSUME NEW i \in 1..(m + n)
      PROVE  IsAttribute(u[i]) /\ u[i].key \in K \cup L
  <2>1. CASE i \in 1..m
    BY <1>1, <1>2, <2>1
  <2>2. CASE i \notin 1..m
    <3>1. PICK k \in 1..n : i = m + k
      BY <1>3, <2>2
    <3> QED  BY <1>1, <1>2, <3>1
  <2> QED  BY <2>1, <2>2
<1>5. \A k \in 1..m : \A l \in 1..n : u[k].key # u[m + l].key
  BY <1>1, <1>2
<1>6. ASSUME NEW i \in 1..(m + n), NEW j \in 1..(m + n), u[i].key = u[j].key
      PROVE  i = j
  <2>1. CASE i \in 1..m /\ j \in 1..m
    BY <1>1, <1>2, <1>6, <2>1
  <2>2. ASSUME i \notin 1..m, j \notin 1..m
        PROVE  i = j
    <3>1. PICK k \in 1..n : i = m + k
      BY <1>3, <2>2
    <3>2. PICK l \in 1..n : j = m + l
      BY <1>3, <2>2
    <3>3. t[k].key = t[l].key
      BY <1>1, <1>6, <3>1, <3>2
    <3> QED  BY <1>2, <3>1, <3>2, <3>3
  <2>3. ~(i \in 1..m /\ j \notin 1..m) /\ ~(i \notin 1..m /\ j \in 1..m)
    BY <1>3, <1>5, <1>6
  <2> QED  BY <2>1, <2>2, <2>3
<1>7. Carries(u, K \cup L)
  BY <1>1, <1>4, <1>6 DEF Carries
<1> QED  BY <1>7 DEF u

LEMMA CarriesNothing == \A K : Carries(<<>>, K)
<1>1. IsSequence(<<>>) /\ 1..Len(<<>>) = {}
  BY SinglesAreSequences
<1> QED  BY <1>1 DEF Carries

LEMMA CarriesIf ==
    ASSUME NEW condition \in BOOLEAN, NEW s, NEW K, Carries(s, K)
    PROVE  Carries(Otlp!If(condition, s), K)
BY CarriesNothing DEF Otlp!If

\* The keys that begin alike
Keys(prefix, names) == {<<prefix, name>> : name \in names}

LEMMA KeysApart ==
    ASSUME NEW p, NEW N, NEW q, NEW M, p # q \/ N \cap M = {}
    PROVE  Keys(p, N) \cap Keys(q, M) = {}
<1>1. SUFFICES ASSUME NEW n \in N, NEW m \in M, <<p, n>> = <<q, m>> PROVE FALSE
  BY DEF Keys
<1>2. p = q /\ n = m
  BY <1>1
<1> QED  BY <1>2

LEMMA KeysTogether ==
    ASSUME NEW p, NEW N, NEW M
    PROVE  Keys(p, N) \cup Keys(p, M) = Keys(p, N \cup M)
BY DEF Keys

\* The names in an attribute list, each once
AreNames(names, N) ==
    /\ IsSequence(names)
    /\ \A i \in 1..Len(names) : names[i] \in N
    /\ \A i, j \in 1..Len(names) : names[i] = names[j] => i = j

LEMMA CarriesNamed ==
    ASSUME NEW prefix, NEW names, NEW N, AreNames(names, N), NEW kind, NEW content,
           \A name \in N : IsAttribute(Otlp!Attribute(prefix, name, kind, content))
    PROVE  Carries([i \in DOMAIN names |-> Otlp!Attribute(prefix, names[i], kind, content)],
                   Keys(prefix, N))
<1> DEFINE n == Len(names)
           s == [i \in DOMAIN names |-> Otlp!Attribute(prefix, names[i], kind, content)]
           S == {Otlp!Attribute(prefix, name, kind, content) : name \in N}
<1>1. n \in Nat /\ DOMAIN names = 1..n /\ \A i \in 1..n : names[i] \in N
  BY SequenceOfItems DEF AreNames
<1>2. \A i \in 1..n : s[i] = Otlp!Attribute(prefix, names[i], kind, content)
  BY <1>1
<1>3. IsSequence(s) /\ Len(s) = n
  <2>1. s \in [1..n -> S]
    BY <1>1
  <2> HIDE DEF s, S, n
  <2>2. s \in Seq(S) /\ DOMAIN s = 1..n
    BY <1>1, <2>1
  <2>3. Len(s) = n
    BY <1>1, <2>2, LengthOfDomain
  <2> QED  BY <2>2, <2>3 DEF IsSequence
<1> HIDE DEF s
<1>4. \A i \in 1..n : s[i].key = <<prefix, names[i]>>
  <2>1. \A name : Otlp!Attribute(prefix, name, kind, content).key = <<prefix, name>>
    BY DEF Otlp!Attribute
  <2> QED  BY <1>2, <2>1
<1>5. \A i \in 1..n : IsAttribute(s[i]) /\ s[i].key \in Keys(prefix, N)
  BY <1>1, <1>2, <1>4 DEF Keys
<1>6. ASSUME NEW i \in 1..n, NEW j \in 1..n, s[i].key = s[j].key
      PROVE  i = j
  <2>1. <<prefix, names[i]>> = <<prefix, names[j]>>
    BY <1>4, <1>6
  <2>2. names[i] = names[j]
    BY <2>1
  <2> QED  BY <2>2 DEF AreNames
<1>7. Carries(s, Keys(prefix, N))
  BY <1>3, <1>5, <1>6 DEF Carries
<1> QED  BY <1>7 DEF s

LEMMA AttributeCanBeWritten ==
    ASSUME NEW prefix, NEW name, NEW kind, NEW content, IsSequence(content),
           kind \in {"stringValue", "intValue", "doubleValue", "boolValue"},
           kind = "boolValue" => content \in {<<"true">>, <<"false">>},
           kind = "doubleValue" => \E x \in {"number"} \cup Otlp!NonFinite : content = <<x>>
    PROVE  IsAttribute(Otlp!Attribute(prefix, name, kind, content))
<1> DEFINE a == Otlp!Attribute(prefix, name, kind, content)
<1>1. a.key = <<prefix, name>> /\ a.kind = kind /\ a.content = content
  BY DEF Otlp!Attribute
<1>2. IsSequence(<<prefix, name>>)
  BY Longer1
<1> HIDE DEF a
<1>3. IsAttribute(a)
  BY <1>1, <1>2 DEF IsAttribute
<1> QED  BY <1>3 DEF a

LEMMA CarriesIntegers ==
    ASSUME NEW prefix, NEW names, NEW N, AreNames(names, N)
    PROVE  Carries(Otlp!Integers(prefix, names), Keys(prefix, N))
<1>1. \A name \in N : IsAttribute(Otlp!Attribute(prefix, name, "intValue", <<"integer">>))
  BY AttributeCanBeWritten, SinglesAreSequences
<1> QED  BY <1>1, CarriesNamed DEF Otlp!Integers

LEMMA CarriesDoubles ==
    ASSUME NEW prefix, NEW names, NEW N, AreNames(names, N),
           NEW x \in {"number"} \cup Otlp!NonFinite
    PROVE  Carries(Otlp!Doubles(prefix, names, x), Keys(prefix, N))
<1>1. \A name \in N : IsAttribute(Otlp!Attribute(prefix, name, "doubleValue", <<x>>))
  BY AttributeCanBeWritten, SinglesAreSequences
<1> QED  BY <1>1, CarriesNamed DEF Otlp!Doubles

LEMMA CarriesOne ==
    ASSUME NEW prefix, NEW name, NEW kind, NEW content,
           IsAttribute(Otlp!Attribute(prefix, name, kind, content))
    PROVE  Carries(<<Otlp!Attribute(prefix, name, kind, content)>>, Keys(prefix, {name}))
<1> DEFINE a == Otlp!Attribute(prefix, name, kind, content)
<1>1. a.key = <<prefix, name>>
  BY DEF Otlp!Attribute
<1>2. a.key \in Keys(prefix, {name})
  BY <1>1 DEF Keys
<1> HIDE DEF a
<1>3. IsSequence(<<a>>) /\ Len(<<a>>) = 1 /\ <<a>>[1] = a /\ \A i \in 1..1 : i = 1
  BY SinglesAreSequences
<1>4. IsAttribute(a)
  BY DEF a
<1> DEFINE s == <<a>>
<1> HIDE DEF s
<1>5. Carries(s, Keys(prefix, {name}))
  <2>1. IsSequence(s) /\ Len(s) = 1 /\ s[1] = a
    BY <1>3 DEF s
  <2>2. \A i \in 1..Len(s) : s[i] = a /\ i = 1
    BY <1>3, <2>1
  <2> QED  BY <1>2, <1>4, <2>1, <2>2 DEF Carries
<1> QED  BY <1>5 DEF s, a

LEMMA CarriesText ==
    ASSUME NEW prefix, NEW name, NEW text, IsSequence(text)
    PROVE  /\ Carries(Otlp!Text(prefix, name, text), Keys(prefix, {name}))
           /\ Carries(Otlp!OptionalText(prefix, name, text), Keys(prefix, {name}))
<1>1. IsAttribute(Otlp!Attribute(prefix, name, "stringValue", text))
  BY AttributeCanBeWritten
<1>2. Carries(Otlp!Text(prefix, name, text), Keys(prefix, {name}))
  BY <1>1, CarriesOne DEF Otlp!Text
<1>3. Otlp!OptionalText(prefix, name, text) \in {<<>>, Otlp!Text(prefix, name, text)}
  BY DEF Otlp!OptionalText, Otlp!If
<1> QED  BY <1>2, <1>3, CarriesNothing

LEMMA CarriesFlag ==
    ASSUME NEW prefix, NEW name, NEW flag \in BOOLEAN
    PROVE  Carries(Otlp!Flag(prefix, name, flag), Keys(prefix, {name}))
<1> DEFINE content == <<IF flag THEN "true" ELSE "false">>
<1>1. content \in {<<"true">>, <<"false">>} /\ IsSequence(content)
  BY SinglesAreSequences
<1>2. Otlp!Flag(prefix, name, flag) = <<Otlp!Attribute(prefix, name, "boolValue", content)>>
  BY Zenon DEF Otlp!Flag
<1> HIDE DEF content
<1>3. IsAttribute(Otlp!Attribute(prefix, name, "boolValue", content))
  BY <1>1, AttributeCanBeWritten
<1> QED  BY <1>2, <1>3, CarriesOne

LEMMA TuplesAreSequences ==
    ASSUME NEW a, NEW b, NEW c, NEW d, NEW e, NEW f, NEW g, NEW h, NEW i, NEW j
    PROVE  /\ IsSequence(<<a, b, c, d, e, f, g, h, i, j>>) /\ IsSequence(<<a, b, c, d, e, f, g>>)
           /\ IsSequence(<<a, b, c, d, e, f>>) /\ IsSequence(<<a, b, c, d, e>>)
           /\ IsSequence(<<a, b, c, d>>) /\ IsSequence(<<a, b, c>>) /\ IsSequence(<<a, b>>)
<1> DEFINE S == {a, b, c, d, e, f, g, h, i, j}
<1>1. /\ a \in S /\ b \in S /\ c \in S /\ d \in S /\ e \in S /\ f \in S /\ g \in S /\ h \in S
      /\ i \in S /\ j \in S
  OBVIOUS
<1> HIDE DEF S
<1>2. <<a, b, c, d, e, f, g, h, i, j>> \in Seq(S)
  BY <1>1
<1>3. /\ <<a, b, c, d, e, f, g>> \in Seq(S)
      /\ <<a, b, c, d, e, f>> \in Seq(S) /\ <<a, b, c, d, e>> \in Seq(S)
      /\ <<a, b, c, d>> \in Seq(S) /\ <<a, b, c>> \in Seq(S) /\ <<a, b>> \in Seq(S)
  BY <1>1
<1> QED  BY <1>2, <1>3 DEF IsSequence

LEMMA OneName ==
    ASSUME NEW name
    PROVE  AreNames(<<name>>, {name})
<1>1. Len(<<name>>) = 1 /\ <<name>>[1] = name /\ \A i \in 1..1 : i = 1
  OBVIOUS
<1>2. \A i \in 1..Len(<<name>>) : i = 1 /\ <<name>>[i] = name
  BY <1>1
<1> QED  BY <1>2, SinglesAreSequences DEF AreNames

BlockNames ==
    {".shared_blks_hit", ".shared_blks_read", ".shared_blks_dirtied", ".shared_blks_written",
     ".local_blks_hit", ".local_blks_read", ".local_blks_dirtied", ".local_blks_written",
     ".temp_blks_read", ".temp_blks_written"}
BlockTimeNames ==
    {".shared_blk_read_seconds", ".shared_blk_write_seconds", ".local_blk_read_seconds",
     ".local_blk_write_seconds", ".temp_blk_read_seconds", ".temp_blk_write_seconds"}

LEMMA BuffersCarried ==
    ASSUME NEW prefix
    PROVE  Carries(Otlp!BufferUsage(prefix), Keys(prefix, BlockNames \cup BlockTimeNames))
<1> DEFINE blocks == <<".shared_blks_hit", ".shared_blks_read", ".shared_blks_dirtied",
                       ".shared_blks_written", ".local_blks_hit", ".local_blks_read",
                       ".local_blks_dirtied", ".local_blks_written", ".temp_blks_read",
                       ".temp_blks_written">>
           times == <<".shared_blk_read_seconds", ".shared_blk_write_seconds",
                      ".local_blk_read_seconds", ".local_blk_write_seconds",
                      ".temp_blk_read_seconds", ".temp_blk_write_seconds">>
<1>1. AreNames(blocks, BlockNames)
  <2>1. Len(blocks) = 10 /\ \A i \in 1..10 : blocks[i] \in BlockNames
    BY DEF BlockNames
  <2>2. \A i, j \in 1..10 : blocks[i] = blocks[j] => i = j
    OBVIOUS
  <2>3. IsSequence(blocks)
    BY TuplesAreSequences
  <2> HIDE DEF blocks
  <2> QED  BY <2>1, <2>2, <2>3 DEF AreNames
<1>2. AreNames(times, BlockTimeNames)
  <2>1. Len(times) = 6 /\ \A i \in 1..6 : times[i] \in BlockTimeNames
    BY DEF BlockTimeNames
  <2>2. \A i, j \in 1..6 : times[i] = times[j] => i = j
    OBVIOUS
  <2>3. IsSequence(times)
    BY TuplesAreSequences
  <2> HIDE DEF times
  <2> QED  BY <2>1, <2>2, <2>3 DEF AreNames
<1>3. Otlp!BufferUsage(prefix) =
         Otlp!Integers(prefix, blocks) \o Otlp!Doubles(prefix, times, "number")
  BY Zenon DEF Otlp!BufferUsage
<1>4. BlockNames \cap BlockTimeNames = {}
  BY DEF BlockNames, BlockTimeNames
<1> HIDE DEF blocks, times
<1>5. /\ Carries(Otlp!Integers(prefix, blocks), Keys(prefix, BlockNames))
      /\ Carries(Otlp!Doubles(prefix, times, "number"), Keys(prefix, BlockTimeNames))
  BY <1>1, <1>2, CarriesIntegers, CarriesDoubles
<1>6. Keys(prefix, BlockNames) \cap Keys(prefix, BlockTimeNames) = {}
  BY <1>4, KeysApart
<1> QED  BY <1>3, <1>5, <1>6, CarriesBoth, KeysTogether

\* The names in the lists of attributes, and that none is there twice
WalNames ==
    {".records", ".fpi", ".bytes", ".buffers_full"}

LEMMA WalNamesAreNames ==
    AreNames(<<".records", ".fpi", ".bytes", ".buffers_full">>, WalNames)
<1> DEFINE names == <<".records", ".fpi", ".bytes", ".buffers_full">>
<1>1. Len(names) = 4 /\ \A i \in 1..4 : names[i] \in WalNames
  BY DEF WalNames
<1>2. \A i, j \in 1..4 : names[i] = names[j] => i = j
  OBVIOUS
<1>3. IsSequence(names)
  BY TuplesAreSequences
<1> HIDE DEF names
<1>4. AreNames(names, WalNames)
  BY <1>1, <1>2, <1>3 DEF AreNames
<1> QED  BY <1>4 DEF names

JitTimeNames ==
    {".generation_seconds", ".deform_seconds", ".inlining_seconds", ".optimization_seconds",
     ".emission_seconds"}

LEMMA JitTimeNamesAreNames ==
    AreNames(<<".generation_seconds", ".deform_seconds", ".inlining_seconds",
               ".optimization_seconds", ".emission_seconds">>, JitTimeNames)
<1> DEFINE names == <<".generation_seconds", ".deform_seconds", ".inlining_seconds",
                    ".optimization_seconds", ".emission_seconds">>
<1>1. Len(names) = 5 /\ \A i \in 1..5 : names[i] \in JitTimeNames
  BY DEF JitTimeNames
<1>2. \A i, j \in 1..5 : names[i] = names[j] => i = j
  OBVIOUS
<1>3. IsSequence(names)
  BY TuplesAreSequences
<1> HIDE DEF names
<1>4. AreNames(names, JitTimeNames)
  BY <1>1, <1>2, <1>3 DEF AreNames
<1> QED  BY <1>4 DEF names

CostNames ==
    {".startup_cost", ".total_cost", ".estimated_rows"}

LEMMA CostNamesAreNames ==
    AreNames(<<".startup_cost", ".total_cost", ".estimated_rows">>, CostNames)
<1> DEFINE names == <<".startup_cost", ".total_cost", ".estimated_rows">>
<1>1. Len(names) = 3 /\ \A i \in 1..3 : names[i] \in CostNames
  BY DEF CostNames
<1>2. \A i, j \in 1..3 : names[i] = names[j] => i = j
  OBVIOUS
<1>3. IsSequence(names)
  BY TuplesAreSequences
<1> HIDE DEF names
<1>4. AreNames(names, CostNames)
  BY <1>1, <1>2, <1>3 DEF AreNames
<1> QED  BY <1>4 DEF names

TreeNames ==
    {".estimated_width", ".node_count", ".max_depth", ".scan_count", ".join_count"}

LEMMA TreeNamesAreNames ==
    AreNames(<<".estimated_width", ".node_count", ".max_depth", ".scan_count",
               ".join_count">>, TreeNames)
<1> DEFINE names == <<".estimated_width", ".node_count", ".max_depth", ".scan_count",
                    ".join_count">>
<1>1. Len(names) = 5 /\ \A i \in 1..5 : names[i] \in TreeNames
  BY DEF TreeNames
<1>2. \A i, j \in 1..5 : names[i] = names[j] => i = j
  OBVIOUS
<1>3. IsSequence(names)
  BY TuplesAreSequences
<1> HIDE DEF names
<1>4. AreNames(names, TreeNames)
  BY <1>1, <1>2, <1>3 DEF AreNames
<1> QED  BY <1>4 DEF names

RangeTableNames ==
    {".parallel_node_count", ".workers_planned", ".relation_rte_count",
     ".subquery_rte_count", ".function_rte_count", ".jit_flags"}

LEMMA RangeTableNamesAreNames ==
    AreNames(<<".parallel_node_count", ".workers_planned", ".relation_rte_count",
               ".subquery_rte_count", ".function_rte_count", ".jit_flags">>, RangeTableNames)
<1> DEFINE names == <<".parallel_node_count", ".workers_planned", ".relation_rte_count",
                    ".subquery_rte_count", ".function_rte_count", ".jit_flags">>
<1>1. Len(names) = 6 /\ \A i \in 1..6 : names[i] \in RangeTableNames
  BY DEF RangeTableNames
<1>2. \A i, j \in 1..6 : names[i] = names[j] => i = j
  OBVIOUS
<1>3. IsSequence(names)
  BY TuplesAreSequences
<1> HIDE DEF names
<1>4. AreNames(names, RangeTableNames)
  BY <1>1, <1>2, <1>3 DEF AreNames
<1> QED  BY <1>4 DEF names

NodeNumberNames ==
    {".rows", ".loops", ".total_seconds", ".startup_seconds", ".estimated_rows",
     ".startup_cost", ".total_cost"}

LEMMA NodeNumberNamesAreNames ==
    AreNames(<<".rows", ".loops", ".total_seconds", ".startup_seconds",
               ".estimated_rows", ".startup_cost", ".total_cost">>, NodeNumberNames)
<1> DEFINE names == <<".rows", ".loops", ".total_seconds", ".startup_seconds",
                    ".estimated_rows", ".startup_cost", ".total_cost">>
<1>1. Len(names) = 7 /\ \A i \in 1..7 : names[i] \in NodeNumberNames
  BY DEF NodeNumberNames
<1>2. \A i, j \in 1..7 : names[i] = names[j] => i = j
  OBVIOUS
<1>3. IsSequence(names)
  BY TuplesAreSequences
<1> HIDE DEF names
<1>4. AreNames(names, NodeNumberNames)
  BY <1>1, <1>2, <1>3 DEF AreNames
<1> QED  BY <1>4 DEF names

GatherNames ==
    {".workers_planned", ".workers_launched"}

LEMMA GatherNamesAreNames ==
    AreNames(<<".workers_planned", ".workers_launched">>, GatherNames)
<1> DEFINE names == <<".workers_planned", ".workers_launched">>
<1>1. Len(names) = 2 /\ \A i \in 1..2 : names[i] \in GatherNames
  BY DEF GatherNames
<1>2. \A i, j \in 1..2 : names[i] = names[j] => i = j
  OBVIOUS
<1>3. IsSequence(names)
  BY TuplesAreSequences
<1> HIDE DEF names
<1>4. AreNames(names, GatherNames)
  BY <1>1, <1>2, <1>3 DEF AreNames
<1> QED  BY <1>4 DEF names

WorkerCountNames ==
    {".worker_count", ".active_worker_count"}

LEMMA WorkerCountNamesAreNames ==
    AreNames(<<".worker_count", ".active_worker_count">>, WorkerCountNames)
<1> DEFINE names == <<".worker_count", ".active_worker_count">>
<1>1. Len(names) = 2 /\ \A i \in 1..2 : names[i] \in WorkerCountNames
  BY DEF WorkerCountNames
<1>2. \A i, j \in 1..2 : names[i] = names[j] => i = j
  OBVIOUS
<1>3. IsSequence(names)
  BY TuplesAreSequences
<1> HIDE DEF names
<1>4. AreNames(names, WorkerCountNames)
  BY <1>1, <1>2, <1>3 DEF AreNames
<1> QED  BY <1>4 DEF names

WorkerSumNames ==
    {".worker_rows", ".worker_loops", ".worker_total_seconds", ".worker_max_seconds"}

LEMMA WorkerSumNamesAreNames ==
    AreNames(<<".worker_rows", ".worker_loops", ".worker_total_seconds",
               ".worker_max_seconds">>, WorkerSumNames)
<1> DEFINE names == <<".worker_rows", ".worker_loops", ".worker_total_seconds",
                    ".worker_max_seconds">>
<1>1. Len(names) = 4 /\ \A i \in 1..4 : names[i] \in WorkerSumNames
  BY DEF WorkerSumNames
<1>2. \A i, j \in 1..4 : names[i] = names[j] => i = j
  OBVIOUS
<1>3. IsSequence(names)
  BY TuplesAreSequences
<1> HIDE DEF names
<1>4. AreNames(names, WorkerSumNames)
  BY <1>1, <1>2, <1>3 DEF AreNames
<1> QED  BY <1>4 DEF names

WorkerNumberNames ==
    {".worker_rows", ".worker_loops", ".worker_total_seconds", ".worker_startup_seconds"}

LEMMA WorkerNumberNamesAreNames ==
    AreNames(<<".worker_rows", ".worker_loops", ".worker_total_seconds",
               ".worker_startup_seconds">>, WorkerNumberNames)
<1> DEFINE names == <<".worker_rows", ".worker_loops", ".worker_total_seconds",
                    ".worker_startup_seconds">>
<1>1. Len(names) = 4 /\ \A i \in 1..4 : names[i] \in WorkerNumberNames
  BY DEF WorkerNumberNames
<1>2. \A i, j \in 1..4 : names[i] = names[j] => i = j
  OBVIOUS
<1>3. IsSequence(names)
  BY TuplesAreSequences
<1> HIDE DEF names
<1>4. AreNames(names, WorkerNumberNames)
  BY <1>1, <1>2, <1>3 DEF AreNames
<1> QED  BY <1>4 DEF names

\* What is known of the data of a span.
IsData(data) ==
    /\ IsSequence(data.commandTag) /\ IsSequence(data.context) /\ IsSequence(data.nodeType)
    /\ IsSequence(data.relationName) /\ IsSequence(data.indexName)
    /\ IsSequence(data.joinType) /\ IsSequence(data.modifyOperation)
    /\ data.number \in {"number"} \cup Otlp!NonFinite
    /\ data.hasResourceUsage \in BOOLEAN /\ data.hasJitFlags \in BOOLEAN
    /\ data.hasJit \in BOOLEAN /\ data.hasWorkerJit \in BOOLEAN
    /\ data.hasPlanStats \in BOOLEAN /\ data.hasLoops \in BOOLEAN
    /\ data.hasGatherInfo \in BOOLEAN /\ data.hasSingleCopy \in BOOLEAN
    /\ data.hasWorkerSummary \in BOOLEAN /\ data.flag \in BOOLEAN

\* One list of attributes more, with keys that begin like the ones before.
LEMMA CarriesMore ==
    ASSUME NEW s, NEW p, NEW N, Carries(s, Keys(p, N)),
           NEW t, NEW M, Carries(t, Keys(p, M)), N \cap M = {}
    PROVE  Carries(s \o t, Keys(p, N \cup M))
<1>1. Keys(p, N) \cap Keys(p, M) = {}
  BY KeysApart
<1> QED  BY <1>1, CarriesBoth, KeysTogether

\* What is carried by the attributes of each type of span
LEMMA WalCarried ==
    ASSUME NEW prefix
    PROVE  Carries(Otlp!WalUsage(prefix), Keys(prefix, WalNames))
BY CarriesIntegers, WalNamesAreNames DEF Otlp!WalUsage

JitNames == {".created_functions"} \cup JitTimeNames

LEMMA JitCarried ==
    ASSUME NEW prefix
    PROVE  Carries(Otlp!Jit(prefix), Keys(prefix, JitNames))
<1> DEFINE a1 == Otlp!Integers(prefix, <<".created_functions">>)
           a2 == Otlp!Doubles(prefix, <<".generation_seconds", ".deform_seconds",
               ".inlining_seconds", ".optimization_seconds", ".emission_seconds">>, "number")
           N1 == {".created_functions"}
           N2 == JitTimeNames
           b2 == a1 \o a2
           M2 == N1 \cup N2
<1>1. Carries(a1, Keys(prefix, N1))
  BY CarriesIntegers, OneName
<1>2. Carries(a2, Keys(prefix, N2))
  BY CarriesDoubles, JitTimeNamesAreNames
<1>3. N1 \cap N2 = {}
  BY DEF JitTimeNames
<1>4. Otlp!Jit(prefix) = b2 /\ JitNames = M2
  BY Zenon DEF Otlp!Jit, JitNames
<1> HIDE DEF a1, a2, N1, N2
<1>5. Carries(b2, Keys(prefix, M2))
  BY <1>1, <1>2, <1>3, CarriesMore
<1> QED  BY <1>4, <1>5

\* Keys that no part of a span has whatever its type is
IsApart(K) == \A k \in K : k[1] \notin {"db", "pg_eatrace", "db.postgresql.error"}

LEMMA KeysAreApart ==
    ASSUME NEW prefix, NEW names, prefix \notin {"db", "pg_eatrace", "db.postgresql.error"}
    PROVE  IsApart(Keys(prefix, names))
BY DEF IsApart, Keys

LEMMA UsageCarried ==
    ASSUME NEW p, NEW q, p # q
    PROVE  Carries(Otlp!BufferUsage(p) \o Otlp!WalUsage(q),
                   Keys(p, BlockNames \cup BlockTimeNames) \cup Keys(q, WalNames))
<1>1. Keys(p, BlockNames \cup BlockTimeNames) \cap Keys(q, WalNames) = {}
  BY KeysApart
<1> QED  BY <1>1, BuffersCarried, WalCarried, CarriesBoth

LEMMA QueryCarried ==
    ASSUME NEW data, IsData(data)
    PROVE  \E K : Carries(Otlp!QueryAttributes(data), K) /\ IsApart(K)
<1> DEFINE a1 == Otlp!OptionalText("db.postgresql.statement", ".command", data.commandTag)
           a2 == Otlp!If(data.hasResourceUsage, Otlp!BufferUsage("db.postgresql.buffers")
               \o Otlp!WalUsage("db.postgresql.wal"))
           a3 == Otlp!If(data.hasJitFlags, Otlp!Integers("db.postgresql.jit", <<".flags">>))
           a4 == Otlp!If(data.hasJit, Otlp!Jit("db.postgresql.jit"))
           a5 == Otlp!If(data.hasWorkerJit, Otlp!Jit("db.postgresql.jit.worker"))
           N1 == {".command"}
           K1 == Keys("db.postgresql.statement", N1)
           N2x == BlockNames \cup BlockTimeNames
           K2x == Keys("db.postgresql.buffers", N2x)
           N2y == WalNames
           K2y == Keys("db.postgresql.wal", N2y)
           K2 == K2x \cup K2y
           N3 == {".flags"}
           K3 == Keys("db.postgresql.jit", N3)
           N4 == JitNames
           K4 == Keys("db.postgresql.jit", N4)
           N5 == JitNames
           K5 == Keys("db.postgresql.jit.worker", N5)
           b2 == a1 \o a2
           b3 == b2 \o a3
           b4 == b3 \o a4
           b5 == b4 \o a5
           L2 == K1 \cup K2
           L3 == L2 \cup K3
           L4 == L3 \cup K4
           L5 == L4 \cup K5
<1>1. Carries(a1, K1)
  BY CarriesText DEF IsData
<1>2. Carries(a2, K2)
  BY UsageCarried, CarriesIf DEF IsData
<1>3. Carries(a3, K3)
  <2>1. Carries(Otlp!Integers("db.postgresql.jit", <<".flags">>), K3)
    BY CarriesIntegers, OneName
  <2> QED  BY <2>1, CarriesIf DEF IsData
<1>4. Carries(a4, K4)
  BY JitCarried, CarriesIf DEF IsData
<1>5. Carries(a5, K5)
  BY JitCarried, CarriesIf DEF IsData
<1>6. N3 \cap N4 = {}
  BY DEF JitNames, JitTimeNames
<1> HIDE DEF N1, N2x, N2y, N3, N4, N5
<1>7. /\ K1 \cap K2x = {} /\ K1 \cap K2y = {} /\ K1 \cap K3 = {} /\ K1 \cap K4 = {}
      /\ K1 \cap K5 = {} /\ K2x \cap K3 = {} /\ K2x \cap K4 = {} /\ K2x \cap K5 = {}
      /\ K2y \cap K3 = {} /\ K2y \cap K4 = {} /\ K2y \cap K5 = {} /\ K3 \cap K4 = {}
      /\ K3 \cap K5 = {} /\ K4 \cap K5 = {}
  BY <1>6, KeysApart
<1>8. IsApart(K1) /\ IsApart(K2x) /\ IsApart(K2y) /\ IsApart(K3) /\ IsApart(K4) /\ IsApart(K5)
  BY KeysAreApart
<1>9. Otlp!QueryAttributes(data) = b5
  BY Zenon DEF Otlp!QueryAttributes
<1> HIDE DEF a1, a2, a3, a4, a5, K1, K2x, K2y, K3, K4, K5
<1>10. IsApart(L5)
  BY <1>8 DEF IsApart
<1>11. Carries(b2, L2)
  <2>1. K1 \cap K2 = {}
    BY <1>7
  <2> HIDE DEF K2
  <2> QED  BY <1>1, <1>2, <2>1, CarriesBoth
<1>12. Carries(b3, L3)
  <2>1. L2 \cap K3 = {}
    BY <1>7
  <2> HIDE DEF K2
  <2> QED  BY <1>11, <1>3, <2>1, CarriesBoth
<1>13. Carries(b4, L4)
  <2>1. L3 \cap K4 = {}
    BY <1>7
  <2> HIDE DEF K2
  <2> QED  BY <1>12, <1>4, <2>1, CarriesBoth
<1>14. Carries(b5, L5)
  <2>1. L4 \cap K5 = {}
    BY <1>7
  <2> HIDE DEF K2
  <2> QED  BY <1>13, <1>5, <2>1, CarriesBoth
<1> QED  BY <1>9, <1>10, <1>14

\* The attributes for the statistics of a plan
PlanStatsAttributes(data) ==
    Otlp!Text("db.postgresql.plan", ".top_node_type", data.nodeType)
    \o Otlp!Doubles("db.postgresql.plan", <<".startup_cost", ".total_cost", ".estimated_rows">>,
        data.number)
    \o Otlp!Integers("db.postgresql.plan", <<".estimated_width", ".node_count", ".max_depth",
        ".scan_count", ".join_count">>)
    \o Otlp!Flag("db.postgresql.plan", ".parallel_mode_needed", data.flag)
    \o Otlp!Flag("db.postgresql.plan", ".has_parallel_nodes", data.flag)
    \o Otlp!Integers("db.postgresql.plan", <<".parallel_node_count", ".workers_planned",
        ".relation_rte_count", ".subquery_rte_count", ".function_rte_count", ".jit_flags">>)
PlanStatsNames == {".top_node_type"} \cup CostNames \cup TreeNames \cup {".parallel_mode_needed"}
    \cup {".has_parallel_nodes"} \cup RangeTableNames

LEMMA PlanStatsCarried ==
    ASSUME NEW data, IsData(data)
    PROVE  Carries(PlanStatsAttributes(data), Keys("db.postgresql.plan", PlanStatsNames))
<1> DEFINE a1 == Otlp!Text("db.postgresql.plan", ".top_node_type", data.nodeType)
           a2 == Otlp!Doubles("db.postgresql.plan", <<".startup_cost", ".total_cost",
               ".estimated_rows">>, data.number)
           a3 == Otlp!Integers("db.postgresql.plan", <<".estimated_width", ".node_count",
               ".max_depth", ".scan_count", ".join_count">>)
           a4 == Otlp!Flag("db.postgresql.plan", ".parallel_mode_needed", data.flag)
           a5 == Otlp!Flag("db.postgresql.plan", ".has_parallel_nodes", data.flag)
           a6 == Otlp!Integers("db.postgresql.plan", <<".parallel_node_count", ".workers_planned",
               ".relation_rte_count", ".subquery_rte_count", ".function_rte_count",
               ".jit_flags">>)
           N1 == {".top_node_type"}
           N2 == CostNames
           N3 == TreeNames
           N4 == {".parallel_mode_needed"}
           N5 == {".has_parallel_nodes"}
           N6 == RangeTableNames
           b2 == a1 \o a2
           b3 == b2 \o a3
           b4 == b3 \o a4
           b5 == b4 \o a5
           b6 == b5 \o a6
           M2 == N1 \cup N2
           M3 == M2 \cup N3
           M4 == M3 \cup N4
           M5 == M4 \cup N5
           M6 == M5 \cup N6
<1>1. Carries(a1, Keys("db.postgresql.plan", N1))
  BY CarriesText DEF IsData
<1>2. Carries(a2, Keys("db.postgresql.plan", N2))
  BY CarriesDoubles, CostNamesAreNames DEF IsData
<1>3. Carries(a3, Keys("db.postgresql.plan", N3))
  BY CarriesIntegers, TreeNamesAreNames
<1>4. Carries(a4, Keys("db.postgresql.plan", N4))
  BY CarriesFlag DEF IsData
<1>5. Carries(a5, Keys("db.postgresql.plan", N5))
  BY CarriesFlag DEF IsData
<1>6. Carries(a6, Keys("db.postgresql.plan", N6))
  BY CarriesIntegers, RangeTableNamesAreNames
<1>7. N1 \cap N2 = {}
  BY DEF CostNames
<1>8. M2 \cap N3 = {}
  BY DEF CostNames, TreeNames
<1>9. M3 \cap N4 = {}
  BY DEF CostNames, TreeNames
<1>10. M4 \cap N5 = {}
  BY DEF CostNames, TreeNames
<1>11. M5 \cap N6 = {}
  BY DEF CostNames, RangeTableNames, TreeNames
<1>12. PlanStatsAttributes(data) = b6 /\ PlanStatsNames = M6
  BY Zenon DEF PlanStatsAttributes, PlanStatsNames
<1> HIDE DEF a1, a2, a3, a4, a5, a6, N1, N2, N3, N4, N5, N6
<1>13. Carries(b2, Keys("db.postgresql.plan", M2))
  BY <1>1, <1>2, <1>7, CarriesMore
<1>14. Carries(b3, Keys("db.postgresql.plan", M3))
  BY <1>13, <1>3, <1>8, CarriesMore
<1>15. Carries(b4, Keys("db.postgresql.plan", M4))
  BY <1>14, <1>4, <1>9, CarriesMore
<1>16. Carries(b5, Keys("db.postgresql.plan", M5))
  BY <1>15, <1>5, <1>10, CarriesMore
<1>17. Carries(b6, Keys("db.postgresql.plan", M6))
  BY <1>16, <1>6, <1>11, CarriesMore
<1> QED  BY <1>12, <1>17

LEMMA PlannerCarried ==
    ASSUME NEW data, IsData(data)
    PROVE  \E K : Carries(Otlp!PlannerAttributes(data), K) /\ IsApart(K)
<1> DEFINE a1 == Otlp!Text("db.postgresql.planner", ".command", data.commandTag)
           a2 == Otlp!Integers("db.postgresql.planner", <<".cursor_options">>)
           a3 == Otlp!If(data.hasPlanStats, PlanStatsAttributes(data))
           N1 == {".command"}
           K1 == Keys("db.postgresql.planner", N1)
           N2 == {".cursor_options"}
           K2 == Keys("db.postgresql.planner", N2)
           N3 == PlanStatsNames
           K3 == Keys("db.postgresql.plan", N3)
           b2 == a1 \o a2
           b3 == b2 \o a3
           L2 == K1 \cup K2
           L3 == L2 \cup K3
<1>1. Carries(a1, K1)
  BY CarriesText DEF IsData
<1>2. Carries(a2, K2)
  BY CarriesIntegers, OneName
<1>3. Carries(a3, K3)
  BY PlanStatsCarried, CarriesIf DEF IsData
<1>4. N1 \cap N2 = {}
  OBVIOUS
<1> HIDE DEF N1, N2, N3
<1>5. /\ K1 \cap K2 = {} /\ K1 \cap K3 = {} /\ K2 \cap K3 = {}
  BY <1>4, KeysApart
<1>6. IsApart(K1) /\ IsApart(K2) /\ IsApart(K3)
  BY KeysAreApart
<1>7. Otlp!PlannerAttributes(data) = b3
  BY Zenon DEF Otlp!PlannerAttributes, PlanStatsAttributes
<1> HIDE DEF a1, a2, a3, K1, K2, K3
<1>8. IsApart(L3)
  BY <1>6 DEF IsApart
<1>9. Carries(b2, L2)
  <2>1. K1 \cap K2 = {}
    BY <1>5
  <2> QED  BY <1>1, <1>2, <2>1, CarriesBoth
<1>10. Carries(b3, L3)
  <2>1. L2 \cap K3 = {}
    BY <1>5
  <2> QED  BY <1>9, <1>3, <2>1, CarriesBoth
<1> QED  BY <1>7, <1>8, <1>10

LEMMA UtilityCarried ==
    ASSUME NEW data, IsData(data)
    PROVE  \E K : Carries(Otlp!UtilityAttributes(data), K) /\ IsApart(K)
<1> DEFINE a1 == Otlp!Text("db.postgresql.utility", ".command", data.commandTag)
           a2 == Otlp!Text("db.postgresql.utility", ".context", data.context)
           N1 == {".command"}
           K1 == Keys("db.postgresql.utility", N1)
           N2 == {".context"}
           K2 == Keys("db.postgresql.utility", N2)
           b2 == a1 \o a2
           L2 == K1 \cup K2
<1>1. Carries(a1, K1)
  BY CarriesText DEF IsData
<1>2. Carries(a2, K2)
  BY CarriesText DEF IsData
<1>3. N1 \cap N2 = {}
  OBVIOUS
<1> HIDE DEF N1, N2
<1>4. K1 \cap K2 = {}
  BY <1>3, KeysApart
<1>5. IsApart(K1) /\ IsApart(K2)
  BY KeysAreApart
<1>6. Otlp!UtilityAttributes(data) = b2
  BY Zenon DEF Otlp!UtilityAttributes
<1> HIDE DEF a1, a2, K1, K2
<1>7. IsApart(L2)
  BY <1>5 DEF IsApart
<1>8. Carries(b2, L2)
  <2>1. K1 \cap K2 = {}
    BY <1>4
  <2> QED  BY <1>1, <1>2, <2>1, CarriesBoth
<1> QED  BY <1>6, <1>7, <1>8

\* The attributes for a plan node itself
NodeAttributes(data) ==
    Otlp!Text("db.postgresql.plan", ".node_type", data.nodeType)
    \o Otlp!Integers("db.postgresql.plan", <<".node_id">>)
    \o Otlp!Doubles("db.postgresql.plan", <<".rows", ".loops", ".total_seconds",
        ".startup_seconds", ".estimated_rows", ".startup_cost", ".total_cost">>, data.number)
    \o Otlp!If(data.hasLoops, Otlp!Doubles("db.postgresql.plan", <<".actual_rows_per_loop">>,
        data.number))
    \o Otlp!Flag("db.postgresql.plan", ".parallel_aware", data.flag)
    \o Otlp!Flag("db.postgresql.plan", ".parallel_safe", data.flag)
    \o Otlp!OptionalText("db.postgresql.plan", ".relation_name", data.relationName)
    \o Otlp!OptionalText("db.postgresql.plan", ".index_name", data.indexName)
    \o Otlp!OptionalText("db.postgresql.plan", ".join_type", data.joinType)
    \o Otlp!OptionalText("db.postgresql.plan", ".modify_operation", data.modifyOperation)
NodeNames == {".node_type"} \cup {".node_id"} \cup NodeNumberNames \cup {".actual_rows_per_loop"}
    \cup {".parallel_aware"} \cup {".parallel_safe"} \cup {".relation_name"} \cup {".index_name"}
    \cup {".join_type"} \cup {".modify_operation"}

LEMMA NodeCarried ==
    ASSUME NEW data, IsData(data)
    PROVE  Carries(NodeAttributes(data), Keys("db.postgresql.plan", NodeNames))
<1> DEFINE a1 == Otlp!Text("db.postgresql.plan", ".node_type", data.nodeType)
           a2 == Otlp!Integers("db.postgresql.plan", <<".node_id">>)
           a3 == Otlp!Doubles("db.postgresql.plan", <<".rows", ".loops", ".total_seconds",
               ".startup_seconds", ".estimated_rows", ".startup_cost", ".total_cost">>,
               data.number)
           a4 == Otlp!If(data.hasLoops, Otlp!Doubles("db.postgresql.plan",
               <<".actual_rows_per_loop">>, data.number))
           a5 == Otlp!Flag("db.postgresql.plan", ".parallel_aware", data.flag)
           a6 == Otlp!Flag("db.postgresql.plan", ".parallel_safe", data.flag)
           a7 == Otlp!OptionalText("db.postgresql.plan", ".relation_name", data.relationName)
           a8 == Otlp!OptionalText("db.postgresql.plan", ".index_name", data.indexName)
           a9 == Otlp!OptionalText("db.postgresql.plan", ".join_type", data.joinType)
           a10 == Otlp!OptionalText("db.postgresql.plan", ".modify_operation",
               data.modifyOperation)
           N1 == {".node_type"}
           N2 == {".node_id"}
           N3 == NodeNumberNames
           N4 == {".actual_rows_per_loop"}
           N5 == {".parallel_aware"}
           N6 == {".parallel_safe"}
           N7 == {".relation_name"}
           N8 == {".index_name"}
           N9 == {".join_type"}
           N10 == {".modify_operation"}
           b2 == a1 \o a2
           b3 == b2 \o a3
           b4 == b3 \o a4
           b5 == b4 \o a5
           b6 == b5 \o a6
           b7 == b6 \o a7
           b8 == b7 \o a8
           b9 == b8 \o a9
           b10 == b9 \o a10
           M2 == N1 \cup N2
           M3 == M2 \cup N3
           M4 == M3 \cup N4
           M5 == M4 \cup N5
           M6 == M5 \cup N6
           M7 == M6 \cup N7
           M8 == M7 \cup N8
           M9 == M8 \cup N9
           M10 == M9 \cup N10
<1>1. Carries(a1, Keys("db.postgresql.plan", N1))
  BY CarriesText DEF IsData
<1>2. Carries(a2, Keys("db.postgresql.plan", N2))
  BY CarriesIntegers, OneName
<1>3. Carries(a3, Keys("db.postgresql.plan", N3))
  BY CarriesDoubles, NodeNumberNamesAreNames DEF IsData
<1>4. Carries(a4, Keys("db.postgresql.plan", N4))
  BY CarriesDoubles, OneName, CarriesIf DEF IsData
<1>5. Carries(a5, Keys("db.postgresql.plan", N5))
  BY CarriesFlag DEF IsData
<1>6. Carries(a6, Keys("db.postgresql.plan", N6))
  BY CarriesFlag DEF IsData
<1>7. Carries(a7, Keys("db.postgresql.plan", N7))
  BY CarriesText DEF IsData
<1>8. Carries(a8, Keys("db.postgresql.plan", N8))
  BY CarriesText DEF IsData
<1>9. Carries(a9, Keys("db.postgresql.plan", N9))
  BY CarriesText DEF IsData
<1>10. Carries(a10, Keys("db.postgresql.plan", N10))
  BY CarriesText DEF IsData
<1>11. N1 \cap N2 = {}
  OBVIOUS
<1>12. M2 \cap N3 = {}
  BY DEF NodeNumberNames
<1>13. M3 \cap N4 = {}
  BY DEF NodeNumberNames
<1>14. M4 \cap N5 = {}
  BY DEF NodeNumberNames
<1>15. M5 \cap N6 = {}
  BY DEF NodeNumberNames
<1>16. M6 \cap N7 = {}
  BY DEF NodeNumberNames
<1>17. M7 \cap N8 = {}
  BY DEF NodeNumberNames
<1>18. M8 \cap N9 = {}
  BY DEF NodeNumberNames
<1>19. M9 \cap N10 = {}
  BY DEF NodeNumberNames
<1>20. NodeAttributes(data) = b10 /\ NodeNames = M10
  BY Zenon DEF NodeAttributes, NodeNames
<1> HIDE DEF a1, a2, a3, a4, a5, a6, a7, a8, a9, a10, N1, N2, N3, N4, N5, N6, N7, N8, N9, N10
<1>21. Carries(b2, Keys("db.postgresql.plan", M2))
  BY <1>1, <1>2, <1>11, CarriesMore
<1>22. Carries(b3, Keys("db.postgresql.plan", M3))
  BY <1>21, <1>3, <1>12, CarriesMore
<1>23. Carries(b4, Keys("db.postgresql.plan", M4))
  BY <1>22, <1>4, <1>13, CarriesMore
<1>24. Carries(b5, Keys("db.postgresql.plan", M5))
  BY <1>23, <1>5, <1>14, CarriesMore
<1>25. Carries(b6, Keys("db.postgresql.plan", M6))
  BY <1>24, <1>6, <1>15, CarriesMore
<1>26. Carries(b7, Keys("db.postgresql.plan", M7))
  BY <1>25, <1>7, <1>16, CarriesMore
<1>27. Carries(b8, Keys("db.postgresql.plan", M8))
  BY <1>26, <1>8, <1>17, CarriesMore
<1>28. Carries(b9, Keys("db.postgresql.plan", M9))
  BY <1>27, <1>9, <1>18, CarriesMore
<1>29. Carries(b10, Keys("db.postgresql.plan", M10))
  BY <1>28, <1>10, <1>19, CarriesMore
<1> QED  BY <1>20, <1>29

\* The attributes for a Gather node
GatherAttributes(data) ==
    Otlp!Integers("db.postgresql.parallel", <<".workers_planned", ".workers_launched">>)
    \o Otlp!If(data.hasSingleCopy, Otlp!Flag("db.postgresql.parallel", ".single_copy", data.flag))
GatherAllNames == GatherNames \cup {".single_copy"}

LEMMA GatherCarried ==
    ASSUME NEW data, IsData(data)
    PROVE  Carries(GatherAttributes(data), Keys("db.postgresql.parallel", GatherAllNames))
<1> DEFINE a1 == Otlp!Integers("db.postgresql.parallel", <<".workers_planned",
               ".workers_launched">>)
           a2 == Otlp!If(data.hasSingleCopy, Otlp!Flag("db.postgresql.parallel", ".single_copy",
               data.flag))
           N1 == GatherNames
           N2 == {".single_copy"}
           b2 == a1 \o a2
           M2 == N1 \cup N2
<1>1. Carries(a1, Keys("db.postgresql.parallel", N1))
  BY CarriesIntegers, GatherNamesAreNames
<1>2. Carries(a2, Keys("db.postgresql.parallel", N2))
  BY CarriesFlag, CarriesIf DEF IsData
<1>3. N1 \cap N2 = {}
  BY DEF GatherNames
<1>4. GatherAttributes(data) = b2 /\ GatherAllNames = M2
  BY Zenon DEF GatherAttributes, GatherAllNames
<1> HIDE DEF a1, a2, N1, N2
<1>5. Carries(b2, Keys("db.postgresql.parallel", M2))
  BY <1>1, <1>2, <1>3, CarriesMore
<1> QED  BY <1>4, <1>5

\* The attributes for the workers of a node
WorkersAttributes(data) ==
    Otlp!Integers("db.postgresql.parallel", <<".worker_count", ".active_worker_count">>)
    \o Otlp!Doubles("db.postgresql.parallel", <<".worker_rows", ".worker_loops",
        ".worker_total_seconds", ".worker_max_seconds">>, data.number)
WorkersNames == WorkerCountNames \cup WorkerSumNames

LEMMA WorkersCarried ==
    ASSUME NEW data, IsData(data)
    PROVE  Carries(WorkersAttributes(data), Keys("db.postgresql.parallel", WorkersNames))
<1> DEFINE a1 == Otlp!Integers("db.postgresql.parallel", <<".worker_count",
               ".active_worker_count">>)
           a2 == Otlp!Doubles("db.postgresql.parallel", <<".worker_rows", ".worker_loops",
               ".worker_total_seconds", ".worker_max_seconds">>, data.number)
           N1 == WorkerCountNames
           N2 == WorkerSumNames
           b2 == a1 \o a2
           M2 == N1 \cup N2
<1>1. Carries(a1, Keys("db.postgresql.parallel", N1))
  BY CarriesIntegers, WorkerCountNamesAreNames
<1>2. Carries(a2, Keys("db.postgresql.parallel", N2))
  BY CarriesDoubles, WorkerSumNamesAreNames DEF IsData
<1>3. N1 \cap N2 = {}
  BY DEF WorkerCountNames, WorkerSumNames
<1>4. WorkersAttributes(data) = b2 /\ WorkersNames = M2
  BY Zenon DEF WorkersAttributes, WorkersNames
<1> HIDE DEF a1, a2, N1, N2
<1>5. Carries(b2, Keys("db.postgresql.parallel", M2))
  BY <1>1, <1>2, <1>3, CarriesMore
<1> QED  BY <1>4, <1>5

LEMMA PlanNodeCarried ==
    ASSUME NEW data, IsData(data)
    PROVE  \E K : Carries(Otlp!PlanNodeAttributes(data), K) /\ IsApart(K)
<1> DEFINE a1 == NodeAttributes(data)
           a2 == Otlp!BufferUsage("db.postgresql.plan.buffers")
           a3 == Otlp!WalUsage("db.postgresql.plan.wal")
           a4 == Otlp!If(data.hasGatherInfo, GatherAttributes(data))
           a5 == Otlp!If(data.hasWorkerSummary, WorkersAttributes(data))
           N1 == NodeNames
           K1 == Keys("db.postgresql.plan", N1)
           N2 == BlockNames \cup BlockTimeNames
           K2 == Keys("db.postgresql.plan.buffers", N2)
           N3 == WalNames
           K3 == Keys("db.postgresql.plan.wal", N3)
           N4 == GatherAllNames
           K4 == Keys("db.postgresql.parallel", N4)
           N5 == WorkersNames
           K5 == Keys("db.postgresql.parallel", N5)
           b2 == a1 \o a2
           b3 == b2 \o a3
           b4 == b3 \o a4
           b5 == b4 \o a5
           L2 == K1 \cup K2
           L3 == L2 \cup K3
           L4 == L3 \cup K4
           L5 == L4 \cup K5
<1>1. Carries(a1, K1)
  BY NodeCarried
<1>2. Carries(a2, K2)
  BY BuffersCarried
<1>3. Carries(a3, K3)
  BY WalCarried
<1>4. Carries(a4, K4)
  BY GatherCarried, CarriesIf DEF IsData
<1>5. Carries(a5, K5)
  BY WorkersCarried, CarriesIf DEF IsData
<1>6. N4 \cap N5 = {}
  BY DEF GatherAllNames, GatherNames, WorkerCountNames, WorkerSumNames, WorkersNames
<1> HIDE DEF N1, N2, N3, N4, N5
<1>7. /\ K1 \cap K2 = {} /\ K1 \cap K3 = {} /\ K1 \cap K4 = {} /\ K1 \cap K5 = {}
      /\ K2 \cap K3 = {} /\ K2 \cap K4 = {} /\ K2 \cap K5 = {} /\ K3 \cap K4 = {}
      /\ K3 \cap K5 = {} /\ K4 \cap K5 = {}
  BY <1>6, KeysApart
<1>8. IsApart(K1) /\ IsApart(K2) /\ IsApart(K3) /\ IsApart(K4) /\ IsApart(K5)
  BY KeysAreApart
<1>9. Otlp!PlanNodeAttributes(data) = b5
  BY Zenon DEF Otlp!PlanNodeAttributes, NodeAttributes, GatherAttributes,
               WorkersAttributes
<1> HIDE DEF a1, a2, a3, a4, a5, K1, K2, K3, K4, K5
<1>10. IsApart(L5)
  BY <1>8 DEF IsApart
<1>11. Carries(b2, L2)
  <2>1. K1 \cap K2 = {}
    BY <1>7
  <2> QED  BY <1>1, <1>2, <2>1, CarriesBoth
<1>12. Carries(b3, L3)
  <2>1. L2 \cap K3 = {}
    BY <1>7
  <2> QED  BY <1>11, <1>3, <2>1, CarriesBoth
<1>13. Carries(b4, L4)
  <2>1. L3 \cap K4 = {}
    BY <1>7
  <2> QED  BY <1>12, <1>4, <2>1, CarriesBoth
<1>14. Carries(b5, L5)
  <2>1. L4 \cap K5 = {}
    BY <1>7
  <2> QED  BY <1>13, <1>5, <2>1, CarriesBoth
<1> QED  BY <1>9, <1>10, <1>14

\* The attributes for the node a worker ran
WorkerNodeAttributes(data) ==
    Otlp!Text("db.postgresql.plan", ".node_type", data.nodeType)
    \o Otlp!Integers("db.postgresql.plan", <<".node_id">>)
WorkerNodeNames == {".node_type"} \cup {".node_id"}

LEMMA WorkerNodeCarried ==
    ASSUME NEW data, IsData(data)
    PROVE  Carries(WorkerNodeAttributes(data), Keys("db.postgresql.plan", WorkerNodeNames))
<1> DEFINE a1 == Otlp!Text("db.postgresql.plan", ".node_type", data.nodeType)
           a2 == Otlp!Integers("db.postgresql.plan", <<".node_id">>)
           N1 == {".node_type"}
           N2 == {".node_id"}
           b2 == a1 \o a2
           M2 == N1 \cup N2
<1>1. Carries(a1, Keys("db.postgresql.plan", N1))
  BY CarriesText DEF IsData
<1>2. Carries(a2, Keys("db.postgresql.plan", N2))
  BY CarriesIntegers, OneName
<1>3. N1 \cap N2 = {}
  OBVIOUS
<1>4. WorkerNodeAttributes(data) = b2 /\ WorkerNodeNames = M2
  BY Zenon DEF WorkerNodeAttributes, WorkerNodeNames
<1> HIDE DEF a1, a2, N1, N2
<1>5. Carries(b2, Keys("db.postgresql.plan", M2))
  BY <1>1, <1>2, <1>3, CarriesMore
<1> QED  BY <1>4, <1>5

LEMMA WorkerCarried ==
    ASSUME NEW data, IsData(data)
    PROVE  \E K : Carries(Otlp!WorkerAttributes(data), K) /\ IsApart(K)
<1> DEFINE a1 == WorkerNodeAttributes(data)
           a2 == Otlp!Integers("db.postgresql.parallel", <<".worker_index">>)
           a3 == Otlp!Doubles("db.postgresql.parallel", <<".worker_rows", ".worker_loops",
               ".worker_total_seconds", ".worker_startup_seconds">>, data.number)
           a4 == Otlp!BufferUsage("db.postgresql.parallel.worker.buffers")
           a5 == Otlp!WalUsage("db.postgresql.parallel.worker.wal")
           N1 == WorkerNodeNames
           K1 == Keys("db.postgresql.plan", N1)
           N2 == {".worker_index"}
           K2 == Keys("db.postgresql.parallel", N2)
           N3 == WorkerNumberNames
           K3 == Keys("db.postgresql.parallel", N3)
           N4 == BlockNames \cup BlockTimeNames
           K4 == Keys("db.postgresql.parallel.worker.buffers", N4)
           N5 == WalNames
           K5 == Keys("db.postgresql.parallel.worker.wal", N5)
           b2 == a1 \o a2
           b3 == b2 \o a3
           b4 == b3 \o a4
           b5 == b4 \o a5
           L2 == K1 \cup K2
           L3 == L2 \cup K3
           L4 == L3 \cup K4
           L5 == L4 \cup K5
<1>1. Carries(a1, K1)
  BY WorkerNodeCarried
<1>2. Carries(a2, K2)
  BY CarriesIntegers, OneName
<1>3. Carries(a3, K3)
  BY CarriesDoubles, WorkerNumberNamesAreNames DEF IsData
<1>4. Carries(a4, K4)
  BY BuffersCarried
<1>5. Carries(a5, K5)
  BY WalCarried
<1>6. N2 \cap N3 = {}
  BY DEF WorkerNumberNames
<1> HIDE DEF N1, N2, N3, N4, N5
<1>7. /\ K1 \cap K2 = {} /\ K1 \cap K3 = {} /\ K1 \cap K4 = {} /\ K1 \cap K5 = {}
      /\ K2 \cap K3 = {} /\ K2 \cap K4 = {} /\ K2 \cap K5 = {} /\ K3 \cap K4 = {}
      /\ K3 \cap K5 = {} /\ K4 \cap K5 = {}
  BY <1>6, KeysApart
<1>8. IsApart(K1) /\ IsApart(K2) /\ IsApart(K3) /\ IsApart(K4) /\ IsApart(K5)
  BY KeysAreApart
<1>9. Otlp!WorkerAttributes(data) = b5
  BY Zenon DEF Otlp!WorkerAttributes, WorkerNodeAttributes
<1> HIDE DEF a1, a2, a3, a4, a5, K1, K2, K3, K4, K5
<1>10. IsApart(L5)
  BY <1>8 DEF IsApart
<1>11. Carries(b2, L2)
  <2>1. K1 \cap K2 = {}
    BY <1>7
  <2> QED  BY <1>1, <1>2, <2>1, CarriesBoth
<1>12. Carries(b3, L3)
  <2>1. L2 \cap K3 = {}
    BY <1>7
  <2> QED  BY <1>11, <1>3, <2>1, CarriesBoth
<1>13. Carries(b4, L4)
  <2>1. L3 \cap K4 = {}
    BY <1>7
  <2> QED  BY <1>12, <1>4, <2>1, CarriesBoth
<1>14. Carries(b5, L5)
  <2>1. L4 \cap K5 = {}
    BY <1>7
  <2> QED  BY <1>13, <1>5, <2>1, CarriesBoth
<1> QED  BY <1>9, <1>10, <1>14

\* What is known of a span, part by part
LEMMA SpanIsWellFormed ==
    ASSUME NEW span, IsSpan(span)
    PROVE  /\ IsData(span.data)
           /\ span.type \in {"query", "planning", "utility", "plan node", "worker"}
           /\ span.status \in {"0", "1", "2"}
           /\ IsSequence(span.name) /\ IsSequence(span.sqlState) /\ IsSequence(span.statusMessage)
<1> DEFINE data == span.data
           Texts == Seq(STRING)
<1> HIDE DEF data, Texts
<1>1. \A text \in Texts : IsSequence(text)
  BY DEF IsSequence, Texts
<1>2. /\ {data.commandTag, data.context, data.nodeType, data.relationName, data.indexName,
          data.joinType, data.modifyOperation} \subseteq Texts
      /\ data.number \in {"number"} \cup Otlp!NonFinite
      /\ {data.hasResourceUsage, data.hasJitFlags, data.hasJit, data.hasWorkerJit,
          data.hasPlanStats, data.hasLoops, data.hasGatherInfo, data.hasSingleCopy,
          data.hasWorkerSummary, data.flag} \subseteq BOOLEAN
      /\ {span.name, span.sqlState, span.statusMessage} \subseteq Texts
      /\ span.type \in {"query", "planning", "utility", "plan node", "worker"}
      /\ span.status \in {"0", "1", "2"}
  BY Zenon DEF IsSpan, data, Texts
<1>3. IsData(data)
  <2>1. \A x : x \in {data.hasResourceUsage, data.hasJitFlags, data.hasJit, data.hasWorkerJit,
                      data.hasPlanStats, data.hasLoops, data.hasGatherInfo, data.hasSingleCopy,
                      data.hasWorkerSummary, data.flag} => x \in BOOLEAN
    BY <1>2
  <2>2. \A x : x \in {data.commandTag, data.context, data.nodeType, data.relationName,
                      data.indexName, data.joinType, data.modifyOperation} => IsSequence(x)
    BY <1>1, <1>2
  <2> QED  BY <1>2, <2>1, <2>2 DEF IsData
<1> QED  BY <1>1, <1>2, <1>3 DEF data

\* The part of the attributes that depends on the type
TypeAttributes(span) ==
    CASE span.type = "query" -> Otlp!QueryAttributes(span.data)
      [] span.type = "planning" -> Otlp!PlannerAttributes(span.data)
      [] span.type = "utility" -> Otlp!UtilityAttributes(span.data)
      [] span.type = "plan node" -> Otlp!PlanNodeAttributes(span.data)
      [] span.type = "worker" -> Otlp!WorkerAttributes(span.data)

LEMMA TypeCarried ==
    ASSUME NEW span, IsSpan(span)
    PROVE  \E K : Carries(TypeAttributes(span), K) /\ IsApart(K)
<1> DEFINE data == span.data
<1>1. IsData(data) /\ span.type \in {"query", "planning", "utility", "plan node", "worker"}
  BY SpanIsWellFormed
<1>2. TypeAttributes(span) \in {Otlp!QueryAttributes(data), Otlp!PlannerAttributes(data),
         Otlp!UtilityAttributes(data), Otlp!PlanNodeAttributes(data), Otlp!WorkerAttributes(data)}
  <2> HIDE DEF data
  <2>1. TypeAttributes(span) =
          CASE span.type = "query" -> Otlp!QueryAttributes(data)
            [] span.type = "planning" -> Otlp!PlannerAttributes(data)
            [] span.type = "utility" -> Otlp!UtilityAttributes(data)
            [] span.type = "plan node" -> Otlp!PlanNodeAttributes(data)
            [] span.type = "worker" -> Otlp!WorkerAttributes(data)
    BY Zenon DEF TypeAttributes, data
  <2> QED  BY <1>1, <2>1
<1> HIDE DEF data
<1> QED  BY <1>1, <1>2, QueryCarried, PlannerCarried, UtilityCarried, PlanNodeCarried, WorkerCarried

\* The attributes of every span can be written, and no key of them is there twice.
LEMMA AttributesCarried ==
    ASSUME NEW span, IsSpan(span)
    PROVE  /\ \E K : Carries(Otlp!AttributesOf(span), K)
           /\ Len(Otlp!AttributesOf(span)) # 0
<1> DEFINE a1 == Otlp!Text("db", ".system", <<"postgresql">>)
           a2 == TypeAttributes(span)
           a3 == Otlp!If(span.type \in {"plan node", "worker"},
                         Otlp!Flag("pg_eatrace", ".timing_approximation", TRUE))
           a4 == Otlp!If(span.status = "2",
                    Otlp!OptionalText("db.postgresql.error", ".sqlstate", span.sqlState)
                    \o Otlp!OptionalText("db.postgresql.error", ".message", span.statusMessage))
           N4x == {".sqlstate"}
           N4y == {".message"}
           K1 == Keys("db", {".system"})
           K3 == Keys("pg_eatrace", {".timing_approximation"})
           K4 == Keys("db.postgresql.error", N4x \cup N4y)
<1>1. Carries(a1, K1) /\ Len(a1) = 1
  <2>1. IsSequence(<<"postgresql">>)
    BY SinglesAreSequences
  <2>2. Len(a1) = 1
    BY DEF Otlp!Text
  <2> QED  BY <2>1, <2>2, CarriesText
<1>2. PICK K2 : Carries(a2, K2) /\ IsApart(K2)
  BY TypeCarried
<1>3. Carries(a3, K3)
  <2>1. Carries(Otlp!Flag("pg_eatrace", ".timing_approximation", TRUE), K3)
    BY CarriesFlag
  <2>2. a3 \in {<<>>, Otlp!Flag("pg_eatrace", ".timing_approximation", TRUE)}
    BY DEF Otlp!If
  <2> HIDE DEF a3, K3
  <2> QED  BY <2>1, <2>2, CarriesNothing
<1>4. Carries(a4, K4)
  <2> DEFINE s == Otlp!OptionalText("db.postgresql.error", ".sqlstate", span.sqlState)
             t == Otlp!OptionalText("db.postgresql.error", ".message", span.statusMessage)
  <2>1. /\ Carries(s, Keys("db.postgresql.error", N4x))
        /\ Carries(t, Keys("db.postgresql.error", N4y))
    BY CarriesText, SpanIsWellFormed
  <2>2. N4x \cap N4y = {}
    OBVIOUS
  <2> HIDE DEF s, t, N4x, N4y
  <2>3. Carries(s \o t, K4)
    BY <2>1, <2>2, CarriesMore
  <2> HIDE DEF K4
  <2>4. Carries(Otlp!If(span.status = "2", s \o t), K4)
    BY <2>3, CarriesIf
  <2> QED  BY <2>4 DEF s, t
<1>5. Otlp!AttributesOf(span) = ((a1 \o a2) \o a3) \o a4
  BY Zenon DEF Otlp!AttributesOf, TypeAttributes
<1>6. K1 \cap K2 = {} /\ (K1 \cup K2) \cap K3 = {} /\ ((K1 \cup K2) \cup K3) \cap K4 = {}
  <2>1. /\ \A k \in K1 : k[1] = "db"
        /\ \A k \in K3 : k[1] = "pg_eatrace"
        /\ \A k \in K4 : k[1] = "db.postgresql.error"
    BY DEF Keys
  <2>2. \A k \in K2 : k[1] # "db" /\ k[1] # "pg_eatrace" /\ k[1] # "db.postgresql.error"
    BY <1>2 DEF IsApart
  <2> HIDE DEF K1, K3, K4
  <2> QED  BY <2>1, <2>2
<1> HIDE DEF a1, a2, a3, a4, K1, K3, K4
<1>7. Carries(a1 \o a2, K1 \cup K2)
  BY <1>1, <1>2, <1>6, CarriesBoth
<1>8. Carries((a1 \o a2) \o a3, (K1 \cup K2) \cup K3)
  BY <1>3, <1>6, <1>7, CarriesBoth
<1>9. Carries(((a1 \o a2) \o a3) \o a4, ((K1 \cup K2) \cup K3) \cup K4)
  BY <1>4, <1>6, <1>8, CarriesBoth
<1>10. Len(((a1 \o a2) \o a3) \o a4) # 0
  <2>1. /\ Len(a1 \o a2) = Len(a1) + Len(a2) /\ Len(a2) \in Nat
        /\ Len((a1 \o a2) \o a3) = Len(a1 \o a2) + Len(a3) /\ Len(a3) \in Nat
        /\ Len(((a1 \o a2) \o a3) \o a4) = Len((a1 \o a2) \o a3) + Len(a4) /\ Len(a4) \in Nat
    <3>1. /\ IsSequence(a1) /\ IsSequence(a2) /\ IsSequence(a3) /\ IsSequence(a4)
          /\ IsSequence(a1 \o a2) /\ IsSequence((a1 \o a2) \o a3)
      BY <1>1, <1>2, <1>3, <1>4, <1>7, <1>8 DEF Carries
    <3>2. Len(a1 \o a2) = Len(a1) + Len(a2) /\ Len(a2) \in Nat
      BY <3>1, BothAreSequences
    <3>3. Len((a1 \o a2) \o a3) = Len(a1 \o a2) + Len(a3) /\ Len(a3) \in Nat
      BY <3>1, BothAreSequences
    <3>4. /\ Len(((a1 \o a2) \o a3) \o a4) = Len((a1 \o a2) \o a3) + Len(a4)
          /\ Len(a4) \in Nat
      BY <3>1, BothAreSequences
    <3> QED  BY <3>2, <3>3, <3>4
  <2> QED  BY <1>1, <2>1
<1> QED  BY <1>5, <1>9, <1>10

\* A span's attributes are read as they are.
LEMMA AttributesAreSerialized ==
    ASSUME NEW span, IsSpan(span)
    PROVE  Reads(Otlp!SerializeAttributes(span),
                 <<"array", AttributesRead(Otlp!AttributesOf(span))>>)
<1> DEFINE attributes == Otlp!AttributesOf(span)
           writer == Otlp!FoldLeft(Otlp!WriteAttribute, [builder |-> <<>>, first |-> TRUE],
                                   attributes)
<1>1. PICK K : Carries(attributes, K)
  BY AttributesCarried
<1>2. /\ IsSequence(attributes) /\ Len(attributes) # 0
      /\ \A i \in 1..Len(attributes) : IsAttribute(attributes[i])
  BY <1>1, AttributesCarried DEF Carries
<1>3. Reads(<<"[">> \o writer.builder \o <<"]">>, <<"array", AttributesRead(attributes)>>)
  <2> HIDE DEF attributes
  <2> QED  BY <1>2, AttributesAreRead, Zenon DEF AttributesRead
<1>4. Otlp!SerializeAttributes(span) = <<"[">> \o writer.builder \o <<"]">>
  BY Zenon DEF Otlp!SerializeAttributes
<1> HIDE DEF writer, attributes
<1> QED  BY <1>3, <1>4 DEF attributes

-----------------------------------------------------------------------------
\* A span, and a batch of them.

LEMMA ReadIsSequence ==
    ASSUME NEW kind, NEW w, NEW xs, AreRead(kind, w, xs)
    PROVE  IsSequence(w) /\ IsSequence(xs)
<1>1. PICK e \in Beginnings(kind) : TRUE
  BY DEF Beginnings
<1>2. Goes(Json!State(e, Json!Open(kind, <<>>, {})), w,
           Json!State("comma", Json!Open(kind, <<>> \o xs, {})))
  BY SinglesAreSequences DEF AreRead
<1> QED  BY <1>2 DEF Goes, AreRead

\* A part of an object that may be left out
LEMMA PartIsRead ==
    ASSUME NEW w, NEW xs, AreRead("object", w, xs), NEW v, NEW ys, AreRead("object", v, ys),
           NEW condition
    PROVE  AreRead("object", w \o Otlp!If(condition, <<",">> \o v),
                   xs \o (IF condition THEN ys ELSE <<>>))
<1>1. IsSequence(w) /\ IsSequence(v) /\ IsSequence(xs)
  BY ReadIsSequence
<1>2. CASE condition
  <2>1. AreRead("object", (w \o <<",">>) \o v, xs \o ys)
    BY BothAreRead
  <2>2. (w \o <<",">>) \o v = w \o (<<",">> \o v)
    <3> DEFINE comma == <<",">>
    <3>1. IsSequence(comma)
      BY SinglesAreSequences
    <3> HIDE DEF comma
    <3>2. (w \o comma) \o v = w \o (comma \o v)
      BY <1>1, <3>1, Associative
    <3> QED  BY <3>2 DEF comma
  <2> DEFINE u == <<",">> \o v
  <2>3. Otlp!If(condition, u) = u /\ (IF condition THEN ys ELSE <<>>) = ys
    BY <1>2 DEF Otlp!If
  <2> QED  BY <2>1, <2>2, <2>3
<1>3. CASE ~condition
  <2> DEFINE u == <<",">> \o v
  <2>1. Otlp!If(condition, u) = <<>> /\ (IF condition THEN ys ELSE <<>>) = <<>>
    BY <1>3 DEF Otlp!If
  <2>2. w \o <<>> = w /\ xs \o <<>> = xs
    BY <1>1, EmptyAndSingle
  <2> QED  BY <2>1, <2>2
<1> QED  BY <1>2, <1>3

\* What a span's status is read as
StatusRead(span) ==
    LET message == IF span.statusMessage = <<>> THEN <<>>
                   ELSE <<Read("message", StringRead(span.statusMessage))>>
    IN  <<"object", <<Read("code", BareRead(span.status))>> \o message>>

LEMMA StatusIsRead ==
    ASSUME NEW span, IsSpan(span)
    PROVE  Reads(Otlp!Status(span), StatusRead(span))
<1> DEFINE w == Otlp!Member("code", <<span.status>>)
           v == Otlp!Member("message", Otlp!String(span.statusMessage))
           x == Read("code", BareRead(span.status))
           y == Read("message", StringRead(span.statusMessage))
           given == span.statusMessage # <<>>
<1>1. Reads(<<span.status>>, BareRead(span.status))
  BY BareTokens, SpanIsWellFormed
<1>2. AreRead("object", w, <<x>>)
  <2> DEFINE s == span.status
  <2> HIDE DEF s
  <2>1. AreRead("object", Otlp!Member("code", <<s>>), <<Read("code", BareRead(s))>>)
    BY <1>1, MemberIsRead, PlainNames DEF s
  <2> QED  BY <2>1 DEF s
<1>3. AreRead("object", v, <<y>>)
  <2>1. Reads(Otlp!String(span.statusMessage), StringRead(span.statusMessage))
    BY TextIsRead, SpanIsWellFormed
  <2> QED  BY <2>1, MemberIsRead, PlainNames
<1>4. Otlp!Status(span) = Otlp!Object(w \o Otlp!If(given, <<",">> \o v))
  BY Zenon DEF Otlp!Status
<1>5. StatusRead(span) = <<"object", <<x>> \o (IF given THEN <<y>> ELSE <<>>)>>
  BY Zenon DEF StatusRead
<1> HIDE DEF w, v, x, y, given
<1>6. AreRead("object", w \o Otlp!If(given, <<",">> \o v), <<x>> \o (IF given THEN <<y>> ELSE <<>>))
  BY <1>2, <1>3, PartIsRead
<1> QED  BY <1>4, <1>5, <1>6, ObjectIsRead

LEMMA IdsAreRead ==
    ASSUME NEW name, IsPlainName(name)
    PROVE  AreRead("object", Otlp!Member(name, Otlp!String(<<name>>)), <<IdRead(name)>>)
<1>1. Reads(Otlp!String(<<name>>), StringRead(<<name>>))
  BY TextIsRead, SinglesAreSequences
<1> QED  BY <1>1, MemberIsRead DEF IdRead

\* A span is read as SpanRead says.
LEMMA SpanIsRead ==
    ASSUME NEW span, IsSpan(span)
    PROVE  Reads(Otlp!SerializeSpan(span), SpanRead(span))
<1> DEFINE attributes == AttributesRead(Otlp!AttributesOf(span))
           w1 == Otlp!Member("traceId", Otlp!String(<<"traceId">>))
           w2 == Otlp!Member("spanId", Otlp!String(<<"spanId">>))
           w3 == Otlp!Member("parentSpanId", Otlp!String(<<"parentSpanId">>))
           w4 == Otlp!Member("name", Otlp!String(span.name))
           w5 == Otlp!Member("kind", <<Otlp!SpanKind(span)>>)
           w6 == Otlp!Member("startTimeUnixNano", Otlp!String(<<"startTimeUnixNano">>))
           w7 == Otlp!Member("endTimeUnixNano", Otlp!String(<<"endTimeUnixNano">>))
           w8 == Otlp!Member("attributes", Otlp!SerializeAttributes(span))
           x1 == IdRead("traceId")
           x2 == IdRead("spanId")
           x3 == IdRead("parentSpanId")
           x4 == Read("name", StringRead(span.name))
           x5 == Read("kind", BareRead(Otlp!SpanKind(span)))
           x6 == IdRead("startTimeUnixNano")
           x7 == IdRead("endTimeUnixNano")
           x8 == Read("attributes", <<"array", attributes>>)
           ws == Otlp!Member("status", Otlp!Status(span))
           xs == Read("status", StatusRead(span))
           given == span.status # "0"
<1>1. /\ AreRead("object", w1, <<x1>>) /\ AreRead("object", w2, <<x2>>)
      /\ AreRead("object", w3, <<x3>>) /\ AreRead("object", w6, <<x6>>)
      /\ AreRead("object", w7, <<x7>>)
  BY IdsAreRead, PlainNames
<1>2. AreRead("object", w4, <<x4>>)
  <2>1. Reads(Otlp!String(span.name), StringRead(span.name))
    BY TextIsRead, SpanIsWellFormed
  <2> QED  BY <2>1, MemberIsRead, PlainNames
<1>3. AreRead("object", w5, <<x5>>)
  <2> DEFINE k == Otlp!SpanKind(span)
  <2>1. k \in {"1", "2"}
    BY DEF Otlp!SpanKind
  <2> HIDE DEF k
  <2>2. Reads(<<k>>, BareRead(k))
    BY <2>1, BareTokens
  <2>3. AreRead("object", Otlp!Member("kind", <<k>>), <<Read("kind", BareRead(k))>>)
    BY <2>2, MemberIsRead, PlainNames
  <2> QED  BY <2>3 DEF k
<1>4. AreRead("object", w8, <<x8>>)
  <2> DEFINE v == <<"array", attributes>>
  <2>1. Reads(Otlp!SerializeAttributes(span), v)
    BY AttributesAreSerialized
  <2> HIDE DEF v
  <2>2. AreRead("object", w8, <<Read("attributes", v)>>)
    BY <2>1, MemberIsRead, PlainNames
  <2> QED  BY <2>2 DEF v
<1>5. AreRead("object", ws, <<xs>>)
  <2>1. Reads(Otlp!Status(span), StatusRead(span))
    BY StatusIsRead
  <2> QED  BY <2>1, MemberIsRead, PlainNames
<1> DEFINE b1 == w1
           b2 == b1 \o <<",">> \o w2
           b3 == b2 \o <<",">> \o w3
           b4 == b3 \o <<",">> \o w4
           b5 == b4 \o <<",">> \o w5
           b6 == b5 \o <<",">> \o w6
           b7 == b6 \o <<",">> \o w7
           b8 == b7 \o <<",">> \o w8
<1>6. Otlp!SerializeSpan(span) = Otlp!Object(b8 \o Otlp!If(given, <<",">> \o ws))
  BY Zenon DEF Otlp!SerializeSpan
<1>7. SpanRead(span) =
         <<"object", <<x1, x2, x3, x4, x5, x6, x7, x8>> \o (IF given THEN <<xs>> ELSE <<>>)>>
  BY Zenon DEF SpanRead, StatusRead, AttributesRead
<1> HIDE DEF w1, w2, w3, w4, w5, w6, w7, w8, x1, x2, x3, x4, x5, x6, x7, x8, ws, xs,
             given, attributes
<1>8. AreRead("object", b1, <<x1>>)
  BY <1>1
<1> HIDE DEF b1
<1>9. AreRead("object", b2, <<x1, x2>>)
  <2>1. AreRead("object", b1 \o <<",">> \o w2, <<x1>> \o <<x2>>)
    BY <1>8, <1>1, BothAreRead
  <2>2. <<x1>> \o <<x2>> = <<x1, x2>>
    BY Longer1, Zenon
  <2> QED  BY <2>1, <2>2
<1> HIDE DEF b2
<1>10. AreRead("object", b3, <<x1, x2, x3>>)
  <2>1. AreRead("object", b2 \o <<",">> \o w3, <<x1, x2>> \o <<x3>>)
    BY <1>9, <1>1, BothAreRead
  <2>2. <<x1, x2>> \o <<x3>> = <<x1, x2, x3>>
    BY Longer2, Zenon
  <2> QED  BY <2>1, <2>2
<1> HIDE DEF b3
<1>11. AreRead("object", b4, <<x1, x2, x3, x4>>)
  <2>1. AreRead("object", b3 \o <<",">> \o w4, <<x1, x2, x3>> \o <<x4>>)
    BY <1>10, <1>2, BothAreRead
  <2>2. <<x1, x2, x3>> \o <<x4>> = <<x1, x2, x3, x4>>
    BY Longer3, Zenon
  <2> QED  BY <2>1, <2>2
<1> HIDE DEF b4
<1>12. AreRead("object", b5, <<x1, x2, x3, x4, x5>>)
  <2>1. AreRead("object", b4 \o <<",">> \o w5, <<x1, x2, x3, x4>> \o <<x5>>)
    BY <1>11, <1>3, BothAreRead
  <2>2. <<x1, x2, x3, x4>> \o <<x5>> = <<x1, x2, x3, x4, x5>>
    BY Longer4, Zenon
  <2> QED  BY <2>1, <2>2
<1> HIDE DEF b5
<1>13. AreRead("object", b6, <<x1, x2, x3, x4, x5, x6>>)
  <2>1. AreRead("object", b5 \o <<",">> \o w6, <<x1, x2, x3, x4, x5>> \o <<x6>>)
    BY <1>12, <1>1, BothAreRead
  <2>2. <<x1, x2, x3, x4, x5>> \o <<x6>> = <<x1, x2, x3, x4, x5, x6>>
    BY Longer5, Zenon
  <2> QED  BY <2>1, <2>2
<1> HIDE DEF b6
<1>14. AreRead("object", b7, <<x1, x2, x3, x4, x5, x6, x7>>)
  <2>1. AreRead("object", b6 \o <<",">> \o w7, <<x1, x2, x3, x4, x5, x6>> \o <<x7>>)
    BY <1>13, <1>1, BothAreRead
  <2>2. <<x1, x2, x3, x4, x5, x6>> \o <<x7>> = <<x1, x2, x3, x4, x5, x6, x7>>
    BY Longer6, ZenonT(60)
  <2> QED  BY <2>1, <2>2
<1> HIDE DEF b7
<1>15. AreRead("object", b8, <<x1, x2, x3, x4, x5, x6, x7, x8>>)
  <2>1. AreRead("object", b7 \o <<",">> \o w8, <<x1, x2, x3, x4, x5, x6, x7>> \o <<x8>>)
    BY <1>14, <1>4, BothAreRead
  <2>2. <<x1, x2, x3, x4, x5, x6, x7>> \o <<x8>> = <<x1, x2, x3, x4, x5, x6, x7, x8>>
    BY Longer7, ZenonT(60)
  <2> QED  BY <2>1, <2>2
<1> HIDE DEF b8
<1> DEFINE x == <<x1, x2, x3, x4, x5, x6, x7, x8>>
<1> HIDE DEF x
<1>16. AreRead("object", b8 \o Otlp!If(given, <<",">> \o ws), x \o (IF given THEN <<xs>> ELSE <<>>))
  BY <1>5, <1>15, PartIsRead DEF x
<1> QED  BY <1>6, <1>7, <1>16, ObjectIsRead DEF x

\* A batch takes up one span after the other.
IsBatching(run, spans) ==
    /\ run[0] = Otlp!OtlpBatchBegin
    /\ \A k \in 1..Len(spans) : run[k] = Otlp!OtlpBatchAddSpan(run[k - 1], spans[k])
    /\ run[Len(spans)] = Otlp!FoldLeft(Otlp!OtlpBatchAddSpan, Otlp!OtlpBatchBegin, spans)

\* The fold that makes the batch goes along the spans.
LEMMA SpansAreAdded ==
    ASSUME NEW spans, IsSequence(spans), IsSequence(Otlp!OtlpBatchBegin.builder),
           \A i \in 1..Len(spans) : IsSequence(Otlp!SerializeSpan(spans[i]))
    PROVE  \E run : IsBatching(run, spans)
<1> DEFINE n == Len(spans)
           texts == {Otlp!OtlpBatchBegin.builder} \cup {Otlp!SerializeSpan(spans[i]) : i \in 1..n}
           U == TokensOf(texts)
           V == [spanCount : Nat, builder : Seq(U)]
           base == Otlp!OtlpBatchBegin
           step == [i \in 1..n |-> [v \in V |-> Otlp!OtlpBatchAddSpan(v, spans[i])]]
           IsFold(iter) == iter = [s \in SUBSET (DOMAIN spans) |->
               IF s = {} THEN base
               ELSE Otlp!OtlpBatchAddSpan(iter[s \ {Greatest(s)}], spans[Greatest(s)])]
<1>1. n \in Nat /\ DOMAIN spans = 1..n
  BY SequenceOfItems
<1>2. \A text \in texts : text \in Seq(U)
  <2>1. \A text \in texts : IsSequence(text)
    OBVIOUS
  <2> HIDE DEF texts
  <2> QED  BY <2>1, TextsAreOfTokens
<1>3. base \in V /\ \A i \in 1..n : \A v \in V : Otlp!OtlpBatchAddSpan(v, spans[i]) \in V
  <2>1. base \in V
    <3> DEFINE b == base.builder
    <3>1. b \in texts
      OBVIOUS
    <3>2. base = [spanCount |-> 0, builder |-> b]
      BY DEF Otlp!OtlpBatchBegin
    <3> HIDE DEF texts, U, b, base
    <3>3. b \in Seq(U)
      BY <1>2, <3>1
    <3> QED  BY <3>2, <3>3
  <2>2. ASSUME NEW v \in V, NEW i \in 1..n
        PROVE  Otlp!OtlpBatchAddSpan(v, spans[i]) \in V
    <3> DEFINE w == Otlp!SerializeSpan(spans[i])
               b == v.builder
               k == v.spanCount
               comma == Otlp!If(v.spanCount > 0, <<",">>)
    <3>1. <<",">> \in Seq(U) /\ <<>> \in Seq(U)
      <4>1. \A text \in texts : IsSequence(text)
        OBVIOUS
      <4> HIDE DEF texts
      <4> QED  BY <4>1, TextsAreOfTokens
    <3>2. w \in Seq(U)
      <4>1. w \in texts
        OBVIOUS
      <4> HIDE DEF texts, U, w
      <4> QED  BY <1>2, <4>1
    <3>3. b \in Seq(U) /\ k + 1 \in Nat
      OBVIOUS
    <3>4. comma \in Seq(U)
      BY <3>1 DEF Otlp!If
    <3>5. Otlp!OtlpBatchAddSpan(v, spans[i]) = [spanCount |-> k + 1, builder |-> (b \o comma) \o w]
      BY Zenon DEF Otlp!OtlpBatchAddSpan
    <3> HIDE DEF w, b, k, comma, U
    <3>6. (b \o comma) \o w \in Seq(U)
      BY <3>2, <3>3, <3>4, ConcatProperties
    <3> QED  BY <3>3, <3>5, <3>6
  <2> HIDE DEF base, V
  <2> QED  BY <2>1, <2>2
<1>4. PICK iter : iter \in Folds(n, V, base, step)
  <2>1. \A i \in 1..n : \A v \in V : step[i][v] \in V
    BY <1>3
  <2> HIDE DEF n, base, step, V
  <2> QED  BY <1>1, <1>3, <2>1, FoldExists
<1>5. IsFold(iter)
  <2>1. ASSUME NEW s \in SUBSET (1..n), s # {}
        PROVE  iter[s] = Otlp!OtlpBatchAddSpan(iter[s \ {Greatest(s)}], spans[Greatest(s)])
    <3>1. Greatest(s) \in 1..n
      <4> HIDE DEF n
      <4> QED  BY <1>1, <2>1, GreatestOfSet
    <3>2. iter[s] = step[Greatest(s)][iter[s \ {Greatest(s)}]]
      <4> HIDE DEF step, n, base, V
      <4> QED  BY <1>4, <2>1 DEF Folds
    <3>3. iter[s \ {Greatest(s)}] \in V
      <4> HIDE DEF step, n, base, V
      <4> QED  BY <1>4 DEF Folds
    <3> HIDE DEF n, base, V
    <3> QED  BY <3>1, <3>2, <3>3
  <2>2. iter[{}] = base /\ iter = [s \in SUBSET (1..n) |-> iter[s]]
    <3> HIDE DEF step, n, base, V
    <3> QED  BY <1>4 DEF Folds
  <2> HIDE DEF step, n, base, V
  <2> QED  BY <1>1, <2>1, <2>2
<1> DEFINE fold == CHOOSE fold : IsFold(fold)
<1>6. IsFold(fold)
  <2> HIDE DEF IsFold
  <2> QED  BY <1>5
<1>7. Otlp!FoldLeft(Otlp!OtlpBatchAddSpan, base, spans) = fold[DOMAIN spans]
  BY Zenon DEF Otlp!FoldLeft, Otlp!MapThenFoldSet, Otlp!Max, Greatest
<1> HIDE DEF fold
<1> DEFINE run == [k \in 0..n |-> fold[1..k]]
<1>8. IsBatching(run, spans)
  <2>1. fold[1..0] = base
    <3>1. 1..0 = {}
      OBVIOUS
    <3> HIDE DEF base
    <3> QED  BY <1>6, <3>1
  <2>2. ASSUME NEW k \in 1..n
        PROVE  fold[1..k] = Otlp!OtlpBatchAddSpan(fold[1..(k - 1)], spans[k])
    <3> DEFINE g == Greatest(1..k)
    <3>1. /\ 1..k \in SUBSET (DOMAIN spans) /\ 1..k # {} /\ g = k
          /\ (1..k) \ {k} = 1..(k - 1)
      <4> HIDE DEF base, n
      <4> QED  BY <1>1, GreatestOfInterval
    <3>2. fold[1..k] = Otlp!OtlpBatchAddSpan(fold[(1..k) \ {g}], spans[g])
      <4> HIDE DEF base, n
      <4> QED  BY <1>6, <3>1
    <3> QED  BY <3>1, <3>2
  <2>3. \A k \in 1..n : k \in 0..n /\ k - 1 \in 0..n
    OBVIOUS
  <2>4. n \in 0..n /\ 0 \in 0..n
    BY <1>1
  <2>5. run[0] = base
    BY <2>1, <2>4
  <2> HIDE DEF base
  <2>6. \A k \in 1..n : run[k] = Otlp!OtlpBatchAddSpan(run[k - 1], spans[k])
    BY <2>2, <2>3
  <2>7. run[n] = fold[DOMAIN spans]
    <3> HIDE DEF n
    <3> QED  BY <1>1, <2>4
  <2> HIDE DEF run
  <2> QED  BY <1>7, <2>5, <2>6, <2>7 DEF IsBatching, base
<1> HIDE DEF run
<1> QED  BY <1>8

-----------------------------------------------------------------------------
\* The reader takes a document in blocks.

\* As long as it gets somewhere it has not given up before.
LEMMA NothingStays ==
    ASSUME NEW s, s.expects = "nothing", NEW t
    PROVE  Json!Take(s, t) = Json!Unreadable
BY DEF Json!Take

LEMMA NothingIsLeft ==
    ASSUME NEW run, NEW a, NEW w, NEW b, IsReading(run, a, w, b), IsSequence(w),
           b.expects # "nothing"
    PROVE  \A k \in 0..Len(w) : run[k].expects # "nothing"
<1> DEFINE n == Len(w)
<1>1. n \in Nat /\ run[n] = b /\ \A k \in 1..n : run[k] = Json!Take(run[k - 1], w[k])
  BY SequenceOfItems DEF IsReading
<1> DEFINE G == {c \in 1..n : run[c].expects # "nothing"}
<1>2. \A c \in 1..n : run[c - 1].expects = "nothing" => run[c].expects = "nothing"
  <2>1. SUFFICES ASSUME NEW c \in 1..n, run[c - 1].expects = "nothing"
                 PROVE  run[c].expects = "nothing"
    OBVIOUS
  <2>2. run[c] = Json!Unreadable
    BY <1>1, <2>1, NothingStays
  <2> QED  BY <2>2 DEF Json!Unreadable, Json!State
<1> HIDE DEF n
<1>3. ASSUME NEW c \in 1..n, \A d \in (c + 1)..n : d \in G
      PROVE  c \in G
  <2>1. CASE c = n
    BY <1>1, <2>1
  <2>2. CASE c # n
    <3> DEFINE d == c + 1
    <3>1. d \in (c + 1)..n /\ d \in 1..n /\ d - 1 = c
      BY <1>1, <2>2
    <3> HIDE DEF d
    <3>2. run[d].expects # "nothing"
      BY <1>3, <3>1
    <3> QED  BY <1>2, <3>1, <3>2
  <2> QED  BY <2>1, <2>2
<1>4. \A c \in 1..n : c \in G
  <2> HIDE DEF G
  <2> QED  BY <1>1, <1>3, Descent
<1>5. run[0].expects # "nothing"
  <2>1. CASE n = 0
    BY <1>1, <2>1
  <2>2. CASE n # 0
    <3>1. 1 \in 1..n /\ 1 - 1 = 0
      BY <1>1, <2>2
    <3> QED  BY <1>2, <1>4, <3>1
  <2> QED  BY <2>1, <2>2
<1>6. \A k \in 0..n : k = 0 \/ k \in 1..n
  BY <1>1
<1> QED  BY <1>4, <1>5, <1>6 DEF n

\* Where the reader is after so many tokens
Least(k, n) == IF k > n THEN n ELSE k

\* TakeBlock takes the tokens of its block, as far as there are any.
LEMMA BlockIsTaken ==
    ASSUME NEW run, NEW a, NEW w, NEW b, IsReading(run, a, w, b), IsSequence(w),
           NEW n \in Nat, run[Least(n * 40, Len(w))].expects # "nothing"
    PROVE  Json!TakeBlock(run[Least(n * 40, Len(w))], w, n) = run[Least((n + 1) * 40, Len(w))]
<1> DEFINE len == Len(w)
           state == run[Least(n * 40, Len(w))]
           IsTaking(f) == f = [i \in 0..Json!Block |->
               IF i = 0 THEN state
               ELSE IF n * Json!Block + i > Len(w) THEN f[i - 1]
               ELSE Json!Take(f[i - 1], w[n * Json!Block + i])]
           taking == CHOOSE f : IsTaking(f)
           g == [i \in 0..40 |-> run[Least(n * 40 + i, len)]]
<1>1. len \in Nat /\ run[0] = a /\ \A k \in 1..len : run[k] = Json!Take(run[k - 1], w[k])
  BY SequenceOfItems DEF IsReading
<1>2. Json!Block = 40
  BY DEF Json!Block
<1>3. Json!TakeBlock(state, w, n) = IF state.expects = "nothing" THEN Json!Unreadable
                                    ELSE taking[Json!Block]
  BY Zenon DEF Json!TakeBlock
<1> HIDE DEF len, state
<1> DEFINE m == n * 40
<1>4. m \in Nat
  OBVIOUS
<1> HIDE DEF m
<1>5. ASSUME NEW i \in 1..40
      PROVE  run[Least(m + i, len)] =
                IF m + i > len THEN run[Least(m + (i - 1), len)]
                ELSE Json!Take(run[Least(m + (i - 1), len)], w[m + i])
  <2>1. CASE m + i > len
    <3>1. Least(m + i, len) = len /\ Least(m + (i - 1), len) = len
      BY <1>1, <1>4, <2>1 DEF Least
    <3> QED  BY <2>1, <3>1
  <2>2. CASE ~(m + i > len)
    <3> DEFINE k == m + i
    <3>1. k \in 1..len /\ Least(m + i, len) = k /\ Least(m + (i - 1), len) = k - 1
      BY <1>1, <1>4, <2>2 DEF Least
    <3>2. run[k] = Json!Take(run[k - 1], w[k])
      <4> HIDE DEF k
      <4> QED  BY <1>1, <3>1
    <3> QED  BY <2>2, <3>1, <3>2
  <2> QED  BY <2>1, <2>2
<1>6. IsTaking(g)
  <2>1. \A i \in 0..40 : g[i] = run[Least(m + i, len)]
    BY DEF m
  <2>2. g[0] = state
    <3>1. 0 \in 0..40 /\ m + 0 = m
      BY <1>4
    <3>2. g[0] = run[Least(m, len)]
      BY <2>1, <3>1
    <3> QED  BY <3>2 DEF state, len, m
  <2>3. g = [i \in 0..40 |-> g[i]]
    OBVIOUS
  <2> HIDE DEF g
  <2>4. \A i \in 0..40 : g[i] = IF i = 0 THEN state
                                ELSE IF m + i > len THEN g[i - 1]
                                ELSE Json!Take(g[i - 1], w[m + i])
    <3>1. SUFFICES ASSUME NEW i \in 0..40, i # 0
                   PROVE  g[i] = IF m + i > len THEN g[i - 1]
                                 ELSE Json!Take(g[i - 1], w[m + i])
      BY <2>2
    <3>2. i \in 1..40 /\ i - 1 \in 0..40
      BY <3>1
    <3> QED  BY <1>5, <2>1, <3>2
  <2>5. g = [i \in 0..40 |-> IF i = 0 THEN state
                             ELSE IF m + i > len THEN g[i - 1]
                             ELSE Json!Take(g[i - 1], w[m + i])]
    BY <2>3, <2>4, Zenon
  <2> QED  BY <1>2, <2>5, Zenon DEF m, len
<1>7. IsTaking(taking)
  <2> HIDE DEF IsTaking, g
  <2> QED  BY <1>6
<1> HIDE DEF taking
<1>8. \A i \in 0..40 : taking[i] = IF i = 0 THEN state
                                   ELSE IF m + i > len THEN taking[i - 1]
                                   ELSE Json!Take(taking[i - 1], w[m + i])
  BY <1>2, <1>7, Zenon DEF m, len
<1> HIDE DEF g, IsTaking
<1> DEFINE S == {i \in 0..40 : taking[i] = run[Least(m + i, len)]}
<1>9. 0 \in S
  <2>1. m + 0 = m /\ 0 \in 0..40
    BY <1>4
  <2>2. taking[0] = state /\ state = run[Least(m, len)]
    BY <1>8, <2>1 DEF state, m, len
  <2> QED  BY <2>1, <2>2
<1>10. ASSUME NEW j \in 0..40, j \in S, j < 40
       PROVE  j + 1 \in S
  <2> DEFINE i == j + 1
  <2>1. i \in 1..40 /\ i \in 0..40 /\ i # 0 /\ i - 1 = j
    BY <1>10
  <2> HIDE DEF i
  <2>2. taking[j] = run[Least(m + j, len)]
    BY <1>10
  <2>3. taking[i] = run[Least(m + i, len)]
    <3>1. taking[i] = IF m + i > len THEN taking[j] ELSE Json!Take(taking[j], w[m + i])
      BY <1>8, <2>1
    <3>2. run[Least(m + i, len)] = IF m + i > len THEN run[Least(m + j, len)]
                                   ELSE Json!Take(run[Least(m + j, len)], w[m + i])
      BY <1>5, <2>1
    <3> QED  BY <2>2, <3>1, <3>2
  <2> QED  BY <2>1, <2>3 DEF i
<1>11. 40 \in S
  <2> HIDE DEF S
  <2> QED  BY <1>9, <1>10, HoldsUpTo
<1>12. m + 40 = (n + 1) * 40
  BY DEF m
<1> QED  BY <1>2, <1>3, <1>11, <1>12 DEF state, len

\* A document from which the reader goes to a value is parsed as that value.
LEMMA DocumentIsParsed ==
    ASSUME NEW w, NEW v,
           Goes(Json!Start, w, Json!State("comma", Json!Open("document", <<v>>, <<>>)))
    PROVE  Json!Parsed(w) = v
<1> DEFINE b == Json!State("comma", Json!Open("document", <<v>>, <<>>))
           len == Len(w)
           blocks == Len(w) \div Json!Block + 1
           IsParsing(f) == f = [n \in 0..blocks |->
               IF n = 0 THEN Json!Start ELSE Json!TakeBlock(f[n - 1], w, n - 1)]
           parsing == CHOOSE f : IsParsing(f)
           end == parsing[blocks]
<1>1. PICK run : IsReading(run, Json!Start, w, b)
  BY DEF Goes
<1>2. IsSequence(w) /\ len \in Nat
  BY SequenceOfItems DEF Goes
<1>3. /\ b.expects # "nothing" /\ b.expects = "comma"
      /\ b.open.kind = "document" /\ b.open.content[1] = v
  BY DEF Json!State, Json!Open
<1>4. Json!Parsed(w) = IF end.open.kind = "document" /\ end.expects = "comma"
                       THEN end.open.content[1]
                       ELSE <<"none">>
  BY Zenon DEF Json!Parsed
<1>5. blocks \in Nat /\ blocks * 40 > len
  BY <1>2 DEF Json!Block
<1> HIDE DEF b, blocks, len
<1> DEFINE at(n) == run[Least(n * 40, len)]
<1>6. \A n \in Nat : at(n).expects # "nothing"
  <2>1. SUFFICES ASSUME NEW n \in Nat PROVE at(n).expects # "nothing"
    OBVIOUS
  <2> DEFINE m == n * 40
  <2>2. m \in Nat
    OBVIOUS
  <2> HIDE DEF m
  <2>3. Least(m, len) \in 0..len
    BY <1>2, <2>2 DEF Least
  <2>4. \A k \in 0..len : run[k].expects # "nothing"
    BY <1>1, <1>2, <1>3, NothingIsLeft DEF len
  <2> QED  BY <2>3, <2>4 DEF m
<1>7. \A n \in Nat : Json!TakeBlock(at(n), w, n) = at(n + 1)
  <2>1. SUFFICES ASSUME NEW n \in Nat PROVE Json!TakeBlock(at(n), w, n) = at(n + 1)
    OBVIOUS
  <2>2. run[Least(n * 40, Len(w))].expects # "nothing"
    BY <1>6 DEF len
  <2>3. Json!TakeBlock(run[Least(n * 40, Len(w))], w, n) = run[Least((n + 1) * 40, Len(w))]
    BY <1>1, <1>2, <2>2, BlockIsTaken
  <2> QED  BY <2>3 DEF len
<1>8. at(0) = Json!Start
  <2>1. Least(0 * 40, len) = 0
    BY <1>2 DEF Least
  <2> QED  BY <1>1, <2>1 DEF IsReading
<1> HIDE DEF at
<1> DEFINE g == [n \in 0..blocks |-> at(n)]
<1>9. IsParsing(g)
  <2>1. \A n \in 0..blocks : g[n] = IF n = 0 THEN Json!Start ELSE Json!TakeBlock(g[n - 1], w, n - 1)
    <3>1. SUFFICES ASSUME NEW n \in 0..blocks
                   PROVE  at(n) = IF n = 0 THEN Json!Start ELSE Json!TakeBlock(g[n - 1], w, n - 1)
      OBVIOUS
    <3>2. CASE n = 0
      BY <1>8, <3>2
    <3>3. CASE n # 0
      <4> DEFINE k == n - 1
      <4>1. k \in Nat /\ k \in 0..blocks /\ k + 1 = n
        BY <1>5, <3>3
      <4> HIDE DEF k
      <4>2. Json!TakeBlock(at(k), w, k) = at(n)
        BY <1>7, <4>1
      <4>3. g[k] = at(k)
        BY <4>1
      <4>4. at(n) = Json!TakeBlock(g[k], w, k)
        BY <4>2, <4>3
      <4> HIDE DEF g
      <4> QED  BY <3>3, <4>4 DEF k
    <3> QED  BY <3>2, <3>3
  <2>2. g = [n \in 0..blocks |-> g[n]]
    OBVIOUS
  <2> HIDE DEF g
  <2> QED  BY <2>1, <2>2, Zenon
<1>10. IsParsing(parsing)
  <2> HIDE DEF IsParsing, g
  <2> QED  BY <1>9
<1> HIDE DEF parsing, g
<1>11. \A n \in 0..blocks :
          parsing[n] = IF n = 0 THEN Json!Start ELSE Json!TakeBlock(parsing[n - 1], w, n - 1)
  BY <1>10, Zenon
<1> HIDE DEF IsParsing
<1> DEFINE S == {n \in 0..blocks : parsing[n] = at(n)}
<1>12. 0 \in S
  BY <1>5, <1>8, <1>11
<1>13. ASSUME NEW k \in 0..blocks, k \in S, k < blocks
       PROVE  k + 1 \in S
  <2> DEFINE n == k + 1
  <2>1. n \in 0..blocks /\ n # 0 /\ n - 1 = k /\ k \in Nat
    BY <1>5, <1>13
  <2>2. Json!TakeBlock(at(k), w, k) = at(n)
    BY <1>7, <2>1
  <2> HIDE DEF n
  <2>3. parsing[n] = Json!TakeBlock(parsing[k], w, k)
    BY <1>11, <2>1
  <2>4. parsing[k] = at(k)
    BY <1>13
  <2> QED  BY <2>1, <2>2, <2>3, <2>4 DEF n
<1>14. blocks \in S
  <2> HIDE DEF S
  <2> QED  BY <1>5, <1>12, <1>13, HoldsUpTo
<1>15. end = b
  <2>1. Least(blocks * 40, len) = len
    BY <1>2, <1>5 DEF Least
  <2>2. end = run[len]
    BY <1>14, <2>1 DEF at
  <2> QED  BY <1>1, <2>2 DEF IsReading, len
<1> QED  BY <1>3, <1>4, <1>15

-----------------------------------------------------------------------------
\* The whole document.

\* The order in which texts are put together does not matter.
Regroups(a, b, c) == (a \o b) \o c = a \o (b \o c)

LEMMA AllRegroup ==
    ASSUME NEW a, IsSequence(a), NEW b, IsSequence(b), NEW c, IsSequence(c)
    PROVE  Regroups(a, b, c)
BY Associative DEF Regroups

\* The same text, put together piece by piece and around a member of an object, or around
\* an object in an array
GroupsMember(p, n, o, w, e, z) ==
    ((p \o (n \o o)) \o w) \o (e \o z) = (p \o (n \o ((o \o w) \o e))) \o z
GroupsObject(q, n, o, b, s, c, v, f, z) ==
    ((((q \o (n \o (o \o b))) \o s) \o c) \o v) \o (f \o z) =
    ((q \o (n \o o)) \o ((b \o ((s \o c) \o v)) \o f)) \o z

LEMMA AroundMember ==
    ASSUME NEW p, IsSequence(p), NEW n, IsSequence(n), NEW o, IsSequence(o),
           NEW w, IsSequence(w), NEW e, IsSequence(e), NEW z, IsSequence(z)
    PROVE  GroupsMember(p, n, o, w, e, z)
<1> DEFINE no == n \o o
           ow == o \o w
           owe == ow \o e
           now == n \o ow
           v == n \o owe
<1>1. IsSequence(no) /\ IsSequence(ow)
  BY BothAreSequences
<1>2. no \o w = now
  <2>1. Regroups(n, o, w)
    BY AllRegroup
  <2> QED  BY <2>1 DEF Regroups
<1>3. IsSequence(owe) /\ IsSequence(now)
  BY <1>1, BothAreSequences
<1>4. (p \o no) \o w = p \o now
  <2>1. (p \o no) \o w = p \o (no \o w)
    <3>1. Regroups(p, no, w)
      <4> HIDE DEF no
      <4> QED  BY <1>1, AllRegroup
    <3> QED  BY <3>1 DEF Regroups
  <2> QED  BY <1>2, <2>1
<1>5. now \o e = v
  <2>1. Regroups(n, ow, e)
    <3> HIDE DEF ow
    <3> QED  BY <1>1, AllRegroup
  <2> QED  BY <2>1 DEF Regroups
<1>6. IsSequence(v)
  BY <1>3, BothAreSequences
<1>7. (p \o now) \o (e \o z) = ((p \o now) \o e) \o z
  <2> DEFINE x == p \o now
  <2>1. IsSequence(x)
    BY <1>3, BothAreSequences
  <2> HIDE DEF x
  <2>2. x \o (e \o z) = (x \o e) \o z
    <3>1. Regroups(x, e, z)
      BY <2>1, AllRegroup
    <3> QED  BY <3>1 DEF Regroups
  <2> QED  BY <2>2 DEF x
<1>8. (p \o now) \o e = p \o v
  <2>1. (p \o now) \o e = p \o (now \o e)
    <3>1. Regroups(p, now, e)
      <4> HIDE DEF now
      <4> QED  BY <1>3, AllRegroup
    <3> QED  BY <3>1 DEF Regroups
  <2> QED  BY <1>5, <2>1
<1> QED  BY <1>4, <1>7, <1>8 DEF GroupsMember

LEMMA AroundObject ==
    ASSUME NEW q, IsSequence(q), NEW n, IsSequence(n), NEW o, IsSequence(o),
           NEW b, IsSequence(b), NEW s, IsSequence(s), NEW c, IsSequence(c),
           NEW v, IsSequence(v), NEW f, IsSequence(f), NEW z, IsSequence(z)
    PROVE  GroupsObject(q, n, o, b, s, c, v, f, z)
<1> DEFINE no == n \o o
           y == q \o no
           yb == y \o b
           sc == s \o c
           scv == sc \o v
           g == b \o scv
           yg == y \o g
           gf == g \o f
<1>1. IsSequence(no) /\ IsSequence(sc)
  BY BothAreSequences
<1>2. n \o (o \o b) = no \o b
  <2>1. Regroups(n, o, b)
    BY AllRegroup
  <2> QED  BY <2>1 DEF Regroups
<1>3. q \o (no \o b) = yb
  <2>1. Regroups(q, no, b)
    <3> HIDE DEF no
    <3> QED  BY <1>1, AllRegroup
  <2> QED  BY <2>1 DEF Regroups
<1>4. IsSequence(y)
  BY <1>1, BothAreSequences
<1>5. IsSequence(yb)
  BY <1>4, BothAreSequences
<1>6. (yb \o s) \o c = yb \o sc
  <2>1. Regroups(yb, s, c)
    <3> HIDE DEF yb
    <3> QED  BY <1>5, AllRegroup
  <2> QED  BY <2>1 DEF Regroups
<1>7. IsSequence(scv)
  BY <1>1, BothAreSequences
<1>8. (yb \o sc) \o v = yb \o scv
  <2>1. Regroups(yb, sc, v)
    <3> HIDE DEF yb, sc
    <3> QED  BY <1>1, <1>5, AllRegroup
  <2> QED  BY <2>1 DEF Regroups
<1>9. yb \o scv = yg
  <2>1. Regroups(y, b, scv)
    <3> HIDE DEF scv
    <3> QED  BY <1>4, <1>7, AllRegroup
  <2> QED  BY <2>1 DEF Regroups
<1>10. IsSequence(g)
  BY <1>7, BothAreSequences
<1>11. IsSequence(yg)
  BY <1>4, <1>10, BothAreSequences
<1>12. yg \o f = y \o gf
  <2>1. Regroups(y, g, f)
    BY <1>4, <1>10, AllRegroup
  <2> QED  BY <2>1 DEF Regroups
<1>13. yg \o (f \o z) = (yg \o f) \o z
  <2>1. Regroups(yg, f, z)
    <3> HIDE DEF yg
    <3> QED  BY <1>11, AllRegroup
  <2> QED  BY <2>1 DEF Regroups
<1>14. ((q \o (n \o (o \o b))) \o s) \o c = yb \o sc
  BY <1>2, <1>3, <1>6
<1>15. ((((q \o (n \o (o \o b))) \o s) \o c) \o v) = yg
  BY <1>8, <1>9, <1>14
<1>16. ((((q \o (n \o (o \o b))) \o s) \o c) \o v) \o (f \o z) = (y \o gf) \o z
  BY <1>12, <1>13, <1>15
<1> QED  BY <1>16 DEF GroupsObject

\* The beginning of the document
ServiceName == Otlp!Attribute("service", ".name", "stringValue", <<"postgresql">>)
ResourceRead == <<"object", <<Read("attributes", <<"array", <<AttributeRead(ServiceName)>>>>)>>>>

LEMMA ResourceIsRead == Reads(Otlp!Resource, ResourceRead)
<1> DEFINE a == ServiceName
           w == <<"[">> \o Otlp!Written(a) \o <<"]">>
           v == <<"array", <<AttributeRead(a)>>>>
<1>1. IsAttribute(a)
  <2>1. /\ a.key = <<"service", ".name">> /\ a.kind = "stringValue"
        /\ a.content = <<"postgresql">>
    BY DEF ServiceName, Otlp!Attribute
  <2>2. IsSequence(<<"service", ".name">>) /\ IsSequence(<<"postgresql">>)
    BY Longer1, SinglesAreSequences
  <2> HIDE DEF a
  <2> QED  BY <2>1, <2>2 DEF IsAttribute
<1>2. Otlp!Resource = Otlp!Object(Otlp!Member("attributes", w))
  BY Zenon DEF Otlp!Resource, ServiceName
<1>3. Reads(w, v)
  <2> HIDE DEF a
  <2>1. AreRead("array", Otlp!Written(a), <<AttributeRead(a)>>)
    BY <1>1, AttributeIsRead, ItemIsRead
  <2> QED  BY <2>1, AllAreRead
<1>4. ResourceRead = <<"object", <<Read("attributes", v)>>>>
  BY Zenon DEF ResourceRead
<1> HIDE DEF w, v
<1>5. AreRead("object", Otlp!Member("attributes", w), <<Read("attributes", v)>>)
  BY <1>3, MemberIsRead, PlainNames
<1> QED  BY <1>2, <1>4, <1>5, ObjectIsRead

Scope == Otlp!Object(Otlp!Member("name", Otlp!String(<<"pg_eatrace">>)) \o <<",">>
                     \o Otlp!Member("version", Otlp!String(<<"0.0">>)))
ScopeRead == <<"object", <<Read("name", StringRead(<<"pg_eatrace">>))>>
                         \o <<Read("version", StringRead(<<"0.0">>))>>>>

LEMMA ScopeIsRead == Reads(Scope, ScopeRead)
<1> DEFINE w1 == Otlp!Member("name", Otlp!String(<<"pg_eatrace">>))
           w2 == Otlp!Member("version", Otlp!String(<<"0.0">>))
           x1 == Read("name", StringRead(<<"pg_eatrace">>))
           x2 == Read("version", StringRead(<<"0.0">>))
<1>1. \A c : Reads(Otlp!String(<<c>>), StringRead(<<c>>))
  <2>1. SUFFICES ASSUME NEW c PROVE Reads(Otlp!String(<<c>>), StringRead(<<c>>))
    OBVIOUS
  <2> DEFINE t == <<c>>
  <2>2. IsSequence(t)
    BY SinglesAreSequences
  <2> HIDE DEF t
  <2>3. Reads(Otlp!String(t), StringRead(t))
    BY <2>2, TextIsRead
  <2> QED  BY <2>3 DEF t
<1>2. AreRead("object", w1, <<x1>>) /\ AreRead("object", w2, <<x2>>)
  BY <1>1, MemberIsRead, PlainNames
<1>3. Scope = Otlp!Object(w1 \o <<",">> \o w2)
  BY Zenon DEF Scope
<1>4. ScopeRead = <<"object", <<x1>> \o <<x2>>>>
  BY Zenon DEF ScopeRead
<1> HIDE DEF w1, w2, x1, x2
<1>5. AreRead("object", w1 \o <<",">> \o w2, <<x1>> \o <<x2>>)
  BY <1>2, BothAreRead
<1> QED  BY <1>3, <1>4, <1>5, ObjectIsRead

LEMMA ReadTextIsSequence ==
    ASSUME NEW w, NEW v, Reads(w, v)
    PROVE  IsSequence(w)
<1>1. Goes(Json!State("value", {}), w, Json!Deliver(v, {}))
  BY DEF Reads
<1> QED  BY <1>1 DEF Goes

\* What a member begins with
NameWritten(name) == <<Otlp!Q, name, Otlp!Q, ":">>

LEMMA MembersAreSequences ==
    ASSUME NEW name, NEW w, IsSequence(w)
    PROVE  /\ IsSequence(NameWritten(name)) /\ Otlp!Member(name, w) = NameWritten(name) \o w
           /\ IsSequence(Otlp!Member(name, w))
<1>1. IsSequence(NameWritten(name))
  BY Longer3 DEF NameWritten
<1>2. Otlp!Member(name, w) = NameWritten(name) \o w
  BY Zenon DEF Otlp!Member, NameWritten
<1> QED  BY <1>1, <1>2, BothAreSequences

LEMMA BeginningIsSequence == IsSequence(Otlp!OtlpBatchBegin.builder)
<1> DEFINE b1 == <<"{">>
           m1 == Otlp!Member("resourceSpans", <<"[", "{">>)
           m2 == Otlp!Member("resource", Otlp!Resource)
           c == <<",">>
           m3 == Otlp!Member("scopeSpans", <<"[", "{">>)
           m4 == Otlp!Member("scope", Scope)
           m5 == Otlp!Member("spans", <<"[">>)
<1>1. IsSequence(b1) /\ IsSequence(c) /\ IsSequence(<<"[">>) /\ IsSequence(<<"[", "{">>)
  BY SinglesAreSequences, Longer1
<1>2. IsSequence(Otlp!Resource) /\ IsSequence(Scope)
  BY ResourceIsRead, ScopeIsRead, ReadTextIsSequence
<1>3. /\ IsSequence(m1) /\ IsSequence(m2) /\ IsSequence(m3) /\ IsSequence(m4) /\ IsSequence(m5)
  BY <1>1, <1>2, MembersAreSequences
<1>4. Otlp!OtlpBatchBegin.builder = b1 \o m1 \o m2 \o c \o m3 \o m4 \o c \o m5
  BY DEF Otlp!OtlpBatchBegin, Scope
<1> HIDE DEF b1, c, m1, m2, m3, m4, m5
<1> DEFINE d1 == b1 \o m1
           d2 == d1 \o m2
           d3 == d2 \o c
           d4 == d3 \o m3
           d5 == d4 \o m4
           d6 == d5 \o c
<1>5. IsSequence(d1)
  BY <1>1, <1>3, BothAreSequences
<1>6. IsSequence(d2)
  <2> HIDE DEF d1
  <2> QED  BY <1>3, <1>5, BothAreSequences
<1>7. IsSequence(d3)
  <2> HIDE DEF d2
  <2> QED  BY <1>1, <1>6, BothAreSequences
<1>8. IsSequence(d4)
  <2> HIDE DEF d3
  <2> QED  BY <1>3, <1>7, BothAreSequences
<1>9. IsSequence(d5)
  <2> HIDE DEF d4
  <2> QED  BY <1>3, <1>8, BothAreSequences
<1>10. IsSequence(d6)
  <2> HIDE DEF d5
  <2> QED  BY <1>1, <1>9, BothAreSequences
<1>11. IsSequence(d6 \o m5)
  <2> HIDE DEF d6
  <2> QED  BY <1>3, <1>10, BothAreSequences
<1> QED  BY <1>4, <1>11

\* What the spans are read as
SpansReadAs(spans) == [i \in DOMAIN spans |-> SpanRead(spans[i])]

\* The batch is its beginning and a text that is read as the spans.
LEMMA SpansAreJoined ==
    ASSUME NEW spans, IsSequence(spans), Len(spans) # 0,
           \A i \in 1..Len(spans) : IsSpan(spans[i])
    PROVE  \E w : /\ AreRead("array", w, SpansReadAs(spans))
                  /\ Otlp!FoldLeft(Otlp!OtlpBatchAddSpan, Otlp!OtlpBatchBegin, spans).builder =
                        Otlp!OtlpBatchBegin.builder \o w
<1> DEFINE n == Len(spans)
           B == Otlp!OtlpBatchBegin.builder
           reads == [i \in 1..n |-> SpanRead(spans[i])]
<1>1. n \in Nat /\ DOMAIN spans = 1..n
  BY SequenceOfItems
<1>2. \A i \in 1..n : Reads(Otlp!SerializeSpan(spans[i]), reads[i])
  BY SpanIsRead
<1>3. \A i \in 1..n : IsSequence(Otlp!SerializeSpan(spans[i]))
  BY <1>2, ReadTextIsSequence
<1>4. IsSequence(B)
  BY BeginningIsSequence
<1>5. PICK run : IsBatching(run, spans)
  BY <1>3, <1>4, SpansAreAdded
<1>6. /\ run[0] = Otlp!OtlpBatchBegin
      /\ \A k \in 1..n : run[k] = Otlp!OtlpBatchAddSpan(run[k - 1], spans[k])
      /\ run[n] = Otlp!FoldLeft(Otlp!OtlpBatchAddSpan, Otlp!OtlpBatchBegin, spans)
  BY <1>5 DEF IsBatching
<1> DEFINE Holds(k) ==
              /\ run[k].spanCount = k
              /\ IF k = 0 THEN run[k].builder = B
                 ELSE \E w : AreRead("array", w, FirstRead(reads, k)) /\ run[k].builder = B \o w
           S == {k \in 0..n : Holds(k)}
<1>7. 0 \in S
  <2>1. run[0].spanCount = 0 /\ run[0].builder = B
    <3> DEFINE begin == Otlp!OtlpBatchBegin
    <3>1. begin.spanCount = 0
      <4> DEFINE b == begin.builder
      <4>1. begin = [spanCount |-> 0, builder |-> b]
        BY DEF Otlp!OtlpBatchBegin
      <4> HIDE DEF b, begin
      <4> QED  BY <4>1
    <3> HIDE DEF begin
    <3> QED  BY <1>6, <3>1 DEF begin
  <2> QED  BY <1>1, <2>1
<1>8. ASSUME NEW k \in 0..n, k \in S, k < n
      PROVE  k + 1 \in S
  <2> DEFINE j == k + 1
             w == Otlp!SerializeSpan(spans[j])
             x == reads[j]
             comma == <<",">>
             b == run[k].builder
  <2>1. j \in 1..n /\ j - 1 = k /\ j \in 0..n /\ j # 0 /\ k \in Nat
    BY <1>1, <1>8
  <2>2. Reads(w, x) /\ IsSequence(w)
    <3> HIDE DEF j, n
    <3> QED  BY <1>2, <1>3, <2>1
  <2>3. AreRead("array", w, <<x>>)
    <3> HIDE DEF w, x
    <3> QED  BY <2>2, ItemIsRead
  <2>4. run[j] = Otlp!OtlpBatchAddSpan(run[k], spans[j])
    <3> HIDE DEF j, n
    <3>1. run[j] = Otlp!OtlpBatchAddSpan(run[j - 1], spans[j])
      BY <1>6, <2>1
    <3> QED  BY <2>1, <3>1
  <2>5. /\ run[j].builder = (b \o Otlp!If(run[k].spanCount > 0, comma)) \o w
        /\ run[j].spanCount = run[k].spanCount + 1
    <3> DEFINE d == (b \o Otlp!If(run[k].spanCount > 0, comma)) \o w
               m == run[k].spanCount + 1
    <3>1. run[j] = [spanCount |-> m, builder |-> d]
      BY <2>4, Zenon DEF Otlp!OtlpBatchAddSpan
    <3> HIDE DEF j, d, m
    <3>2. run[j].builder = d /\ run[j].spanCount = m
      BY <3>1
    <3> QED  BY <3>2 DEF d, m
  <2>6. Holds(k)
    BY <1>8
  <2>7. run[j].spanCount = j
    BY <2>5, <2>6
  <2>8. \E u : AreRead("array", u, FirstRead(reads, j)) /\ run[j].builder = B \o u
    <3>1. CASE k = 0
      <4>1. b = B /\ run[k].spanCount = 0 /\ j = 1
        BY <2>6, <3>1
      <4> HIDE DEF w, j, comma, B, b, reads
      <4>2. Otlp!If(run[k].spanCount > 0, comma) = <<>>
        BY <4>1 DEF Otlp!If
      <4>3. B \o <<>> = B
        BY <1>4, EmptyAndSingle
      <4>4. run[j].builder = B \o w
        BY <2>5, <4>1, <4>2, <4>3
      <4>5. FirstRead(reads, j) = <<x>>
        BY <4>1, FirstsFollow DEF j
      <4> QED  BY <2>3, <4>4, <4>5
    <3>2. CASE k # 0
      <4>1. PICK u : AreRead("array", u, FirstRead(reads, k)) /\ b = B \o u
        BY <2>6, <3>2
      <4>2. FirstRead(reads, j) = FirstRead(reads, k) \o <<x>>
        <5> HIDE DEF reads
        <5> QED  BY <2>1, <3>2, FirstsFollow
      <4>3. Otlp!If(run[k].spanCount > 0, comma) = comma
        <5>1. run[k].spanCount > 0
          BY <2>1, <2>6, <3>2
        <5> HIDE DEF comma
        <5> QED  BY <5>1 DEF Otlp!If
      <4> DEFINE r == FirstRead(reads, k)
                 v == (u \o comma) \o w
      <4>4. AreRead("array", v, r \o <<x>>)
        <5> HIDE DEF r, w, x
        <5> QED  BY <2>3, <4>1, BothAreRead DEF r
      <4>5. IsSequence(u) /\ IsSequence(comma)
        <5> HIDE DEF r
        <5> QED  BY <4>1, ReadIsSequence, SinglesAreSequences DEF r
      <4> HIDE DEF w, j, x, B, b, r, comma
      <4>6. ((B \o u) \o comma) \o w = B \o v
        <5> DEFINE uc == u \o comma
        <5>1. Regroups(B, u, comma)
          BY <1>4, <4>5, AllRegroup
        <5>2. IsSequence(uc)
          BY <4>5, BothAreSequences
        <5>3. Regroups(B, uc, w)
          <6> HIDE DEF uc
          <6> QED  BY <1>4, <2>2, <5>2, AllRegroup
        <5> QED  BY <5>1, <5>3 DEF Regroups
      <4>7. run[j].builder = B \o v
        <5> HIDE DEF v
        <5> QED  BY <2>5, <4>1, <4>3, <4>6
      <4>8. AreRead("array", v, FirstRead(reads, j))
        <5> HIDE DEF v
        <5> QED  BY <4>2, <4>4 DEF r
      <4> HIDE DEF v
      <4> QED  BY <4>7, <4>8
    <3> QED  BY <3>1, <3>2
  <2>9. Holds(j)
    <3> HIDE DEF j, B, reads
    <3> QED  BY <2>1, <2>7, <2>8
  <2> HIDE DEF Holds, j
  <2>10. j \in S
    BY <2>1, <2>9
  <2> QED  BY <2>10 DEF j
<1>9. n \in S
  <2> HIDE DEF S, n
  <2> QED  BY <1>1, <1>7, <1>8, HoldsUpTo
<1>10. PICK w : AreRead("array", w, FirstRead(reads, n)) /\ run[n].builder = B \o w
  BY <1>9
<1>11. FirstRead(reads, n) = SpansReadAs(spans)
  BY <1>1 DEF FirstRead, SpansReadAs
<1> HIDE DEF reads, n, B
<1> QED  BY <1>6, <1>10, <1>11 DEF B

\* What is read of a document, from what is read of the spans in it
DocumentRead(reads) ==
    LET scopeSpan == <<"object", <<Read("scope", ScopeRead)>> \o <<Read("spans", reads)>>>>
        resourceSpan == <<"object", <<Read("resource", ResourceRead)>>
                                    \o <<Read("scopeSpans", <<"array", <<scopeSpan>>>>)>>>>
    IN  <<"object", <<Read("resourceSpans", <<"array", <<resourceSpan>>>>)>>>>

LEMMA ArrayOfOne ==
    ASSUME NEW w, NEW v, Reads(w, v)
    PROVE  Reads(<<"[">> \o w \o <<"]">>, <<"array", <<v>>>>)
BY ItemIsRead, AllAreRead

LEMMA ObjectOfTwo ==
    ASSUME NEW name, IsPlainName(name), NEW w, NEW v, Reads(w, v),
           NEW other, IsPlainName(other), NEW z, NEW y, Reads(z, y)
    PROVE  Reads(Otlp!Object(Otlp!Member(name, w) \o <<",">> \o Otlp!Member(other, z)),
                 <<"object", <<Read(name, v)>> \o <<Read(other, y)>>>>)
<1> DEFINE m1 == Otlp!Member(name, w)
           m2 == Otlp!Member(other, z)
           x1 == Read(name, v)
           x2 == Read(other, y)
<1>1. AreRead("object", m1, <<x1>>) /\ AreRead("object", m2, <<x2>>)
  BY MemberIsRead
<1> HIDE DEF m1, m2, x1, x2
<1>2. AreRead("object", m1 \o <<",">> \o m2, <<x1>> \o <<x2>>)
  BY <1>1, BothAreRead
<1>3. Reads(Otlp!Object(m1 \o <<",">> \o m2), <<"object", <<x1>> \o <<x2>>>>)
  BY <1>2, ObjectIsRead
<1> QED  BY <1>3 DEF m1, m2, x1, x2

\* The document that has this between its innermost brackets
ScopeSpan(w) ==
    Otlp!Object(Otlp!Member("scope", Scope) \o <<",">>
                \o Otlp!Member("spans", <<"[">> \o w \o <<"]">>))
ResourceSpan(w) ==
    Otlp!Object(Otlp!Member("resource", Otlp!Resource) \o <<",">>
                \o Otlp!Member("scopeSpans", <<"[">> \o ScopeSpan(w) \o <<"]">>))
Around(w) ==
    Otlp!Object(Otlp!Member("resourceSpans", <<"[">> \o ResourceSpan(w) \o <<"]">>))

LEMMA AroundIsRead ==
    ASSUME NEW w, NEW reads, AreRead("array", w, reads)
    PROVE  Reads(Around(w), DocumentRead(<<"array", reads>>))
<1> DEFINE spans == <<"array", reads>>
           scopeSpan == <<"object", <<Read("scope", ScopeRead)>> \o <<Read("spans", spans)>>>>
           scopeSpans == <<"array", <<scopeSpan>>>>
           resourceSpan == <<"object", <<Read("resource", ResourceRead)>>
                                       \o <<Read("scopeSpans", scopeSpans)>>>>
           resourceSpans == <<"array", <<resourceSpan>>>>
           document == <<"object", <<Read("resourceSpans", resourceSpans)>>>>
           w1 == <<"[">> \o w \o <<"]">>
           w2 == <<"[">> \o ScopeSpan(w) \o <<"]">>
           w3 == <<"[">> \o ResourceSpan(w) \o <<"]">>
<1>1. Reads(w1, spans)
  BY AllAreRead
<1>2. ScopeSpan(w) = Otlp!Object(Otlp!Member("scope", Scope) \o <<",">> \o Otlp!Member("spans", w1))
  BY Zenon DEF ScopeSpan
<1>3. ResourceSpan(w) = Otlp!Object(Otlp!Member("resource", Otlp!Resource) \o <<",">>
                                    \o Otlp!Member("scopeSpans", w2))
  BY Zenon DEF ResourceSpan
<1>4. Around(w) = Otlp!Object(Otlp!Member("resourceSpans", w3))
  BY Zenon DEF Around
<1>5. document = DocumentRead(spans)
  BY Zenon DEF DocumentRead
<1> HIDE DEF w1, spans
<1>6. Reads(ScopeSpan(w), scopeSpan)
  BY <1>1, <1>2, ScopeIsRead, ObjectOfTwo, PlainNames
<1> HIDE DEF scopeSpan
<1>7. Reads(w2, scopeSpans)
  BY <1>6, ArrayOfOne
<1> HIDE DEF w2, scopeSpans
<1>8. Reads(ResourceSpan(w), resourceSpan)
  BY <1>3, <1>7, ResourceIsRead, ObjectOfTwo, PlainNames
<1> HIDE DEF resourceSpan
<1>9. Reads(w3, resourceSpans)
  BY <1>8, ArrayOfOne
<1> HIDE DEF w3, resourceSpans
<1>10. AreRead("object", Otlp!Member("resourceSpans", w3), <<Read("resourceSpans", resourceSpans)>>)
  BY <1>9, MemberIsRead, PlainNames
<1>11. Reads(Around(w), document)
  BY <1>4, <1>10, ObjectIsRead
<1> HIDE DEF document
<1> QED  BY <1>5, <1>11 DEF spans

LEMMA ThreeAreSequences ==
    ASSUME NEW a, IsSequence(a), NEW b, IsSequence(b), NEW c, IsSequence(c)
    PROVE  IsSequence((a \o b) \o c) /\ IsSequence(a \o (b \o c))
<1> DEFINE ab == a \o b
           bc == b \o c
<1>1. IsSequence(ab) /\ IsSequence(bc)
  BY BothAreSequences
<1> HIDE DEF ab, bc
<1>2. IsSequence(ab \o c) /\ IsSequence(a \o bc)
  BY <1>1, BothAreSequences
<1> QED  BY <1>2 DEF ab, bc

LEMMA TwoThreeTimes ==
    ASSUME NEW x, NEW y
    PROVE  <<x, y, x, y, x, y>> =
              ((((<<x>> \o <<y>>) \o <<x>>) \o <<y>>) \o <<x>>) \o <<y>>
<1>1. <<x>> \o <<y>> = <<x, y>>
  BY Longer1, Zenon
<1>2. <<x, y>> \o <<x>> = <<x, y, x>>
  BY Longer2, Zenon
<1>3. <<x, y, x>> \o <<y>> = <<x, y, x, y>>
  BY Longer3, Zenon
<1>4. <<x, y, x, y>> \o <<x>> = <<x, y, x, y, x>>
  BY Longer4, Zenon
<1>5. <<x, y, x, y, x>> \o <<y>> = <<x, y, x, y, x, y>>
  BY Longer5, Zenon
<1> QED  BY <1>1, <1>2, <1>3, <1>4, <1>5

\* Finishing the batch puts the brackets around it.
LEMMA FinishedIsAround ==
    ASSUME NEW w, IsSequence(w)
    PROVE  (Otlp!OtlpBatchBegin.builder \o w) \o <<"]", "}", "]", "}", "]", "}">> = Around(w)
<1> DEFINE o == <<"[">>
           b == <<"{">>
           c == <<",">>
           e == <<"]">>
           f == <<"}">>
           n1 == NameWritten("resourceSpans")
           n2 == NameWritten("scopeSpans")
           n3 == NameWritten("spans")
           r == Otlp!Member("resource", Otlp!Resource)
           s == Otlp!Member("scope", Scope)
           z2 == e \o f
           z3 == f \o z2
           z4 == e \o z3
           z5 == f \o z4
           z6 == e \o z5
<1>1. /\ IsSequence(o) /\ IsSequence(b) /\ IsSequence(c) /\ IsSequence(e) /\ IsSequence(f)
      /\ IsSequence(n1) /\ IsSequence(n2) /\ IsSequence(n3)
  BY SinglesAreSequences, Longer3 DEF NameWritten
<1>2. IsSequence(r) /\ IsSequence(s)
  <2>1. IsSequence(Otlp!Resource) /\ IsSequence(Scope)
    BY ResourceIsRead, ScopeIsRead, ReadTextIsSequence
  <2> QED  BY <2>1, MembersAreSequences
<1>3. z6 = <<"]", "}", "]", "}", "]", "}">>
  <2> DEFINE a4 == (z2 \o e) \o f
  <2>1. <<"]", "}", "]", "}", "]", "}">> = (a4 \o e) \o f
    BY TwoThreeTimes
  <2> HIDE DEF e, f
  <2>2. IsSequence(z2)
    BY <1>1, BothAreSequences
  <2>3. Regroups(z2, e, f) /\ a4 = z2 \o z2
    <3>1. Regroups(z2, e, f)
      <4> HIDE DEF z2
      <4> QED  BY <1>1, <2>2, AllRegroup
    <3> QED  BY <3>1 DEF Regroups
  <2>4. z4 = z2 \o z2
    <3>1. Regroups(e, f, z2)
      <4> HIDE DEF z2
      <4> QED  BY <1>1, <2>2, AllRegroup
    <3> QED  BY <3>1 DEF Regroups
  <2>5. IsSequence(a4) /\ IsSequence(z4)
    <3> HIDE DEF z2, z3, z4, a4
    <3> QED  BY <2>2, <2>3, <2>4, BothAreSequences
  <2>6. (a4 \o e) \o f = a4 \o z2
    <3>1. Regroups(a4, e, f)
      <4> HIDE DEF a4
      <4> QED  BY <1>1, <2>5, AllRegroup
    <3> QED  BY <3>1 DEF Regroups
  <2>7. z6 = z2 \o z4
    <3>1. Regroups(e, f, z4)
      <4> HIDE DEF z4
      <4> QED  BY <1>1, <2>5, AllRegroup
    <3> QED  BY <3>1 DEF Regroups
  <2> HIDE DEF z2, z3, z4, z5, z6, a4
  <2>8. (z2 \o z2) \o z2 = z2 \o (z2 \o z2)
    <3>1. Regroups(z2, z2, z2)
      BY <2>2, AllRegroup
    <3> QED  BY <3>1 DEF Regroups
  <2> QED  BY <2>1, <2>3, <2>4, <2>6, <2>7, <2>8
<1>4. /\ IsSequence(z2) /\ IsSequence(z3) /\ IsSequence(z4) /\ IsSequence(z5)
  <2>1. IsSequence(z2)
    BY <1>1, BothAreSequences
  <2> HIDE DEF e, f
  <2>2. IsSequence(z3)
    <3> HIDE DEF z2
    <3> QED  BY <1>1, <2>1, BothAreSequences
  <2>3. IsSequence(z4)
    <3> HIDE DEF z3
    <3> QED  BY <1>1, <2>2, BothAreSequences
  <2>4. IsSequence(z5)
    <3> HIDE DEF z4
    <3> QED  BY <1>1, <2>3, BothAreSequences
  <2> QED  BY <2>1, <2>2, <2>3, <2>4
<1> DEFINE p1 == b \o (n1 \o (o \o b)) \o r \o c
           p2 == p1 \o (n2 \o (o \o b)) \o s \o c
           p3 == p2 \o (n3 \o o)
           v3 == n3 \o ((o \o w) \o e)
           o2 == (b \o ((s \o c) \o v3)) \o f
           v2 == n2 \o ((o \o o2) \o e)
           o1 == (b \o ((r \o c) \o v2)) \o f
           v1 == n1 \o ((o \o o1) \o e)
<1>5. Otlp!OtlpBatchBegin.builder = p3
  <2> DEFINE ob == <<"[", "{">>
  <2>1. ob = o \o b /\ IsSequence(ob)
    BY Longer1
  <2>2. Otlp!OtlpBatchBegin.builder =
           b \o Otlp!Member("resourceSpans", ob) \o r \o c \o Otlp!Member("scopeSpans", ob)
             \o s \o c \o Otlp!Member("spans", o)
    BY DEF Otlp!OtlpBatchBegin, Scope
  <2> HIDE DEF ob, o
  <2>3. /\ Otlp!Member("resourceSpans", ob) = n1 \o ob
        /\ Otlp!Member("scopeSpans", ob) = n2 \o ob
        /\ Otlp!Member("spans", o) = n3 \o o
    BY <1>1, <2>1, MembersAreSequences
  <2> HIDE DEF b, c, r, s, n1, n2, n3
  <2> QED  BY <2>1, <2>2, <2>3
<1>6. Around(w) = (b \o v1) \o f
  BY Zenon DEF Around, ResourceSpan, ScopeSpan, Otlp!Object, Otlp!Member, NameWritten
<1> HIDE DEF b, c, e, f, o, n1, n2, n3, r, s
<1>7. IsSequence(p1)
  <2> DEFINE x == n1 \o (o \o b)
             y == b \o x
  <2>1. IsSequence(x)
    BY <1>1, ThreeAreSequences
  <2> HIDE DEF x
  <2>2. IsSequence(y)
    BY <1>1, <2>1, BothAreSequences
  <2> HIDE DEF y
  <2>3. IsSequence((y \o r) \o c)
    BY <1>1, <1>2, <2>2, ThreeAreSequences
  <2> QED  BY <2>3 DEF y, x
<1>8. IsSequence(p2)
  <2> HIDE DEF p1
  <2> DEFINE x == n2 \o (o \o b)
             y == p1 \o x
  <2>1. IsSequence(x)
    BY <1>1, ThreeAreSequences
  <2> HIDE DEF x
  <2>2. IsSequence(y)
    BY <1>7, <2>1, BothAreSequences
  <2> HIDE DEF y
  <2>3. IsSequence((y \o s) \o c)
    BY <1>1, <1>2, <2>2, ThreeAreSequences
  <2> QED  BY <2>3 DEF y, x
<1>9. ASSUME NEW n, IsSequence(n), NEW x, IsSequence(x)
      PROVE  IsSequence(n \o ((o \o x) \o e))
  <2> DEFINE y == (o \o x) \o e
  <2>1. IsSequence(y)
    BY <1>1, <1>9, ThreeAreSequences
  <2> HIDE DEF y
  <2>2. IsSequence(n \o y)
    BY <1>9, <2>1, BothAreSequences
  <2> QED  BY <2>2 DEF y
<1>10. ASSUME NEW m, IsSequence(m), NEW v, IsSequence(v)
       PROVE  IsSequence((b \o ((m \o c) \o v)) \o f)
  <2> DEFINE y == (m \o c) \o v
  <2>1. IsSequence(y)
    BY <1>1, <1>10, ThreeAreSequences
  <2> HIDE DEF y
  <2>2. IsSequence((b \o y) \o f)
    BY <1>1, <2>1, ThreeAreSequences
  <2> QED  BY <2>2 DEF y
<1>11. IsSequence(v3)
  BY <1>1, <1>9
<1>12. IsSequence(o2)
  <2> HIDE DEF v3
  <2> QED  BY <1>2, <1>10, <1>11
<1>13. IsSequence(v2)
  <2> HIDE DEF o2
  <2> QED  BY <1>1, <1>9, <1>12
<1>14. IsSequence(o1)
  <2> HIDE DEF v2
  <2> QED  BY <1>2, <1>10, <1>13
<1>15. (p3 \o w) \o z6 = (p2 \o v3) \o z5
  <2>1. GroupsMember(p2, n3, o, w, e, z5)
    <3> HIDE DEF p2, z5
    <3> QED  BY <1>1, <1>4, <1>8, AroundMember
  <2> QED  BY <2>1 DEF GroupsMember
<1>16. (p2 \o v3) \o z5 = ((p1 \o (n2 \o o)) \o o2) \o z4
  <2>1. GroupsObject(p1, n2, o, b, s, c, v3, f, z4)
    <3> HIDE DEF p1, v3, z4
    <3> QED  BY <1>1, <1>2, <1>4, <1>7, <1>11, AroundObject
  <2> QED  BY <2>1 DEF GroupsObject
<1>17. ((p1 \o (n2 \o o)) \o o2) \o z4 = (p1 \o v2) \o z3
  <2>1. GroupsMember(p1, n2, o, o2, e, z3)
    <3> HIDE DEF p1, o2, z3
    <3> QED  BY <1>1, <1>4, <1>7, <1>12, AroundMember
  <2> QED  BY <2>1 DEF GroupsMember
<1>18. (p1 \o v2) \o z3 = ((b \o (n1 \o o)) \o o1) \o z2
  <2>1. GroupsObject(b, n1, o, b, r, c, v2, f, z2)
    <3> HIDE DEF v2, z2
    <3> QED  BY <1>1, <1>2, <1>4, <1>13, AroundObject
  <2> QED  BY <2>1 DEF GroupsObject
<1>19. ((b \o (n1 \o o)) \o o1) \o z2 = (b \o v1) \o f
  <2>1. GroupsMember(b, n1, o, o1, e, f)
    <3> HIDE DEF o1
    <3> QED  BY <1>1, <1>14, AroundMember
  <2> QED  BY <2>1 DEF GroupsMember
<1> HIDE DEF p1, p2, p3, v1, v2, v3, o1, o2, z2, z3, z4, z5, z6
<1> QED  BY <1>3, <1>5, <1>6, <1>15, <1>16, <1>17, <1>18, <1>19

\* The document is read as DocumentRead says.
LEMMA DocumentIsRead ==
    ASSUME NEW spans, IsSequence(spans), Len(spans) # 0,
           \A i \in 1..Len(spans) : IsSpan(spans[i])
    PROVE  Json!Parsed(Otlp!Document(spans)) = DocumentRead(<<"array", SpansReadAs(spans)>>)
<1> DEFINE batch == Otlp!FoldLeft(Otlp!OtlpBatchAddSpan, Otlp!OtlpBatchBegin, spans)
           end == <<"]", "}", "]", "}", "]", "}">>
           v == DocumentRead(<<"array", SpansReadAs(spans)>>)
           document == Json!Open("document", <<>>, <<>>)
<1>1. PICK w : AreRead("array", w, SpansReadAs(spans))
               /\ batch.builder = Otlp!OtlpBatchBegin.builder \o w
  BY SpansAreJoined
<1>2. Otlp!Document(spans) = batch.builder \o end
  BY Zenon DEF Otlp!Document, Otlp!OtlpBatchFinish
<1>3. IsSequence(w)
  BY <1>1, ReadIsSequence
<1> HIDE DEF batch
<1>4. Otlp!Document(spans) = Around(w)
  <2>1. (Otlp!OtlpBatchBegin.builder \o w) \o end = Around(w)
    BY <1>3, FinishedIsAround
  <2> HIDE DEF end
  <2> QED  BY <1>1, <1>2, <2>1
<1>5. Reads(Around(w), v)
  BY <1>1, AroundIsRead
<1> HIDE DEF v
<1>6. Goes(Json!Start, Around(w), Json!Deliver(v, document))
  BY <1>5 DEF Reads, Json!Start
<1>7. Json!Deliver(v, document) = Json!State("comma", Json!Open("document", <<v>>, <<>>))
  <2>1. Json!Deliver(v, document) =
             Json!State("comma", Json!Open("document", Append(<<>>, v), <<>>))
    BY Delivers
  <2>2. Append(<<>>, v) = <<v>>
    OBVIOUS
  <2> QED  BY <2>1, <2>2
<1>8. Json!Parsed(Around(w)) = v
  BY <1>6, <1>7, DocumentIsParsed
<1> QED  BY <1>4, <1>8 DEF v

\* The way of the collector to the spans
LEMMA SpansAreFound ==
    ASSUME NEW document, NEW reads, Json!Parsed(document) = DocumentRead(reads)
    PROVE  Json!Parsed(document)[1] = "object" /\ SpansRead(document) = Read("spans", reads)
<1> DEFINE r == Read("resource", ResourceRead)
           s == Read("scope", ScopeRead)
           t == Read("spans", reads)
           scopeSpan == <<"object", <<s>> \o <<t>>>>
           u == Read("scopeSpans", <<"array", <<scopeSpan>>>>)
           resourceSpan == <<"object", <<r>> \o <<u>>>>
           x == Read("resourceSpans", <<"array", <<resourceSpan>>>>)
           y == <<"object", <<x>>>>
<1>1. Json!Parsed(document) = y
  BY Zenon DEF DocumentRead
<1>2. SpansRead(document) =
         Json!Parsed(document)[2][1][2][2][1][2][2][2][2][1][2][2]
  BY Zenon DEF SpansRead
<1>3. \A a, b : <<a>> \o <<b>> = <<a, b>>
  BY Longer1
<1>4. \A n, a : Read(n, a)[2] = a
  BY DEF Read
<1>5. scopeSpan[2][2] = t
  <2> HIDE DEF s, t
  <2> QED  BY <1>3
<1> HIDE DEF scopeSpan
<1>6. resourceSpan[2][2] = u
  <2> HIDE DEF r, u
  <2> QED  BY <1>3
<1>7. u[2][2][1] = scopeSpan
  BY <1>4
<1> HIDE DEF resourceSpan, u
<1>8. x[2][2][1] = resourceSpan
  BY <1>4
<1> HIDE DEF x
<1>9. y[1] = "object" /\ y[2][1] = x
  OBVIOUS
<1> HIDE DEF y
<1> QED  BY <1>1, <1>2, <1>5, <1>6, <1>7, <1>8, <1>9, Zenon DEF t

\* The collector reads back what was written: of every batch of spans that Serialize puts
\* into a document, each span with all its attributes in order, no key of them twice.
THEOREM DocumentsReadBack == Spec => []DocumentReadsBack
<1>1. Init => DocumentReadsBack
  BY DEF Init, NoCall, DocumentReadsBack
<1>2. ASSUME DocumentReadsBack, [Next]_vars
      PROVE  DocumentReadsBack'
  <2>1. CASE Serialize
    <3>1. PICK spans \in Strings(Spans, MaxBatch) \ {<<>>} :
             Call("document", spans, Otlp!Document(spans))
      BY <2>1 DEF Serialize
    <3>2. /\ call'.arguments = spans /\ result' = Otlp!Document(spans)
      BY <3>1 DEF Call
    <3>3. PICK n \in 0..MaxBatch : spans \in [1..n -> Spans]
      BY <3>1 DEF Strings
    <3>4. /\ n \in Nat /\ spans \in Seq(Spans) /\ Len(spans) = n /\ DOMAIN spans = 1..n
      <4>1. n \in Nat
        BY <3>3, ConversionsAssumption
      <4> QED  BY <3>3, <4>1
    <3>5. n # 0
      <4>1. SUFFICES ASSUME n = 0 PROVE FALSE
        OBVIOUS
      <4>2. spans = <<>>
        BY <3>4, <4>1
      <4> QED  BY <3>1, <4>2
    <3>6. IsSequence(spans)
      BY <3>4 DEF IsSequence
    <3>7. \A i \in 1..n : IsSpan(spans[i])
      BY <3>3, DocumentAssumption
    <3> DEFINE reads == <<"array", SpansReadAs(spans)>>
    <3>8. Json!Parsed(result') = DocumentRead(reads)
      BY <3>2, <3>4, <3>5, <3>6, <3>7, DocumentIsRead
    <3>9. /\ Json!Parsed(result')[1] = "object"
          /\ SpansRead(result') = Read("spans", reads)
      <4> HIDE DEF reads
      <4> QED  BY <3>8, SpansAreFound
    <3>10. reads = <<"array", [i \in DOMAIN spans |-> SpanRead(spans[i])]>>
      BY Zenon DEF SpansReadAs
    <3>11. ASSUME NEW i \in DOMAIN spans
           PROVE  LET attributes == Otlp!AttributesOf(spans[i]) IN
                  \A j, k \in DOMAIN attributes : attributes[j].key = attributes[k].key => j = k
      <4> DEFINE attributes == Otlp!AttributesOf(spans[i])
      <4>1. PICK K : Carries(attributes, K)
        BY <3>4, <3>7, AttributesCarried
      <4> HIDE DEF attributes
      <4>2. DOMAIN attributes = 1..Len(attributes)
        BY <4>1, SequenceOfItems DEF Carries
      <4>3. \A j, k \in 1..Len(attributes) : attributes[j].key = attributes[k].key => j = k
        BY <4>1 DEF Carries
      <4>4. \A j, k \in DOMAIN attributes : attributes[j].key = attributes[k].key => j = k
        BY <4>2, <4>3
      <4> QED  BY <4>4 DEF attributes
    <3> HIDE DEF reads
    <3> QED  BY <3>2, <3>9, <3>10, <3>11, Zenon DEF DocumentReadsBack
  <2>2. CASE \/ FindTraceParent \/ ParseUrl \/ DescribePlan \/ SummariseWorkers \/ PlaceSpans
             \/ Return
    <3>1. call'.function # "document"
      BY <2>2 DEF FindTraceParent, ParseUrl, DescribePlan, SummariseWorkers, PlaceSpans, Return,
                  Call, NoCall
    <3> QED  BY <3>1 DEF DocumentReadsBack
  <2>3. CASE UNCHANGED vars
    BY <1>2, <2>3 DEF vars, DocumentReadsBack, SpansRead
  <2> QED  BY <1>2, <2>1, <2>2, <2>3 DEF Next
<1> QED  BY <1>1, <1>2, PTL DEF Spec
=============================================================================
