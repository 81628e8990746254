-------------------------- MODULE ScriptPage_proofs --------------------------
(* The page of a script shows its document, for outputs of any length. *)
EXTENDS MCScriptPage, SequenceTheorems, WellFoundedInduction, NaturalsInduction, TLAPS

\* Where str has from.
Occurrences(str, from) == {i \in DOMAIN str : str[i] = from}

First(S) == CHOOSE i \in S : \A j \in S : i <= j

\* The two operators in these terms.
LEMMA ReplaceFirstIs ==
    ASSUME NEW str, NEW from, NEW to
    PROVE  ReplaceFirst(str, from, to) =
             IF Occurrences(str, from) = {} THEN str
             ELSE SubSeq(str, 1, First(Occurrences(str, from)) - 1) \o to
                    \o SubSeq(str, First(Occurrences(str, from)) + 1, Len(str))
BY DEF ReplaceFirst, Occurrences, First

LEMMA DocumentIs ==
    ASSUME NEW out
    PROVE  Document(out) =
             IF Occurrences(out, "html") = {} THEN <<>>
             ELSE SubSeq(out, First(Occurrences(out, "html")), Len(out))
BY DEF Document, Occurrences, First

\* A set of positions that is not empty has a first one, and only one.
LEMMA FirstIs ==
    ASSUME NEW S \in SUBSET Nat, S # {}
    PROVE  First(S) \in S /\ \A j \in S : First(S) <= j
<1> DEFINE less == {p \in Nat \X Nat : p[1] < p[2]}
<1>1. IsWellFoundedOn(less, Nat)
  BY NatLessThanWellFounded, Zenon DEF OpToRel
<1>2. \A i, j \in Nat : j < i => <<j, i>> \in less
  OBVIOUS
<1> HIDE DEF less
<1>3. PICK i \in S : \A j \in S : <<j, i>> \notin less
  BY <1>1, WFMin, Zenon
<1>4. \A j \in S : i \in Nat /\ j \in Nat /\ ~ (j < i)
  BY <1>2, <1>3
<1>5. \E k \in S : \A j \in S : k <= j
  BY <1>3, <1>4
<1> QED
  BY <1>5 DEF First

LEMMA FirstUnique ==
    ASSUME NEW S \in SUBSET Nat, NEW k \in S, \A j \in S : k <= j
    PROVE  First(S) = k
<1>1. First(S) \in S /\ First(S) <= k
  BY FirstIs
<1>2. k <= First(S)
  BY <1>1
<1>3. k \in Nat /\ First(S) \in Nat
  BY <1>1
<1> QED
  BY <1>1, <1>2, <1>3

-----------------------------------------------------------------------------
(***************************************************************************)
(* The page, position by position.                                         *)
(***************************************************************************)

\* Two pieces of text, one after the other.
LEMMA Joined ==
    ASSUME NEW s \in Seq(Token), NEW t \in Seq(Token)
    PROVE  /\ s \o t \in Seq(Token) /\ Len(s \o t) = Len(s) + Len(t)
           /\ \A i \in 1 .. Len(s) : (s \o t)[i] = s[i]
           /\ \A i \in 1 .. Len(t) : (s \o t)[Len(s) + i] = t[i]
<1> DEFINE m == Len(s)
           n == Len(t)
<1>1. m \in Nat /\ n \in Nat
  BY LenProperties
<1>2. /\ s \o t \in Seq(Token) /\ Len(s \o t) = m + n
      /\ \A i \in 1 .. m + n : (s \o t)[i] = IF i <= m THEN s[i] ELSE t[i - m]
  BY ConcatProperties
<1> HIDE DEF m, n
<1>3. ASSUME NEW i \in 1 .. n PROVE (s \o t)[m + i] = t[i]
  <2>1. m + i \in 1 .. m + n /\ ~ (m + i <= m) /\ (m + i) - m = i
    BY <1>1
  <2> QED
    BY <1>2, <2>1
<1>4. ASSUME NEW i \in 1 .. m PROVE (s \o t)[i] = s[i]
  <2>1. i \in 1 .. m + n /\ i <= m
    BY <1>1
  <2> QED
    BY <1>2, <2>1
<1> QED
  BY <1>2, <1>3, <1>4 DEF m, n

\* What the code searches for <html>: the output with the opener in front.
LEMMA OpenedOutput ==
    ASSUME NEW out \in Seq(Token)
    PROVE  /\ <<"open">> \o out \in Seq(Token)
           /\ Len(<<"open">> \o out) = Len(out) + 1
           /\ (<<"open">> \o out)[1] = "open"
           /\ \A i \in 1 .. Len(out) : (<<"open">> \o out)[i + 1] = out[i]
<1>1. <<"open">> \in Seq(Token) /\ Len(<<"open">>) = 1 /\ <<"open">>[1] = "open"
  BY DEF Token
<1>2. Len(out) \in Nat
  BY LenProperties
<1> HIDE DEF Token
<1>3. /\ <<"open">> \o out \in Seq(Token)
      /\ Len(<<"open">> \o out) = 1 + Len(out)
      /\ \A i \in 1 .. 1 + Len(out) :
            (<<"open">> \o out)[i] = IF i <= 1 THEN <<"open">>[i] ELSE out[i - 1]
  BY <1>1, ConcatProperties
<1> QED
  BY <1>1, <1>2, <1>3

\* An output without a document: the page is the output, after the opener.
LEMMA PageWithoutDocument ==
    ASSUME NEW out \in Seq(Token), Occurrences(out, "html") = {}
    PROVE  ScriptBody(out) = <<"open">> \o out /\ Document(out) = <<>>
<1> DEFINE str == <<"open">> \o out
<1>1. /\ str \in Seq(Token) /\ Len(str) = Len(out) + 1 /\ str[1] = "open"
      /\ \A i \in 1 .. Len(out) : str[i + 1] = out[i]
  BY OpenedOutput
<1>2. /\ DOMAIN str = 1 .. Len(str) /\ DOMAIN out = 1 .. Len(out) /\ Len(out) \in Nat
  BY <1>1, LenProperties
<1> HIDE DEF str
<1>3. Occurrences(str, "html") = {}
  <2> SUFFICES ASSUME NEW i \in DOMAIN str, str[i] = "html" PROVE FALSE
    BY DEF Occurrences
  <2>1. i - 1 \in 1 .. Len(out) /\ str[i] = out[i - 1]
    BY <1>1, <1>2
  <2> QED
    BY <1>2, <2>1 DEF Occurrences
<1>4. ReplaceFirst(str, "html", <<"close", "html">>) = str
  BY <1>3, ReplaceFirstIs
<1>5. str # <<>>
  BY <1>1, <1>2
<1>6. ScriptBody(out) = str
  BY <1>4, <1>5 DEF ScriptBody, str
<1> QED
  BY <1>6, DocumentIs DEF str

\* An output with a document that starts at p: two tokens are put in, the
\* opener in front and the closer before p.
LEMMA PageWithDocument ==
    ASSUME NEW out \in Seq(Token), Occurrences(out, "html") # {},
           NEW p, p = First(Occurrences(out, "html")),
           NEW page, page = ScriptBody(out)
    PROVE  /\ p \in 1 .. Len(out)
           /\ page \in Seq(Token) /\ Len(page) = Len(out) + 2
           /\ page[1] = "open" /\ page[p + 1] = "close"
           /\ \A i \in 1 .. p - 1 : page[i + 1] = out[i]
           /\ \A i \in p .. Len(out) : page[i + 2] = out[i]
<1> DEFINE str == <<"open">> \o out
           to == <<"close", "html">>
           front == SubSeq(str, 1, p)
           back == SubSeq(str, p + 2, Len(str))
<1>1. /\ str \in Seq(Token) /\ Len(str) = Len(out) + 1 /\ str[1] = "open"
      /\ \A i \in 1 .. Len(out) : str[i + 1] = out[i]
  BY OpenedOutput
<1>2. /\ DOMAIN str = 1 .. Len(str) /\ DOMAIN out = 1 .. Len(out) /\ Len(out) \in Nat
  BY <1>1, LenProperties
<1>3. to \in Seq(Token) /\ Len(to) = 2 /\ to[1] = "close" /\ to[2] = "html"
  BY DEF Token, ScriptToken
<1>4. /\ p \in 1 .. Len(out) /\ out[p] = "html"
      /\ \A j \in 1 .. Len(out) : out[j] = "html" => p <= j
  <2>1. Occurrences(out, "html") \in SUBSET Nat
    BY <1>2 DEF Occurrences
  <2>2. p \in Occurrences(out, "html") /\ \A j \in Occurrences(out, "html") : p <= j
    BY <2>1, FirstIs
  <2> QED
    BY <1>2, <2>2 DEF Occurrences
<1> HIDE DEF str, to
<1>5. Occurrences(str, "html") # {} /\ First(Occurrences(str, "html")) = p + 1
  <2>1. Occurrences(str, "html") \in SUBSET Nat
    BY <1>1, <1>2 DEF Occurrences
  <2>2. p + 1 \in Occurrences(str, "html")
    BY <1>1, <1>2, <1>4 DEF Occurrences
  <2>3. ASSUME NEW j \in Occurrences(str, "html") PROVE p + 1 <= j
    <3>1. j \in 1 .. Len(out) + 1 /\ str[j] = "html"
      BY <1>1, <1>2 DEF Occurrences
    <3>2. j - 1 \in 1 .. Len(out) /\ str[j] = out[j - 1]
      BY <1>1, <1>2, <3>1
    <3> QED
      BY <1>2, <1>4, <3>1, <3>2
  <2> QED
    BY <2>1, <2>2, <2>3, FirstUnique
<1>6. ReplaceFirst(str, "html", to) = front \o to \o back
  <2>1. ReplaceFirst(str, "html", to) =
           SubSeq(str, 1, (p + 1) - 1) \o to \o SubSeq(str, (p + 1) + 1, Len(str))
    BY <1>5, ReplaceFirstIs
  <2>2. (p + 1) - 1 = p /\ (p + 1) + 1 = p + 2
    BY <1>4
  <2> QED
    BY <2>1, <2>2
<1>7. /\ front \in Seq(Token) /\ Len(front) = p
      /\ \A i \in 1 .. p : front[i] = str[i]
  <2>1. \A i \in 1 .. p : str[i] \in Token
    BY <1>1, <1>2, <1>4
  <2> QED
    BY <1>4, <2>1, SubSeqProperties
<1>8. /\ back \in Seq(Token) /\ Len(back) = Len(out) - p
      /\ \A i \in 1 .. Len(out) - p : back[i] = str[p + 1 + i]
  <2>1. \A i \in p + 2 .. Len(str) : str[i] \in Token
    BY <1>1, <1>2, <1>4
  <2>2. p + 2 \in Int /\ Len(str) \in Int
    BY <1>1, <1>2, <1>4
  <2>3. /\ back \in Seq(Token)
        /\ Len(back) = IF p + 2 <= Len(str) THEN Len(str) - (p + 2) + 1 ELSE 0
        /\ \A i \in 1 .. Len(str) - (p + 2) + 1 : back[i] = str[p + 2 + i - 1]
    BY <2>1, <2>2, SubSeqProperties
  <2>4. Len(str) - (p + 2) + 1 = Len(out) - p
    BY <1>1, <1>2, <1>4
  <2>5. \A i \in 1 .. Len(out) - p : p + 2 + i - 1 = p + 1 + i
    BY <1>2, <1>4
  <2> QED
    BY <1>1, <1>2, <1>4, <2>3, <2>4, <2>5
<1> HIDE DEF front, back
<1>9. /\ front \o to \in Seq(Token) /\ Len(front \o to) = p + 2
      /\ \A i \in 1 .. p : (front \o to)[i] = front[i]
      /\ \A i \in 1 .. 2 : (front \o to)[p + i] = to[i]
  <2>1. front \in Seq(Token) /\ to \in Seq(Token) /\ Len(front) = p /\ Len(to) = 2
    BY <1>3, <1>7
  <2>2. /\ front \o to \in Seq(Token) /\ Len(front \o to) = Len(front) + Len(to)
        /\ \A i \in 1 .. Len(front) : (front \o to)[i] = front[i]
        /\ \A i \in 1 .. Len(to) : (front \o to)[Len(front) + i] = to[i]
    BY <2>1, Joined, Zenon
  <2> QED
    BY <2>1, <2>2
<1>10. /\ (front \o to) \o back \in Seq(Token)
       /\ Len((front \o to) \o back) = (p + 2) + (Len(out) - p)
       /\ \A i \in 1 .. p + 2 : ((front \o to) \o back)[i] = (front \o to)[i]
       /\ \A i \in 1 .. Len(out) - p : ((front \o to) \o back)[(p + 2) + i] = back[i]
  <2>1. /\ front \o to \in Seq(Token) /\ back \in Seq(Token)
        /\ Len(front \o to) = p + 2 /\ Len(back) = Len(out) - p
    BY <1>8, <1>9
  <2> DEFINE s == front \o to
  <2> HIDE DEF s
  <2>2. /\ s \o back \in Seq(Token) /\ Len(s \o back) = Len(s) + Len(back)
        /\ \A i \in 1 .. Len(s) : (s \o back)[i] = s[i]
        /\ \A i \in 1 .. Len(back) : (s \o back)[Len(s) + i] = back[i]
    BY <2>1, Joined, Zenon DEF s
  <2> QED
    BY <2>1, <2>2 DEF s
<1>11. page = (front \o to) \o back
  <2>1. (front \o to) \o back # <<>>
    BY <1>2, <1>4, <1>10
  <2> QED
    BY <1>6, <2>1 DEF ScriptBody, str, to
<1>12. page \in Seq(Token) /\ Len(page) = Len(out) + 2
  BY <1>2, <1>4, <1>10, <1>11
<1>13. ASSUME NEW i \in 1 .. p PROVE page[i] = str[i]
  <2>1. i \in 1 .. p + 2
    BY <1>4
  <2> QED
    BY <1>7, <1>9, <1>10, <1>11, <2>1
<1>14. page[p + 1] = "close" /\ page[p + 2] = "html"
  <2>1. 1 \in 1 .. 2 /\ 2 \in 1 .. 2 /\ p + 1 \in 1 .. p + 2 /\ p + 2 \in 1 .. p + 2
    BY <1>4
  <2> QED
    BY <1>3, <1>9, <1>10, <1>11, <2>1
<1>15. ASSUME NEW i \in p .. Len(out) PROVE page[i + 2] = out[i]
  <2>1. CASE i = p
    BY <1>4, <1>14, <2>1
  <2>2. CASE i > p
    <3>1. /\ i - p \in 1 .. Len(out) - p /\ p + 1 + (i - p) = i + 1 /\ i \in 1 .. Len(out)
          /\ (p + 2) + (i - p) = i + 2
      BY <1>2, <1>4, <2>2
    <3>2. page[i + 2] = back[i - p]
      BY <1>10, <1>11, <3>1
    <3>3. back[i - p] = str[i + 1]
      BY <1>8, <3>1
    <3> QED
      BY <1>1, <3>1, <3>2, <3>3
  <2> QED
    BY <1>2, <1>4, <2>1, <2>2
<1>16. ASSUME NEW i \in 1 .. p - 1 PROVE page[i + 1] = out[i]
  <2>1. i + 1 \in 1 .. p /\ i \in 1 .. Len(out)
    BY <1>2, <1>4
  <2> QED
    BY <1>1, <1>13, <2>1
<1>17. page[1] = "open"
  <2>1. 1 \in 1 .. p
    BY <1>4
  <2> QED
    BY <1>1, <1>13, <2>1
<1> QED
  BY <1>4, <1>12, <1>14, <1>15, <1>16, <1>17

-----------------------------------------------------------------------------
(***************************************************************************)
(* What is shown of it.                                                    *)
(***************************************************************************)

\* Without a document nothing is shown, since nothing closes the comment.
LEMMA NothingShown ==
    ASSUME NEW out \in Seq(Token), Occurrences(out, "html") = {},
           \A i \in 1 .. Len(out) : out[i] # "close"
    PROVE  ShowsDocument(ScriptBody(out), Document(out))
<1> DEFINE page == <<"open">> \o out
<1>1. /\ page \in Seq(Token) /\ Len(page) = Len(out) + 1 /\ page[1] = "open"
      /\ \A i \in 1 .. Len(out) : page[i + 1] = out[i]
  BY OpenedOutput
<1>2. DOMAIN page = 1 .. Len(page) /\ Len(out) \in Nat
  BY <1>1, LenProperties
<1>3. ScriptBody(out) = page /\ Document(out) = <<>>
  BY PageWithoutDocument
<1> HIDE DEF page
<1>4. ASSUME NEW i \in DOMAIN page, page[i] # "open" PROVE Hidden(page, i)
  <2>1. i \in 2 .. Len(out) + 1
    BY <1>1, <1>2, <1>4
  <2>2. ASSUME NEW k \in 2 .. i PROVE page[k] # "close"
    <3>1. k - 1 \in 1 .. Len(out) /\ (k - 1) + 1 = k
      BY <1>2, <2>1
    <3> QED
      BY <1>1, <3>1
  <2>3. 1 \in 1 .. i - 1
    BY <2>1
  <2> QED
    BY <1>1, <2>2, <2>3 DEF Hidden
<1>5. Shown(page) = {}
  BY <1>4 DEF Shown
<1>6. Shown(<<>>) = {}
  BY DEF Shown
<1> QED
  BY <1>3, <1>5, <1>6 DEF ShowsDocument

\* With a document, what is in front of it is hidden, and the document is
\* shown as it would be alone.
LEMMA DocumentIsShown ==
    ASSUME NEW out \in Seq(Token), Occurrences(out, "html") # {},
           \A i \in DOMAIN Header(out) : Header(out)[i] # "close"
    PROVE  ShowsDocument(ScriptBody(out), Document(out))
<1> DEFINE p == First(Occurrences(out, "html"))
           page == ScriptBody(out)
           document == Document(out)
<1>1. /\ p \in 1 .. Len(out)
      /\ page \in Seq(Token) /\ Len(page) = Len(out) + 2
      /\ page[1] = "open" /\ page[p + 1] = "close"
      /\ \A i \in 1 .. p - 1 : page[i + 1] = out[i]
      /\ \A i \in p .. Len(out) : page[i + 2] = out[i]
  BY PageWithDocument
<1>2. /\ Len(out) \in Nat /\ DOMAIN out = 1 .. Len(out)
      /\ \A i \in 1 .. Len(out) : out[i] \in Token
  BY LenProperties
<1>3. /\ document \in Seq(Token) /\ Len(document) = Len(out) - p + 1
      /\ \A j \in 1 .. Len(out) - p + 1 : document[j] = out[p + j - 1]
  <2>1. document = SubSeq(out, p, Len(out))
    BY DocumentIs
  <2>2. \A i \in p .. Len(out) : out[i] \in Token
    BY <1>1, <1>2
  <2>3. p \in Int /\ Len(out) \in Int
    BY <1>1, <1>2
  <2> HIDE DEF p, document
  <2>4. /\ SubSeq(out, p, Len(out)) \in Seq(Token)
        /\ Len(SubSeq(out, p, Len(out))) = IF p <= Len(out) THEN Len(out) - p + 1 ELSE 0
        /\ \A i \in 1 .. Len(out) - p + 1 : SubSeq(out, p, Len(out))[i] = out[p + i - 1]
    BY <2>2, <2>3, SubSeqProperties
  <2> QED
    BY <1>1, <1>2, <2>1, <2>4
<1>4. \A i \in 1 .. p - 1 : out[i] # "close"
  <2>1. Header(out) = SubSeq(out, 1, p - 1)
    <3>1. Len(out) - Len(document) = p - 1
      BY <1>1, <1>2, <1>3
    <3> QED
      BY <3>1 DEF Header
  <2>2. \A i \in 1 .. p - 1 : out[i] \in Token
    BY <1>1, <1>2
  <2>3. 1 \in Int /\ p - 1 \in Int
    BY <1>1
  <2> HIDE DEF p
  <2>4. /\ SubSeq(out, 1, p - 1) \in Seq(Token)
        /\ Len(SubSeq(out, 1, p - 1)) = IF 1 <= p - 1 THEN (p - 1) - 1 + 1 ELSE 0
        /\ \A i \in 1 .. (p - 1) - 1 + 1 : SubSeq(out, 1, p - 1)[i] = out[1 + i - 1]
    BY <2>2, <2>3, SubSeqProperties
  <2>5. DOMAIN Header(out) = 1 .. p - 1
    BY <1>1, <2>1, <2>4, LenProperties
  <2> SUFFICES ASSUME NEW i \in 1 .. p - 1 PROVE out[i] # "close"
    OBVIOUS
  <2>6. i \in 1 .. (p - 1) - 1 + 1 /\ 1 + i - 1 = i
    BY <1>1
  <2>7. Header(out)[i] = out[1 + i - 1]
    BY <2>1, <2>4, <2>6
  <2>8. Header(out)[i] # "close"
    BY <2>5
  <2> QED
    BY <2>6, <2>7, <2>8
<1>5. DOMAIN page = 1 .. Len(out) + 2 /\ DOMAIN document = 1 .. Len(out) - p + 1
  BY <1>1, <1>3, LenProperties
<1>6. Len(page) - Len(document) = p + 1
  BY <1>1, <1>2, <1>3
<1> HIDE DEF p, page, document
<1>7. ASSUME NEW j \in 1 .. Len(out) - p + 1 PROVE page[p + 1 + j] = document[j]
  <2>1. p + j - 1 \in p .. Len(out) /\ (p + j - 1) + 2 = p + 1 + j
    BY <1>1, <1>2
  <2> QED
    BY <1>1, <1>3, <2>1
<1>8. ASSUME NEW i \in Shown(page) PROVE i >= p + 2
  <2>1. /\ i \in 1 .. Len(out) + 2 /\ page[i] \notin {"open", "close"}
        /\ ~ Hidden(page, i)
    BY <1>5 DEF Shown
  <2>2. SUFFICES ASSUME i \in 2 .. p PROVE FALSE
    BY <1>1, <1>2, <2>1
  <2>3. ASSUME NEW k \in 2 .. i PROVE page[k] # "close"
    <3>1. k - 1 \in 1 .. p - 1 /\ (k - 1) + 1 = k
      BY <1>1, <2>2
    <3> QED
      BY <1>1, <1>4, <3>1
  <2>4. 1 \in 1 .. i - 1
    BY <2>2
  <2> QED
    BY <1>1, <2>1, <2>3, <2>4 DEF Hidden
<1>9. ASSUME NEW j \in 1 .. Len(out) - p + 1
      PROVE  Hidden(page, p + 1 + j) <=> Hidden(document, j)
  <2>1. ASSUME Hidden(document, j) PROVE Hidden(page, p + 1 + j)
    <3>1. PICK o \in 1 .. j - 1 :
            /\ document[o] = "open" /\ \A k \in o + 1 .. j : document[k] # "close"
      BY <2>1 DEF Hidden
    <3>2. p + 1 + o \in 1 .. (p + 1 + j) - 1 /\ page[p + 1 + o] = "open"
      <4>1. p + 1 + o \in 1 .. (p + 1 + j) - 1 /\ o \in 1 .. Len(out) - p + 1
        BY <1>1, <1>2, <3>1
      <4> QED
        BY <1>7, <3>1, <4>1
    <3>3. ASSUME NEW k \in p + 1 + o + 1 .. p + 1 + j PROVE page[k] # "close"
      <4>1. /\ k - (p + 1) \in o + 1 .. j /\ k - (p + 1) \in 1 .. Len(out) - p + 1
            /\ p + 1 + (k - (p + 1)) = k
        BY <1>1, <1>2, <3>1
      <4> QED
        BY <1>7, <3>1, <4>1
    <3> QED
      BY <3>2, <3>3 DEF Hidden
  <2>2. ASSUME Hidden(page, p + 1 + j) PROVE Hidden(document, j)
    <3>1. PICK o \in 1 .. (p + 1 + j) - 1 :
            /\ page[o] = "open" /\ \A k \in o + 1 .. p + 1 + j : page[k] # "close"
      BY <2>2 DEF Hidden
    <3>2. o > p + 1
      <4>1. ~ (p + 1 \in o + 1 .. p + 1 + j)
        BY <1>1, <3>1
      <4>2. o # p + 1
        BY <1>1, <3>1
      <4> QED
        BY <1>1, <1>2, <4>1, <4>2
    <3>3. /\ o - (p + 1) \in 1 .. j - 1 /\ o - (p + 1) \in 1 .. Len(out) - p + 1
          /\ p + 1 + (o - (p + 1)) = o
      BY <1>1, <1>2, <3>1, <3>2
    <3>4. document[o - (p + 1)] = "open"
      BY <1>7, <3>1, <3>3
    <3>5. ASSUME NEW k \in o - (p + 1) + 1 .. j PROVE document[k] # "close"
      <4>1. p + 1 + k \in o + 1 .. p + 1 + j /\ k \in 1 .. Len(out) - p + 1
        BY <1>1, <1>2, <3>1, <3>3
      <4> QED
        BY <1>7, <3>1, <4>1
    <3> QED
      BY <3>3, <3>4, <3>5 DEF Hidden
  <2> QED
    BY <2>1, <2>2
<1>10. \A j \in 1 .. Len(out) - p + 1 : p + 1 + j \in Shown(page) <=> j \in Shown(document)
  <2> SUFFICES ASSUME NEW j \in 1 .. Len(out) - p + 1
               PROVE  p + 1 + j \in Shown(page) <=> j \in Shown(document)
    OBVIOUS
  <2>1. p + 1 + j \in 1 .. Len(out) + 2
    BY <1>1, <1>2
  <2> QED
    BY <1>5, <1>7, <1>9, <2>1 DEF Shown
<1>11. Shown(page) = {p + 1 + i : i \in Shown(document)}
  <2>1. ASSUME NEW i \in Shown(page) PROVE \E j \in Shown(document) : i = p + 1 + j
    <3>1. i \in 1 .. Len(out) + 2 /\ i >= p + 2
      BY <1>5, <1>8 DEF Shown
    <3>2. i - (p + 1) \in 1 .. Len(out) - p + 1 /\ p + 1 + (i - (p + 1)) = i
      BY <1>1, <1>2, <3>1
    <3> QED
      BY <1>10, <3>2
  <2>2. ASSUME NEW j \in Shown(document) PROVE p + 1 + j \in Shown(page)
    BY <1>5, <1>10 DEF Shown
  <2> QED
    BY <2>1, <2>2
<1>12. \A i \in Shown(document) : page[p + 1 + i] = document[i]
  BY <1>5, <1>7 DEF Shown
<1> QED
  BY <1>6, <1>11, <1>12 DEF ShowsDocument, page, document

-----------------------------------------------------------------------------
\* Outputs are made of what scripts write.
OutputWritten == output \in Seq(Token)

LEMMA OutputType == Spec => []OutputWritten
<1>1. Init => OutputWritten
  BY DEF Init, OutputWritten
<1>2. OutputWritten /\ [Next]_output => OutputWritten'
  <2> SUFFICES ASSUME OutputWritten, [Next]_output PROVE OutputWritten'
    OBVIOUS
  <2>1. CASE UNCHANGED output
    BY <2>1 DEF OutputWritten
  <2>2. ASSUME NEW t \in ScriptToken, output' = Append(output, t) PROVE OutputWritten'
    <3>1. t \in Token
      BY DEF Token
    <3> QED
      BY <2>2, <3>1, AppendProperties DEF OutputWritten
  <2> QED
    BY <2>1, <2>2 DEF Next
<1> QED
  BY <1>1, <1>2, PTL DEF Spec

\* Of an output of any length whose header holds no end of a comment, a
\* browser shows the document, all of it and nothing else: replace puts the
\* closer in front of the first <html>, and of nothing else.
THEOREM DocumentAlwaysShown == Spec => []DocumentShown
<1>1. OutputWritten => DocumentShown
  <2> SUFFICES ASSUME output \in Seq(Token),
                      \A i \in DOMAIN Header(output) : Header(output)[i] # "close"
               PROVE  ShowsDocument(ScriptBody(output), Document(output))
    BY DEF DocumentShown, OutputWritten
  <2>1. CASE Occurrences(output, "html") # {}
    BY <2>1, DocumentIsShown
  <2>2. CASE Occurrences(output, "html") = {}
    <3>1. Document(output) = <<>> /\ Len(output) \in Nat
      BY <2>2, DocumentIs, LenProperties
    <3>2. Header(output) = SubSeq(output, 1, Len(output))
      BY <3>1 DEF Header
    <3>3. Header(output) = output
      BY <3>2, SubSeqFull
    <3>4. DOMAIN output = 1 .. Len(output)
      BY LenProperties
    <3> QED
      BY <2>2, <3>3, <3>4, NothingShown
  <2> QED
    BY <2>1, <2>2
<1> QED
  BY <1>1, OutputType, PTL
=============================================================================
