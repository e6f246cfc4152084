-------------------------- MODULE Documents_proofs ---------------------------
(***************************************************************************)
(* Lemmas about the lists of open documents of a display path: what        *)
(* opening, editing and closing a document preserve.                       *)
(***************************************************************************)
EXTENDS Documents, SequenceTheorems, TLAPS

\* Closing a URI or replacing its document leaves a list of documents.
LEMMA WithoutType ==
    ASSUME NEW S, NEW list \in Seq(S), NEW u
    PROVE  Without(list, u) \in Seq(S)
<1>1. CASE \E i \in 1 .. Len(list) : list[i].uri = u
  <2> DEFINE k == CHOOSE i \in 1 .. Len(list) : list[i].uri = u
  <2>1. k \in 1 .. Len(list)
    BY <1>1
  <2> HIDE DEF k
  <2>2. SubSeq(list, 1, k - 1) \in Seq(S)
    BY <2>1, SubSeqProperties
  <2>3. SubSeq(list, k + 1, Len(list)) \in Seq(S)
    BY <2>1, SubSeqProperties
  <2> QED
    BY <1>1, <2>2, <2>3 DEF Without, k
<1>2. CASE ~ \E i \in 1 .. Len(list) : list[i].uri = u
  BY <1>2 DEF Without
<1> QED
  BY <1>1, <1>2

\* An entry of the shortened list is an entry of the list, two entries of
\* the shortened list are two entries of the list, and the only entry of u
\* is gone.
Origin(rest, list, u, origin) ==
    /\ \A i \in 1 .. Len(rest) : rest[i] = list[origin[i]]
    /\ \A i, j \in 1 .. Len(rest) : origin[i] = origin[j] => i = j
    /\ (\A i, j \in 1 .. Len(list) : list[i].uri = list[j].uri => i = j)
       => \A i \in 1 .. Len(rest) : list[origin[i]].uri # u

LEMMA WithoutEntries ==
    ASSUME NEW S, NEW list \in Seq(S), NEW u
    PROVE  \E origin \in [1 .. Len(Without(list, u)) -> 1 .. Len(list)] :
              Origin(Without(list, u), list, u, origin)
<1>1. CASE \E i \in 1 .. Len(list) : list[i].uri = u
  <2> DEFINE k == CHOOSE i \in 1 .. Len(list) : list[i].uri = u
             left == SubSeq(list, 1, k - 1)
             right == SubSeq(list, k + 1, Len(list))
             origin == [i \in 1 .. Len(list) - 1 |->
                           IF i < k THEN i ELSE i + 1]
  <2>1. k \in 1 .. Len(list)
    BY <1>1
  <2>2. Without(list, u) = left \o right
    BY <1>1 DEF Without
  <2>3. left \in Seq(S) /\ Len(left) = k - 1
        /\ \A i \in 1 .. k - 1 : left[i] = list[i]
    <3> HIDE DEF k
    <3> QED  BY <2>1, SubSeqProperties
  <2>4. right \in Seq(S) /\ Len(right) = Len(list) - k
        /\ \A i \in 1 .. Len(list) - k : right[i] = list[k + i]
    <3> HIDE DEF k
    <3>1. \A i \in k + 1 .. Len(list) : list[i] \in S
      BY <2>1
    <3>2. /\ right \in Seq(S)
          /\ Len(right) = IF k + 1 <= Len(list) THEN Len(list) - (k + 1) + 1 ELSE 0
          /\ \A i \in 1 .. Len(list) - (k + 1) + 1 : right[i] = list[k + 1 + i - 1]
      BY <2>1, <3>1, SubSeqProperties
    <3> HIDE DEF right
    <3>3. \A i \in 1 .. Len(list) - k : right[i] = list[k + i]
      <4> TAKE i \in 1 .. Len(list) - k
      <4>1. i \in 1 .. Len(list) - (k + 1) + 1 /\ k + 1 + i - 1 = k + i
        BY <2>1
      <4> QED  BY <4>1, <3>2
    <3> QED  BY <2>1, <3>2, <3>3
  <2> HIDE DEF left, right, k
  <2>5. Len(Without(list, u)) = Len(list) - 1
    <3>1. Len(left \o right) = Len(left) + Len(right)
      BY <2>3, <2>4, ConcatProperties
    <3> QED  BY <2>1, <2>2, <2>3, <2>4, <3>1
  <2>6. origin \in [1 .. Len(Without(list, u)) -> 1 .. Len(list)]
    BY <2>1, <2>5
  <2>7. ASSUME NEW i \in 1 .. Len(Without(list, u))
        PROVE  Without(list, u)[i] = list[origin[i]]
    <3>1. CASE i < k
      BY <3>1, <2>1, <2>2, <2>3, <2>4, <2>5, <2>7
    <3>2. CASE ~ (i < k)
      <4>1. (left \o right)[i] = right[i - Len(left)]
        BY <3>2, <2>1, <2>3, <2>4, <2>5, <2>7
      <4>2. i - Len(left) \in 1 .. Len(list) - k
        BY <3>2, <2>1, <2>3, <2>5, <2>7
      <4>3. right[i - Len(left)] = list[k + (i - Len(left))]
        BY <4>2, <2>4
      <4>4. k + (i - Len(left)) = i + 1
        BY <2>1, <2>3, <2>7
      <4> QED
        BY <4>1, <4>3, <4>4, <3>2, <2>2, <2>5, <2>7
    <3> QED
      BY <3>1, <3>2
  <2>8. \A i, j \in 1 .. Len(Without(list, u)) : origin[i] = origin[j] => i = j
    BY <2>1, <2>5
  <2>9. ASSUME \A i, j \in 1 .. Len(list) : list[i].uri = list[j].uri => i = j,
               NEW i \in 1 .. Len(Without(list, u))
        PROVE  list[origin[i]].uri # u
    <3>1. list[k].uri = u
      BY <1>1 DEF k
    <3>2. origin[i] # k /\ origin[i] \in 1 .. Len(list)
      BY <2>1, <2>5, <2>6
    <3> QED
      BY <3>1, <3>2, <2>1, <2>9
  <2> HIDE DEF origin
  <2> QED
    BY <2>6, <2>7, <2>8, <2>9 DEF Origin
<1>2. CASE ~ \E i \in 1 .. Len(list) : list[i].uri = u
  <2> DEFINE origin == [i \in 1 .. Len(list) |-> i]
  <2>1. Without(list, u) = list
    BY <1>2 DEF Without
  <2>2. origin \in [1 .. Len(list) -> 1 .. Len(list)]
    OBVIOUS
  <2>3. \A i \in 1 .. Len(list) : list[i] = list[origin[i]]
    OBVIOUS
  <2>4. \A i, j \in 1 .. Len(list) : origin[i] = origin[j] => i = j
    OBVIOUS
  <2>5. \A i \in 1 .. Len(list) : list[origin[i]].uri # u
    BY <1>2
  <2> HIDE DEF origin
  <2> QED
    BY <2>1, <2>2, <2>3, <2>4, <2>5 DEF Origin
<1> QED
  BY <1>1, <1>2

\* Opening or editing a document, and closing one, keep the map well typed.
LEMMA CloseType ==
    ASSUME NEW S, NEW docs \in DocumentMaps(S), NEW u \in Uris
    PROVE  CloseDocument(docs, u) \in DocumentMaps(S)
  BY WithoutType DEF DocumentMaps, CloseDocument

LEMMA PutType ==
    ASSUME NEW S, NEW docs \in DocumentMaps(S), NEW doc \in S,
           doc.uri \in Uris
    PROVE  PutDocument(docs, doc) \in DocumentMaps(S)
<1>1. \A p \in Paths : Without(docs[p], doc.uri) \in Seq(S)
  BY WithoutType DEF DocumentMaps
<1>2. \A p \in Paths : Append(Without(docs[p], doc.uri), doc) \in Seq(S)
  BY <1>1
<1> QED
  BY <1>1, <1>2 DEF DocumentMaps, PutDocument

\* They also keep each URI open at most once, below its own path.
LEMMA CloseKeepsKeys ==
    ASSUME NEW S, NEW docs \in DocumentMaps(S), WellKeyed(docs), NEW u \in Uris
    PROVE  WellKeyed(CloseDocument(docs, u))
<1> SUFFICES ASSUME NEW p \in Paths,
                    NEW i \in 1 .. Len(CloseDocument(docs, u)[p]),
                    NEW j \in 1 .. Len(CloseDocument(docs, u)[p])
             PROVE  LET list == CloseDocument(docs, u)[p]
                    IN  /\ PathOf[list[i].uri] = p
                        /\ list[i].uri = list[j].uri => i = j
  BY DEF WellKeyed
<1>1. CASE p = PathOf[u]
  <2>1. CloseDocument(docs, u)[p] = Without(docs[p], u)
    BY <1>1 DEF CloseDocument, DocumentMaps
  <2>2. docs[p] \in Seq(S)
    BY DEF DocumentMaps
  <2>3. PICK origin \in [1 .. Len(Without(docs[p], u)) -> 1 .. Len(docs[p])] :
           Origin(Without(docs[p], u), docs[p], u, origin)
    BY <2>2, WithoutEntries
  <2> QED
    BY <2>1, <2>3 DEF WellKeyed, Origin
<1>2. CASE p # PathOf[u]
  <2>1. CloseDocument(docs, u)[p] = docs[p]
    BY <1>2 DEF CloseDocument, DocumentMaps
  <2> QED
    BY <2>1 DEF WellKeyed
<1> QED
  BY <1>1, <1>2

LEMMA PutKeepsKeys ==
    ASSUME NEW S, NEW docs \in DocumentMaps(S), WellKeyed(docs),
           NEW doc \in S, doc.uri \in Uris
    PROVE  WellKeyed(PutDocument(docs, doc))
<1> DEFINE at == PathOf[doc.uri]
<1> SUFFICES ASSUME NEW p \in Paths,
                    NEW i \in 1 .. Len(PutDocument(docs, doc)[p]),
                    NEW j \in 1 .. Len(PutDocument(docs, doc)[p])
             PROVE  LET list == PutDocument(docs, doc)[p]
                    IN  /\ PathOf[list[i].uri] = p
                        /\ list[i].uri = list[j].uri => i = j
  BY DEF WellKeyed
<1>1. CASE p = at
  <2> DEFINE rest == Without(docs[p], doc.uri)
  <2>1. PutDocument(docs, doc)[p] = Append(rest, doc)
    BY <1>1 DEF PutDocument, DocumentMaps
  <2>2. docs[p] \in Seq(S)
    BY DEF DocumentMaps
  <2>3. rest \in Seq(S)
    BY <2>2, WithoutType
  <2>4. PICK origin \in [1 .. Len(rest) -> 1 .. Len(docs[p])] :
           Origin(rest, docs[p], doc.uri, origin)
    BY <2>2, WithoutEntries
  <2>5. \A k \in 1 .. Len(rest) : /\ rest[k].uri # doc.uri
                                 /\ PathOf[rest[k].uri] = p
    BY <2>4 DEF WellKeyed, Origin
  <2>6. \A k, l \in 1 .. Len(rest) : rest[k].uri = rest[l].uri => k = l
    BY <2>4 DEF WellKeyed, Origin
  <2> HIDE DEF rest
  <2>7. /\ Len(Append(rest, doc)) = Len(rest) + 1
        /\ Append(rest, doc)[Len(rest) + 1] = doc
        /\ \A k \in 1 .. Len(rest) : Append(rest, doc)[k] = rest[k]
    BY <2>3
  <2>8. \A k \in 1 .. Len(rest) + 1 : k \in 1 .. Len(rest) \/ k = Len(rest) + 1
    BY <2>3
  <2> QED
    BY <1>1, <2>1, <2>5, <2>6, <2>7, <2>8
<1>2. CASE p # at
  <2>1. PutDocument(docs, doc)[p] = docs[p]
    BY <1>2 DEF PutDocument, DocumentMaps
  <2> QED
    BY <2>1 DEF WellKeyed
<1> QED
  BY <1>1, <1>2
==============================================================================
