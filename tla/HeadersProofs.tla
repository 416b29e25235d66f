---------------------------- MODULE HeadersProofs ----------------------------
(***************************************************************************)
(* The parsers of parsers/headers.c, for every request, every number of    *)
(* bytes behind it, and every size and growth of the array of headers.     *)
(***************************************************************************)
EXTENDS Headers, SequenceTheorems, TLAPS

\* Where the header after the k-th begins.
HeaderStart(k) == IF k = 0 THEN 0 ELSE headers[k][2][2] + 2

\* Where the scans are, by the label reached.
ScanInv ==
    /\ pc \in {"type", "url", "version"} => fn = "get_method" /\ headers = <<>>
    /\ pc \in {"name", "value", "add"} => fn = "get_headers"
    /\ pc = "name" =>
          /\ previous = HeaderStart(Len(headers))
          /\ i = IF headers = <<>> THEN 0 ELSE previous + 1
    /\ pc = "value" =>
          /\ name[1] = HeaderStart(Len(headers)) /\ name[1] <= name[2]
          /\ text[name[2]] = Colon /\ Without(Colon, name[1] + 1, name[2])
          /\ previous = name[2] + 2 /\ i = previous
    /\ pc = "add" =>
          /\ headers # <<>> /\ i = HeaderStart(Len(headers))
          /\ i = previous /\ i <= len
    /\ pc # "end" => moved = 0

\* The index grows faster than the number of headers, so that the array that
\* grows with the index has room for the next header and the terminator.
SlotInv ==
    /\ length >= 2
    /\ Len(headers) <= i
    /\ pc = "value" => Len(headers) + 2 <= length
    /\ pc = "add" => Len(headers) + 1 <= length

IInv == TypeOK /\ ScanInv /\ SlotInv /\ HeadersTile /\ SlotsAllocated /\ OverreadIsBounded

-----------------------------------------------------------------------------

LEMMA Appended ==
    ASSUME NEW S, NEW s \in Seq(S), NEW e \in S
    PROVE  /\ Append(s, e) \in Seq(S)
           /\ Len(Append(s, e)) = Len(s) + 1
           /\ Append(s, e)[Len(s) + 1] = e
           /\ \A k \in 1 .. Len(s) : Append(s, e)[k] = s[k]
OBVIOUS

LEMMA InitIInv == Init => IInv
<1> SUFFICES ASSUME Init PROVE IInv
  OBVIOUS
<1> USE HeadersAssumption DEF Init
<1>1. TypeOK
  <2>1. /\ text \in [0 .. BufLen - 1 -> Chars] /\ <<0, 0>> \in Ranges
        /\ <<>> \in Seq(Ranges) /\ <<>> \in Seq(Ranges \X Ranges)
    BY DEF Ranges
  <2> QED BY <2>1 DEF TypeOK
<1>2. Len(headers) = 0
  OBVIOUS
<1>3. ScanInv /\ SlotInv
  BY <1>2 DEF ScanInv, SlotInv, HeaderStart
<1>4. HeadersTile /\ SlotsAllocated /\ OverreadIsBounded
  BY <1>2 DEF HeadersTile, SlotsAllocated, OverreadIsBounded
<1> QED BY <1>1, <1>3, <1>4 DEF IInv

LEMMA WordIInv ==
    ASSUME IInv, NEW here, NEW next, Word(here, next),
           <<here, next>> \in {<<"type", "url">>, <<"url", "version">>}
    PROVE  IInv'
<1> USE HeadersAssumption DEF IInv, Word, request
<1>1. PICK p \in i .. len - 1 :
          /\ pieces' = Append(pieces, <<previous, p>>)
          /\ i' = p + 1 /\ previous' = p + 1 /\ Reads(p)
  BY DEF Occurrences, TypeOK
<1>2. here \in {"type", "url"} /\ next \in {"url", "version"} /\ fn = "get_method"
  BY DEF ScanInv
<1>3. p \in 0 .. len - 1 /\ len \in Nat /\ i \in Nat /\ reach' \in 0 .. len + 2
  BY <1>1 DEF TypeOK, Reads
<1>4. <<previous, p>> \in Ranges
  <2>1. previous \in 0 .. BufLen /\ p \in 0 .. BufLen
    BY <1>3, HeadersAssumption DEF TypeOK
  <2> QED BY <2>1 DEF Ranges
<1>5. TypeOK'
  <2>1. pieces' \in Seq(Ranges)
    BY <1>1, <1>4, Appended DEF TypeOK
  <2>2. i' \in 0 .. len + 1 /\ previous' \in 0 .. len + 2
    BY <1>1, <1>3
  <2>3. UNCHANGED <<fn, text, len, name, headers, length, moved>>
    OBVIOUS
  <2>4. pc' \in {"url", "version"}
    BY <1>2
  <2> QED BY <1>3, <2>1, <2>2, <2>3, <2>4 DEF TypeOK
<1>6. ScanInv' /\ SlotInv'
  BY <1>1, <1>2, <1>3 DEF ScanInv, SlotInv, TypeOK
<1>7. HeadersTile' /\ SlotsAllocated'
  BY <1>2 DEF HeadersTile, SlotsAllocated, LineEnd, Without, WithoutLineEnd
<1>8. OverreadIsBounded'
  BY <1>1, <1>2, <1>3 DEF OverreadIsBounded, Reads, ScanInv, TypeOK
<1> QED BY <1>5, <1>6, <1>7, <1>8

LEMMA VersionIInv ==
    ASSUME IInv, Version
    PROVE  IInv'
<1> USE HeadersAssumption DEF IInv, Version, request
<1>1. PICK p \in i .. len - 1 :
          /\ pieces' = Append(pieces, <<previous, p>>)
          /\ i' = p /\ previous' = p + 2 /\ moved' = p + 2 /\ Reads(p + 1)
  BY DEF LineEnds, TypeOK
<1>2. fn = "get_method"
  BY DEF ScanInv
<1>3. /\ p \in 0 .. len - 1 /\ len \in Nat /\ i \in Nat
      /\ reach' \in 0 .. len + 2 /\ reach' <= len + 1 /\ p + 2 <= reach'
  BY <1>1, <1>2 DEF TypeOK, Reads, OverreadIsBounded
<1>4. <<previous, p>> \in Ranges
  <2>1. previous \in 0 .. BufLen /\ p \in 0 .. BufLen
    BY <1>3, HeadersAssumption DEF TypeOK
  <2> QED BY <2>1 DEF Ranges
<1>5. TypeOK'
  <2>1. pieces' \in Seq(Ranges)
    BY <1>1, <1>4, Appended DEF TypeOK
  <2>2. i' \in 0 .. len + 1 /\ previous' \in 0 .. len + 2 /\ moved' \in 0 .. len + 2
    BY <1>1, <1>3
  <2>3. UNCHANGED <<fn, text, len, name, headers, length>> /\ pc' = "end"
    OBVIOUS
  <2> QED BY <1>3, <2>1, <2>2, <2>3 DEF TypeOK
<1>6. headers = <<>> /\ Len(headers) = 0
  BY DEF ScanInv
<1>7. ScanInv' /\ SlotInv' /\ SlotsAllocated' /\ HeadersTile'
  BY <1>1, <1>3, <1>6 DEF ScanInv, SlotInv, SlotsAllocated, HeadersTile, TypeOK
<1>8. OverreadIsBounded'
  <2>1. fn' = fn /\ len' = len /\ moved' = p + 2
    BY <1>1
  <2> QED BY <2>1, <1>2, <1>3 DEF OverreadIsBounded
<1> QED BY <1>5, <1>7, <1>8

LEMMA ErrorIInv ==
    ASSUME IInv, MethodError \/ HeadersError
    PROVE  IInv'
<1> USE HeadersAssumption DEF IInv, request
<1>1. UNCHANGED <<fn, text, len, i, previous, pieces, name, headers, moved>> /\ pc' = "error"
  BY DEF MethodError, HeadersError
<1>2. pc # "end" /\ moved = 0
  BY DEF MethodError, HeadersError, ScanInv
<1>3. /\ reach' \in 0 .. len + 2
      /\ reach' <= len + (IF fn = "get_method" THEN 1 ELSE 2) /\ reach <= reach'
  <2>1. /\ reach \in 0 .. len + 2 /\ len \in Nat
        /\ reach <= len + (IF fn = "get_method" THEN 1 ELSE 2)
    BY DEF TypeOK, OverreadIsBounded
  <2>2. \A n \in {len - 1, len} : EndOfScan(n) <= len /\ EndOfScan(n) \in Int
    BY <2>1 DEF EndOfScan, TypeOK
  <2>3. CASE UNCHANGED reach
    BY <2>1, <2>3
  <2>4. CASE \E n \in {len - 1, EndOfScan(len), EndOfScan(len - 1)} : Reads(n)
    BY <2>1, <2>2, <2>4 DEF Reads
  <2> QED BY <2>3, <2>4 DEF MethodError, HeadersError
<1>4. length' \in Nat /\ length' >= 2 /\ Len(headers) <= length'
  <2>1. Len(headers) <= length /\ length >= 2 /\ length \in Nat
    BY <1>2 DEF SlotsAllocated, TypeOK, SlotInv
  <2>2. Len(headers) <= i /\ i \in Nat
    BY DEF SlotInv, TypeOK
  <2>3. length' = length \/ length' = i + Grow
    BY DEF MethodError, HeadersError, GrowHeaders
  <2> QED BY <2>1, <2>2, <2>3
<1>5. TypeOK'
  BY <1>1, <1>3, <1>4 DEF TypeOK
<1>6. ScanInv' /\ SlotInv' /\ SlotsAllocated'
  BY <1>1, <1>2, <1>4 DEF ScanInv, SlotInv, SlotsAllocated, TypeOK
<1>7. HeadersTile'
  BY <1>1 DEF HeadersTile, LineEnd, Without, WithoutLineEnd
<1>8. OverreadIsBounded'
  BY <1>1, <1>2, <1>3 DEF OverreadIsBounded, TypeOK
<1> QED BY <1>5, <1>6, <1>7, <1>8

LEMMA NameIInv ==
    ASSUME IInv, Name
    PROVE  IInv'
<1> USE HeadersAssumption DEF IInv, Name, request
<1>1. PICK p \in i .. len - 1 :
          /\ First(Occurrences(Colon, len), p) /\ text[p] = Colon
          /\ name' = <<previous, p>>
          /\ i' = p + 2 /\ previous' = p + 2 /\ Reads(p)
  BY DEF Occurrences, TypeOK
<1>2. fn = "get_headers" /\ previous = HeaderStart(Len(headers)) /\ moved = 0
  BY DEF ScanInv
<1>3. /\ p \in 0 .. len - 1 /\ len \in Nat /\ i \in Nat /\ previous \in Nat
      /\ reach' \in 0 .. len + 2
  BY <1>1 DEF TypeOK, Reads
<1>4. previous <= i /\ i <= previous + 1
  BY <1>3 DEF ScanInv, TypeOK, HeaderStart
<1>5. name' \in Ranges
  <2>1. previous \in 0 .. BufLen /\ p \in 0 .. BufLen
    BY <1>3, HeadersAssumption DEF TypeOK
  <2> QED BY <1>1, <2>1 DEF Ranges
<1>6. length' \in Nat /\ Len(headers) + 2 <= length'
  BY DEF GrowHeaders, SlotInv, TypeOK
<1>7. TypeOK'
  <2>1. i' \in 0 .. len + 1 /\ previous' \in 0 .. len + 2
    BY <1>1, <1>3
  <2>2. UNCHANGED <<fn, text, len, pieces, headers, moved>> /\ pc' = "value"
    OBVIOUS
  <2> QED BY <1>3, <1>5, <1>6, <2>1, <2>2 DEF TypeOK
<1>8. ScanInv'
  <2>1. \A q \in previous + 1 .. p - 1 : q >= i
    BY <1>3, <1>4
  <2>2. \A q \in previous + 1 .. p - 1 : text[q] # Colon
    <3> SUFFICES ASSUME NEW q \in previous + 1 .. p - 1, text[q] = Colon PROVE FALSE
      OBVIOUS
    <3>1. q \in i .. len - 1
      BY <1>3, <1>4
    <3>2. p <= q
      BY <1>1, <3>1 DEF First, Occurrences
    <3> QED BY <1>3, <3>2
  <2>3. previous <= p
    BY <1>3, <1>4, <1>1
  <2>4. name'[1] = previous /\ name'[2] = p
    BY <1>1
  <2> QED BY <1>1, <1>2, <2>2, <2>3, <2>4 DEF ScanInv, Without, HeaderStart
<1>9. SlotInv' /\ SlotsAllocated'
  BY <1>1, <1>3, <1>6 DEF SlotInv, SlotsAllocated, TypeOK
<1>10. HeadersTile' /\ OverreadIsBounded'
  BY <1>1, <1>2, <1>3 DEF HeadersTile, LineEnd, Without, WithoutLineEnd,
        OverreadIsBounded, Reads, TypeOK
<1> QED BY <1>7, <1>8, <1>9, <1>10

LEMMA ValueIInv ==
    ASSUME IInv, Value
    PROVE  IInv'
<1> USE DEF IInv, Value, request
<1>1. PICK p \in i .. len - 2 :
          /\ First(LineEnds(len - 1), p) /\ text[p] = CR /\ text[p + 1] = LF
          /\ headers' = Append(headers, <<name, <<previous, p>>>>)
          /\ i' = p + 2 /\ previous' = p + 2 /\ Reads(p + 1)
  <2>1. PICK p \in LineEnds(len - 1) :
          /\ First(LineEnds(len - 1), p)
          /\ headers' = Append(headers, <<name, <<previous, p>>>>)
          /\ i' = p + 2 /\ previous' = p + 2 /\ Reads(p + 1)
    OBVIOUS
  <2>2. p \in i .. len - 2 /\ text[p] = CR /\ text[p + 1] = LF
    BY <2>1 DEF LineEnds, TypeOK
  <2> QED BY <2>1, <2>2
<1>2. /\ fn = "get_headers" /\ moved = 0 /\ i = previous
      /\ name[1] = HeaderStart(Len(headers)) /\ name[1] <= name[2]
      /\ text[name[2]] = Colon /\ Without(Colon, name[1] + 1, name[2])
      /\ previous = name[2] + 2
  BY DEF ScanInv
<1>3. /\ p \in 0 .. len - 2 /\ len \in Nat /\ i \in Nat /\ previous \in Nat
      /\ reach' \in 0 .. len + 2 /\ previous <= p
  <2>1. i \in Nat /\ len \in Nat /\ previous \in Nat /\ reach \in 0 .. len + 2
    BY DEF TypeOK
  <2>2. p \in 0 .. len - 2 /\ previous <= p
    BY <1>1, <1>2, <2>1
  <2> QED BY <1>1, <2>1, <2>2 DEF Reads
<1>4. <<name, <<previous, p>>>> \in Ranges \X Ranges
  <2>1. previous \in 0 .. BufLen /\ p \in 0 .. BufLen
    BY <1>3, HeadersAssumption DEF TypeOK
  <2>2. <<previous, p>> \in Ranges
    BY <2>1 DEF Ranges
  <2> QED BY <2>2 DEF TypeOK
<1> DEFINE new == Len(headers) + 1
<1>5. /\ headers' \in Seq(Ranges \X Ranges) /\ Len(headers') = new
      /\ headers'[new] = <<name, <<previous, p>>>>
      /\ \A k \in 1 .. Len(headers) : headers'[k] = headers[k]
  <2> DEFINE e == <<name, <<previous, p>>>>
             S == Ranges \X Ranges
  <2>1. headers' = Append(headers, e) /\ e \in S /\ headers \in Seq(S)
    BY <1>1, <1>4 DEF TypeOK
  <2> HIDE DEF e, S
  <2>2. headers \in Seq(S) /\ e \in S
    BY <2>1
  <2>3. /\ Append(headers, e) \in Seq(S)
        /\ Len(Append(headers, e)) = Len(headers) + 1
        /\ Append(headers, e)[Len(headers) + 1] = e
        /\ \A k \in 1 .. Len(headers) : Append(headers, e)[k] = headers[k]
    BY <2>2, Appended
  <2> QED BY <2>1, <2>3 DEF e, S
<1>6. Len(headers) \in Nat
  BY DEF TypeOK
<1>7. headers'[new][1] = name /\ headers'[new][2] = <<previous, p>> /\ headers'[new][2][2] = p
  BY <1>5
<1>8. TypeOK'
  <2>1. i' \in 0 .. len + 1 /\ previous' \in 0 .. len + 2
    BY <1>1, <1>3
  <2>2. UNCHANGED <<fn, text, len, pieces, name, length, moved>> /\ pc' = "add"
    OBVIOUS
  <2> QED BY <1>3, <1>5, <2>1, <2>2 DEF TypeOK
<1>9. ScanInv'
  <2>1. HeaderStart(Len(headers))' = p + 2
    BY <1>5, <1>6, <1>7 DEF HeaderStart
  <2>2. headers' # <<>>
    BY <1>5, <1>6
  <2> QED BY <1>1, <1>2, <1>3, <2>1, <2>2 DEF ScanInv
<1>10. SlotInv' /\ SlotsAllocated'
  <2>1. Len(headers) + 2 <= length /\ length \in Nat /\ length >= 2 /\ Len(headers) <= i
    BY DEF SlotInv, TypeOK
  <2>2. Len(headers') + 1 <= length /\ Len(headers') <= i'
    <3>1. Len(headers) + 1 <= i + 2 /\ i <= p
      BY <2>1, <1>1, <1>3, <1>6
    <3> QED BY <2>1, <3>1, <1>1, <1>3, <1>5, <1>6
  <2>3. length' = length /\ pc' = "add"
    OBVIOUS
  <2>4. Len(headers') <= length
    BY <2>1, <1>5, <1>6
  <2> QED BY <2>1, <2>2, <2>3, <2>4 DEF SlotInv, SlotsAllocated
<1>11. OverreadIsBounded'
  BY <1>1, <1>2, <1>3 DEF OverreadIsBounded, Reads, TypeOK
<1>12. HeadersTile'
  <2> SUFFICES ASSUME NEW k \in 1 .. new
               PROVE  LET n == headers'[k][1]
                          v == headers'[k][2]
                      IN  /\ n[1] = IF k = 1 THEN 0 ELSE headers'[k - 1][2][2] + 2
                          /\ n[1] <= n[2] /\ text[n[2]] = Colon /\ Without(Colon, n[1] + 1, n[2])
                          /\ v[1] = n[2] + 2
                          /\ v[1] <= v[2] /\ LineEnd(v[2]) /\ WithoutLineEnd(v[1], v[2])
    BY <1>5 DEF HeadersTile, LineEnd, Without, WithoutLineEnd
  <2>1. CASE k # new
    <3>1. k \in 1 .. Len(headers) /\ (k # 1 => k - 1 \in 1 .. Len(headers))
      BY <2>1, <1>6
    <3>2. headers'[k] = headers[k] /\ (k # 1 => headers'[k - 1] = headers[k - 1])
      BY <3>1, <1>5
    <3> QED BY <3>1, <3>2 DEF HeadersTile
  <2>2. CASE k = new
    <3>1. k # 1 => k - 1 = Len(headers) /\ headers'[k - 1] = headers[k - 1]
      BY <2>2, <1>5, <1>6
    <3>2. name[1] = IF k = 1 THEN 0 ELSE headers'[k - 1][2][2] + 2
      BY <2>2, <3>1, <1>2, <1>6 DEF HeaderStart
    <3>3. LineEnd(p) /\ WithoutLineEnd(previous, p)
      <4>1. LineEnd(p)
        BY <1>1, <1>3 DEF LineEnd
      <4>2. ASSUME NEW q \in previous .. p - 1, LineEnd(q) PROVE FALSE
        <5>1. q \in LineEnds(len - 1)
          BY <4>2, <1>2, <1>3 DEF LineEnd, LineEnds
        <5> QED BY <1>1, <1>3, <5>1 DEF First
      <4> QED BY <4>1, <4>2 DEF WithoutLineEnd
    <3>4. headers'[k][1] = name /\ headers'[k][2][1] = previous /\ headers'[k][2][2] = p
      BY <2>2, <1>5
    <3> QED BY <3>2, <3>3, <3>4, <1>2, <1>3
  <2> QED BY <2>1, <2>2
<1> QED BY <1>8, <1>9, <1>10, <1>11, <1>12

LEMMA AddIInv ==
    ASSUME IInv, NextHeader \/ LastHeader
    PROVE  IInv'
<1> USE DEF IInv, request
<1>1. /\ fn' = fn /\ text' = text /\ len' = len /\ pieces' = pieces
      /\ name' = name /\ headers' = headers /\ length' = length
      /\ pc = "add" /\ ReadsBlankLine
  BY DEF NextHeader, LastHeader
<1>2. /\ fn = "get_headers" /\ moved = 0 /\ headers # <<>>
      /\ i = previous /\ i = HeaderStart(Len(headers)) /\ i \in 0 .. len
      /\ len \in Nat /\ length \in Nat /\ Len(headers) + 1 <= length
  BY <1>1 DEF ScanInv, SlotInv, TypeOK
<1>3. reach' \in 0 .. len + 2 /\ (text[i] = CR => i + 2 <= reach')
  BY <1>1, <1>2 DEF ReadsBlankLine, Reads, TypeOK
<1>4. HeadersTile'
  BY <1>1 DEF HeadersTile, LineEnd, Without, WithoutLineEnd
<1>5. CASE NextHeader
  <2>1. i' = i + 1 /\ previous' = i /\ moved' = 0 /\ pc' = "name"
    BY <1>2, <1>5 DEF NextHeader
  <2>2. TypeOK'
    BY <1>1, <1>2, <1>3, <2>1 DEF TypeOK
  <2>3. ScanInv' /\ SlotInv' /\ SlotsAllocated'
    <3>1. HeaderStart(Len(headers))' = i
      BY <1>1, <1>2 DEF HeaderStart
    <3>2. ScanInv'
      BY <1>1, <1>2, <2>1, <3>1 DEF ScanInv
    <3>3. SlotInv' /\ SlotsAllocated'
      BY <1>1, <1>2, <2>1 DEF SlotInv, SlotsAllocated, TypeOK
    <3> QED BY <3>2, <3>3
  <2>4. OverreadIsBounded'
    BY <1>1, <1>2, <1>3, <2>1 DEF OverreadIsBounded
  <2> QED BY <1>4, <2>2, <2>3, <2>4
<1>6. CASE LastHeader
  <2>1. /\ i' = i /\ previous' = i + 2 /\ moved' = i + 2 /\ pc' = "end"
        /\ text[i] = CR
    BY <1>6 DEF LastHeader, BlankLine
  <2>2. TypeOK'
    BY <1>1, <1>2, <1>3, <2>1 DEF TypeOK
  <2>3. ScanInv' /\ SlotInv' /\ SlotsAllocated'
    BY <1>1, <1>2, <2>1 DEF ScanInv, SlotInv, SlotsAllocated, TypeOK
  <2>4. OverreadIsBounded'
    BY <1>1, <1>2, <1>3, <2>1 DEF OverreadIsBounded
  <2> QED BY <1>4, <2>2, <2>3, <2>4
<1> QED BY <1>5, <1>6

LEMMA StutterIInv == IInv /\ UNCHANGED vars => IInv'
BY DEF vars, request, IInv, TypeOK, ScanInv, SlotInv, HeaderStart, HeadersTile, LineEnd,
       Without, WithoutLineEnd, SlotsAllocated, OverreadIsBounded

LEMMA Inductive == Spec => []IInv
<1>1. IInv /\ [Next]_vars => IInv'
  BY WordIInv, VersionIInv, ErrorIInv, NameIInv, ValueIInv, AddIInv, StutterIInv DEF Next
<1> QED BY <1>1, InitIInv, PTL DEF Spec

-----------------------------------------------------------------------------
(* Complete requests                                                       *)

\* How far get_method() is in a request line whose spaces are at a and b.
MethodAt(a, b, e) ==
    \/ pc = "type" /\ i = 0 /\ previous = 0 /\ pieces = <<>> /\ reach = 0
    \/ /\ pc = "url" /\ i = a + 1 /\ previous = a + 1 /\ reach = a + 1
       /\ pieces = <<<<0, a>>>>
    \/ /\ pc = "version" /\ i = b + 1 /\ previous = b + 1 /\ reach = b + 1
       /\ pieces = <<<<0, a>>, <<a + 1, b>>>>
    \/ /\ pc = "end" /\ moved = e + 2 /\ reach = e + 2
       /\ pieces = <<<<0, a>>, <<a + 1, b>>, <<b + 1, e>>>>

MethodInv ==
    fn = "get_method" =>
        \A a, b, e \in 0 .. len - 1 : RequestLine(a, b, e) => MethodAt(a, b, e)

LEMMA AppendToOne ==
    ASSUME NEW x, NEW y
    PROVE  Append(<<x>>, y) = <<x, y>>
<1>1. <<x>> \in Seq({x, y}) /\ <<x, y>> \in Seq({x, y})
  OBVIOUS
<1>2. Append(<<x>>, y) \in Seq({x, y}) /\ Len(Append(<<x>>, y)) = 2
  BY <1>1
<1>3. \A k \in 1 .. 2 : Append(<<x>>, y)[k] = <<x, y>>[k]
  BY <1>1
<1> QED BY <1>1, <1>2, <1>3, SeqEqual

LEMMA AppendToTwo ==
    ASSUME NEW x, NEW y, NEW z
    PROVE  Append(<<x, y>>, z) = <<x, y, z>>
<1>1. <<x, y>> \in Seq({x, y, z}) /\ <<x, y, z>> \in Seq({x, y, z})
  OBVIOUS
<1>2. Append(<<x, y>>, z) \in Seq({x, y, z}) /\ Len(Append(<<x, y>>, z)) = 3
  BY <1>1
<1>3. \A k \in 1 .. 3 : Append(<<x, y>>, z)[k] = <<x, y, z>>[k]
  BY <1>1
<1> QED BY <1>1, <1>2, <1>3, SeqEqual

LEMMA MethodStep ==
    ASSUME IInv, MethodInv, [Next]_vars
    PROVE  MethodInv'
<1> SUFFICES ASSUME fn' = "get_method",
                    NEW a \in 0 .. len - 1, NEW b \in 0 .. len - 1, NEW e \in 0 .. len - 1,
                    RequestLine(a, b, e)
             PROVE  MethodAt(a, b, e)'
  <2>1. fn' = fn /\ text' = text /\ len' = len
    BY DEF Next, Word, Version, MethodError, Name, Value, NextHeader, LastHeader,
           HeadersError, vars, request
  <2>2. \A a, b, e \in 0 .. len - 1 : RequestLine(a, b, e)' <=> RequestLine(a, b, e)
    BY <2>1 DEF RequestLine, LineEnd, WithoutLineEnd, Without
  <2> QED BY <2>1, <2>2 DEF MethodInv
<1>1. fn = "get_method"
  BY DEF Next, Word, Version, MethodError, Name, Value, NextHeader, LastHeader,
         HeadersError, vars, request
<1>2. /\ len \in Nat /\ e + 1 < len /\ text[e] = CR /\ text[e + 1] = LF
      /\ a < b /\ b < e /\ text[a] = SP /\ text[b] = SP
      /\ \A q \in 0 .. a - 1 : text[q] # SP
      /\ \A q \in a + 1 .. b - 1 : text[q] # SP
      /\ \A q \in 0 .. e - 1 : ~LineEnd(q)
  BY DEF RequestLine, LineEnd, Without, WithoutLineEnd, IInv, TypeOK
<1>3. MethodAt(a, b, e)
  BY <1>1 DEF MethodInv
<1>4. CASE Word("type", "url")
  <2>1. pc = "type" /\ i = 0 /\ previous = 0 /\ pieces = <<>> /\ reach = 0
    BY <1>3, <1>4 DEF MethodAt, Word
  <2>2. PICK p \in Occurrences(SP, len) :
          /\ First(Occurrences(SP, len), p) /\ pieces' = Append(pieces, <<previous, p>>)
          /\ i' = p + 1 /\ previous' = p + 1 /\ Reads(p) /\ pc' = "url"
    BY <1>4 DEF Word
  <2>3. a \in Occurrences(SP, len)
    BY <1>2, <2>1 DEF Occurrences
  <2>4. p = a
    BY <1>2, <2>1, <2>2, <2>3 DEF First, Occurrences
  <2>5. pieces' = <<<<0, a>>>>
    BY <2>1, <2>2, <2>4
  <2> QED BY <2>1, <2>2, <2>4, <2>5 DEF MethodAt, Reads
<1>5. CASE Word("url", "version")
  <2>1. /\ pc = "url" /\ i = a + 1 /\ previous = a + 1 /\ reach = a + 1
        /\ pieces = <<<<0, a>>>>
    BY <1>3, <1>5 DEF MethodAt, Word
  <2>2. PICK p \in Occurrences(SP, len) :
          /\ First(Occurrences(SP, len), p) /\ pieces' = Append(pieces, <<previous, p>>)
          /\ i' = p + 1 /\ previous' = p + 1 /\ Reads(p) /\ pc' = "version"
    BY <1>5 DEF Word
  <2>3. b \in Occurrences(SP, len)
    BY <1>2, <2>1 DEF Occurrences
  <2>4. p = b
    BY <1>2, <2>1, <2>2, <2>3 DEF First, Occurrences
  <2>5. pieces' = <<<<0, a>>, <<a + 1, b>>>>
    <3>1. pieces' = Append(<<<<0, a>>>>, <<a + 1, b>>)
      BY <2>1, <2>2, <2>4
    <3> QED BY <3>1, AppendToOne, Zenon
  <2>6. reach' = b + 1
    BY <1>2, <2>1, <2>2, <2>4 DEF Reads
  <2> QED BY <2>2, <2>4, <2>5, <2>6 DEF MethodAt
<1>6. CASE Version
  <2>1. /\ pc = "version" /\ i = b + 1 /\ previous = b + 1 /\ reach = b + 1
        /\ pieces = <<<<0, a>>, <<a + 1, b>>>>
    BY <1>3, <1>6 DEF MethodAt, Version
  <2>2. PICK p \in LineEnds(len) :
          /\ First(LineEnds(len), p) /\ pieces' = Append(pieces, <<previous, p>>)
          /\ moved' = p + 2 /\ Reads(p + 1) /\ pc' = "end"
    BY <1>6 DEF Version
  <2>3. e \in LineEnds(len)
    BY <1>2, <2>1 DEF LineEnds
  <2>4. p <= e /\ p \in b + 1 .. len - 1 /\ text[p] = CR /\ text[p + 1] = LF
    BY <2>1, <2>2, <2>3 DEF First, LineEnds
  <2>5. p = e
    <3>1. CASE p < e
      <4>1. p \in 0 .. e - 1 /\ LineEnd(p)
        BY <1>2, <2>4, <3>1 DEF LineEnd
      <4> QED BY <1>2, <4>1
    <3> QED BY <2>4, <3>1
  <2>6. pieces' = <<<<0, a>>, <<a + 1, b>>, <<b + 1, e>>>>
    <3>1. pieces' = Append(<<<<0, a>>, <<a + 1, b>>>>, <<b + 1, e>>)
      BY <2>1, <2>2, <2>5
    <3> QED BY <3>1, AppendToTwo, Zenon
  <2>7. reach' = e + 2
    BY <1>2, <2>1, <2>2, <2>5 DEF Reads
  <2> QED BY <2>2, <2>5, <2>6, <2>7 DEF MethodAt
<1>7. ~MethodError
  <2>1. pc = "type" => a \in Occurrences(SP, len)
    BY <1>2, <1>3 DEF MethodAt, Occurrences
  <2>2. pc = "url" => b \in Occurrences(SP, len)
    BY <1>2, <1>3 DEF MethodAt, Occurrences
  <2>3. pc = "version" => e \in LineEnds(len)
    BY <1>2, <1>3 DEF MethodAt, LineEnds
  <2> QED BY <2>1, <2>2, <2>3 DEF MethodError
<1>8. ~(Name \/ Value \/ NextHeader \/ LastHeader \/ HeadersError)
  BY <1>1 DEF IInv, ScanInv, Name, Value, NextHeader, LastHeader, HeadersError
<1>9. CASE UNCHANGED vars
  BY <1>3, <1>9 DEF vars, MethodAt
<1> QED BY <1>4, <1>5, <1>6, <1>7, <1>8, <1>9 DEF Next

LEMMA InitMethodInv == Init => MethodInv
BY DEF Init, MethodInv, MethodAt

LEMMA MethodInvResult == IInv /\ MethodInv => RequestLineParsed
<1> SUFFICES ASSUME IInv, MethodInv, fn = "get_method", pc \in {"end", "error"},
                    NEW e \in 0 .. len - 1, NEW a \in 0 .. e - 1, NEW b \in 0 .. e - 1,
                    RequestLine(a, b, e)
             PROVE  /\ pc = "end" /\ moved = e + 2 /\ reach = e + 2
                    /\ pieces = <<<<0, a>>, <<a + 1, b>>, <<b + 1, e>>>>
  BY DEF RequestLineParsed
<1>1. a \in 0 .. len - 1 /\ b \in 0 .. len - 1
  BY DEF IInv, TypeOK
<1>2. MethodAt(a, b, e)
  BY <1>1 DEF MethodInv
<1> QED BY <1>2 DEF MethodAt

\* Every complete request line is taken apart at its first two spaces.
THEOREM RequestLinesAreParsed == Spec => []RequestLineParsed
<1>1. IInv /\ MethodInv /\ [Next]_vars => MethodInv'
  BY MethodStep
<1> QED BY <1>1, InitMethodInv, Inductive, MethodInvResult, PTL DEF Spec

-----------------------------------------------------------------------------
(* Complete blocks of headers                                              *)

\* The header lines that begin before byte n have given their headers.
Covered(n) ==
    \A s \in HeaderLines : s < n => \E k \in 1 .. Len(headers) : headers[k][1][1] = s

LineOf(k) == HeaderLine(headers[k][1][1], headers[k][1][2], headers[k][2][2])

BlockInv ==
    fn = "get_headers" /\ WellFormed =>
        /\ pc # "error"
        /\ \A k \in 1 .. Len(headers) : LineOf(k)
        /\ pc = "name" =>
              previous \in HeaderLines /\ Covered(previous) /\ reach <= previous + 2
        /\ pc = "value" =>
              /\ name[1] \in HeaderLines /\ Covered(name[1]) /\ reach <= i
              /\ \E e \in 0 .. len - 1 : HeaderLine(name[1], name[2], e)
        /\ pc = "add" => Covered(i) /\ reach = i
        /\ pc = "end" =>
              /\ Covered(moved) /\ reach = moved
              /\ BlankAfter(moved - 4) /\ moved - 4 \in HeaderLineEnds

LEMMA InitBlockInv == Init => BlockInv
<1> SUFFICES ASSUME Init PROVE BlockInv
  OBVIOUS
<1>1. 0 \in HeaderLines /\ \A s \in HeaderLines : s >= 0
  BY HeadersAssumption DEF HeaderLines, HeaderLineEnds, Init
<1>2. Covered(0)
  BY <1>1 DEF Covered, HeaderLines, HeaderLineEnds
<1> QED BY <1>1, <1>2 DEF BlockInv, Init

\* The lines of a request do not change.
LEMMA LinesUnchanged ==
    ASSUME text' = text, len' = len
    PROVE  /\ HeaderLines' = HeaderLines /\ HeaderLineEnds' = HeaderLineEnds
           /\ WellFormed' = WellFormed
           /\ \A p : BlankAfter(p)' <=> BlankAfter(p)
           /\ \A s, c, e : HeaderLine(s, c, e)' <=> HeaderLine(s, c, e)
<1>1. \A p : LineEnd(p)' <=> LineEnd(p)
  BY DEF LineEnd
<1>2. \A p : BlankAfter(p)' <=> BlankAfter(p)
  BY <1>1 DEF BlankAfter
<1>3. HeaderLineEnds' = HeaderLineEnds
  BY <1>1, <1>2 DEF HeaderLineEnds
<1>4. HeaderLines' = HeaderLines
  BY <1>2, <1>3 DEF HeaderLines
<1>5. \A s, c, e : HeaderLine(s, c, e)' <=> HeaderLine(s, c, e)
  BY <1>1, <1>3 DEF HeaderLine, Without, WithoutLineEnd
<1>6. WellFormed' = WellFormed
  BY <1>2, <1>4, <1>5 DEF WellFormed
<1> QED BY <1>2, <1>3, <1>4, <1>5, <1>6

\* A header line is a line of bytes: the next one begins behind its end.
LEMMA LineIsWhole ==
    ASSUME len \in Nat, NEW s \in HeaderLines, NEW c, NEW e, HeaderLine(s, c, e),
           NEW t \in HeaderLines, s < t
    PROVE  t >= e + 2
<1>1. s \in Nat /\ t \in Nat /\ e \in 0 .. len - 1
  BY DEF HeaderLine, HeaderLines, HeaderLineEnds
<1>2. PICK q \in HeaderLineEnds : t = q + 2 /\ q \in 0 .. len - 1 /\ LineEnd(q)
  BY <1>1 DEF HeaderLines, HeaderLineEnds
<1>3. s = 0 \/ LineEnd(s - 2)
  BY <1>1 DEF HeaderLines, HeaderLineEnds
<1>4. q >= s
  <2>1. s - 1 = q => s # 0 /\ FALSE
    <3>1. s - 1 = q => s # 0 /\ text[s - 1] = CR
      BY <1>1, <1>2 DEF LineEnd
    <3>2. s # 0 => text[s - 2 + 1] = LF
      BY <1>3 DEF LineEnd
    <3>3. s - 2 + 1 = s - 1
      BY <1>1
    <3> QED BY <3>1, <3>2, <3>3, HeadersAssumption
  <2> QED BY <1>1, <1>2, <2>1
<1>5. ~(q \in s .. e - 1)
  BY <1>2 DEF HeaderLine, WithoutLineEnd
<1> QED BY <1>1, <1>2, <1>4, <1>5

\* At the start of a well-formed line the next colon is the one of the line.
LEMMA NextColon ==
    ASSUME IInv, pc = "name", previous \in HeaderLines, NEW c, NEW e,
           HeaderLine(previous, c, e), c \in Nat
    PROVE  /\ Continues /\ c \in Occurrences(Colon, len)
           /\ \A p \in Occurrences(Colon, len) : First(Occurrences(Colon, len), p) => p = c
<1>1. /\ len \in Nat /\ previous \in Nat /\ i \in Nat /\ i <= previous + 1
      /\ e \in 0 .. len - 1 /\ e + 1 < len
  BY DEF IInv, TypeOK, ScanInv, HeaderLine, HeaderLineEnds, LineEnd
<1>2. previous < c /\ c + 1 < e /\ text[c] = Colon
  BY DEF HeaderLine
<1>3. c \in Occurrences(Colon, len)
  BY <1>1, <1>2 DEF Occurrences
<1>4. i >= previous
  BY <1>1 DEF IInv, TypeOK, ScanInv, HeaderStart
<1>5. ASSUME NEW p \in Occurrences(Colon, len), First(Occurrences(Colon, len), p)
      PROVE  p = c
  <2>1. p <= c /\ p \in i .. len - 1 /\ text[p] = Colon
    BY <1>3, <1>5 DEF First, Occurrences
  <2>2. ~(p \in previous .. c - 1)
    BY <2>1 DEF HeaderLine, Without
  <2> QED BY <1>1, <1>2, <1>4, <2>1, <2>2
<1> QED BY <1>1, <1>2, <1>3, <1>5 DEF Continues

LEMMA NameBlock ==
    ASSUME IInv, BlockInv, fn = "get_headers", WellFormed, Name
    PROVE  BlockInv'
<1>1. /\ pc = "name" /\ previous \in HeaderLines /\ Covered(previous)
      /\ reach <= previous + 2 /\ \A k \in 1 .. Len(headers) : LineOf(k)
  BY DEF BlockInv, Name
<1>2. PICK c \in previous .. len - 1, e \in previous .. len - 1 : HeaderLine(previous, c, e)
  BY <1>1 DEF WellFormed
<1>3. /\ len \in Nat /\ previous \in Nat /\ reach \in Nat
      /\ c \in Nat /\ e \in 0 .. len - 1 /\ previous < c
  BY <1>2 DEF IInv, TypeOK, HeaderLine
<1>4. /\ name' = <<previous, c>> /\ i' = c + 2 /\ Reads(c)
      /\ pc' = "value" /\ headers' = headers /\ text' = text /\ len' = len
  BY <1>1, <1>2, <1>3, NextColon DEF Name, request
<1>5. reach' <= i'
  BY <1>1, <1>3, <1>4 DEF Reads
<1>6. Covered(name[1])'
  BY <1>1, <1>4, LinesUnchanged DEF Covered
<1>7. \A k \in 1 .. Len(headers') : LineOf(k)'
  BY <1>1, <1>4, LinesUnchanged DEF LineOf
<1>8. HeaderLine(name[1], name[2], e)' /\ name'[1] \in HeaderLines'
  BY <1>1, <1>2, <1>4, LinesUnchanged
<1> QED BY <1>3, <1>4, <1>5, <1>6, <1>7, <1>8 DEF BlockInv

LEMMA ValueBlock ==
    ASSUME IInv, BlockInv, fn = "get_headers", WellFormed, Value
    PROVE  BlockInv'
<1>1. /\ pc = "value" /\ name[1] \in HeaderLines /\ Covered(name[1])
      /\ reach <= i /\ \A k \in 1 .. Len(headers) : LineOf(k)
  BY DEF BlockInv, Value
<1>2. PICK e \in 0 .. len - 1 : HeaderLine(name[1], name[2], e)
  BY <1>1 DEF BlockInv
<1>3. /\ len \in Nat /\ reach \in Nat /\ i = name[2] + 2 /\ i \in Nat
      /\ name[1] \in Nat /\ name[2] \in Nat /\ previous = i /\ Len(headers) \in Nat
  BY <1>1 DEF IInv, TypeOK, ScanInv, Ranges
<1>4. /\ name[1] < name[2] /\ name[2] + 1 < e /\ e + 1 < len /\ text[e] = CR
      /\ text[e + 1] = LF /\ \A q \in name[1] .. e - 1 : ~LineEnd(q)
  BY <1>2 DEF HeaderLine, HeaderLineEnds, LineEnd, WithoutLineEnd
<1>5. PICK p \in LineEnds(len - 1) :
          /\ First(LineEnds(len - 1), p)
          /\ headers' = Append(headers, <<name, <<previous, p>>>>)
          /\ i' = p + 2 /\ Reads(p + 1)
  BY DEF Value
<1>6. p = e
  <2>1. e \in LineEnds(len - 1)
    BY <1>3, <1>4 DEF LineEnds
  <2>2. p <= e /\ p \in i .. len - 2 /\ LineEnd(p)
    BY <1>3, <1>5, <2>1 DEF First, LineEnds, LineEnd
  <2>3. ~(p \in name[1] .. e - 1)
    BY <1>4, <2>2
  <2> QED BY <1>3, <1>4, <2>2, <2>3
<1>7. /\ pc' = "add" /\ text' = text /\ len' = len /\ name' = name
  BY DEF Value, request
<1>8. reach' = i'
  BY <1>1, <1>3, <1>4, <1>5, <1>6 DEF Reads
<1>9. /\ Len(headers') = Len(headers) + 1
      /\ headers'[Len(headers) + 1] = <<name, <<previous, e>>>>
      /\ \A k \in 1 .. Len(headers) : headers'[k] = headers[k]
  <2> DEFINE h == <<name, <<previous, e>>>>
  <2>1. headers' = Append(headers, h) /\ headers \in Seq(Ranges \X Ranges)
    BY <1>5, <1>6 DEF IInv, TypeOK
  <2> HIDE DEF h
  <2>2. /\ Len(Append(headers, h)) = Len(headers) + 1
        /\ Append(headers, h)[Len(headers) + 1] = h
        /\ \A k \in 1 .. Len(headers) : Append(headers, h)[k] = headers[k]
    BY <2>1
  <2> QED BY <2>1, <2>2 DEF h
<1>10. \A k \in 1 .. Len(headers') : LineOf(k)'
  <2> SUFFICES ASSUME NEW k \in 1 .. Len(headers) + 1 PROVE LineOf(k)'
    BY <1>9
  <2>1. CASE k \in 1 .. Len(headers)
    BY <1>1, <1>7, <1>9, <2>1, LinesUnchanged DEF LineOf
  <2>2. CASE k = Len(headers) + 1
    BY <1>2, <1>7, <1>9, <2>2, LinesUnchanged DEF LineOf
  <2> QED BY <1>3, <2>1, <2>2
<1>11. Covered(i)'
  <2>1. HeaderLines' = HeaderLines
    BY <1>7, LinesUnchanged
  <2> SUFFICES ASSUME NEW s \in HeaderLines, s < e + 2
               PROVE  \E k \in 1 .. Len(headers') : headers'[k][1][1] = s
    BY <1>5, <1>6, <2>1 DEF Covered
  <2>2. s \in Nat
    BY <1>3 DEF HeaderLines, HeaderLineEnds
  <2>3. CASE s < name[1]
    <3>1. PICK k \in 1 .. Len(headers) : headers[k][1][1] = s
      BY <1>1, <2>3 DEF Covered
    <3>2. k \in 1 .. Len(headers') /\ headers'[k][1][1] = s
      BY <1>3, <1>9, <3>1
    <3> QED BY <3>2
  <2>4. CASE s = name[1]
    <3>1. headers'[Len(headers) + 1][1][1] = s /\ Len(headers) + 1 \in 1 .. Len(headers')
      BY <1>3, <1>9, <2>4
    <3> QED BY <3>1
  <2>5. CASE name[1] < s
    BY <1>1, <1>2, <1>3, <2>2, <2>5, LineIsWhole
  <2> QED BY <1>3, <2>2, <2>3, <2>4, <2>5
<1> QED BY <1>7, <1>8, <1>10, <1>11 DEF BlockInv

LEMMA AddBlock ==
    ASSUME IInv, BlockInv, fn = "get_headers", WellFormed, NextHeader \/ LastHeader
    PROVE  BlockInv'
<1>1. /\ pc = "add" /\ text' = text /\ len' = len /\ headers' = headers
      /\ ReadsBlankLine
  BY DEF NextHeader, LastHeader, request
<1>2. Covered(i) /\ reach = i /\ \A k \in 1 .. Len(headers) : LineOf(k)
  BY <1>1 DEF BlockInv
<1> DEFINE e == headers[Len(headers)][2][2]
<1>3. /\ e \in HeaderLineEnds /\ i = e + 2 /\ len \in Nat /\ i \in Nat
      /\ e \in 0 .. len - 1 /\ LineEnd(e) /\ \A q \in 0 .. e - 1 : ~BlankAfter(q)
  <2>1. headers # <<>> /\ i = HeaderStart(Len(headers)) /\ headers \in Seq(Ranges \X Ranges)
        /\ len \in Nat /\ i \in Nat
    BY <1>1 DEF IInv, ScanInv, TypeOK
  <2>2. Len(headers) \in 1 .. Len(headers)
    BY <2>1
  <2>3. e \in HeaderLineEnds
    BY <1>2, <2>2 DEF LineOf, HeaderLine
  <2>4. i = e + 2
    BY <2>1, <2>2 DEF HeaderStart
  <2> QED BY <2>1, <2>3, <2>4 DEF HeaderLineEnds
<1>4. \A k \in 1 .. Len(headers') : LineOf(k)'
  BY <1>1, <1>2, LinesUnchanged DEF LineOf
<1> HIDE DEF e
<1>5. CASE BlankAfter(e)
  <2>1. LineEnd(i)
    BY <1>3, <1>5 DEF BlankAfter
  <2>2. LastHeader
    BY <2>1 DEF NextHeader, BlankLine, LineEnd
  <2>3. /\ pc' = "end" /\ moved' = i + 2 /\ reach' = i + 2
    BY <1>1, <1>2, <1>3, <2>1, <2>2 DEF LastHeader, ReadsBlankLine, Reads, LineEnd
  <2>4. ASSUME NEW s \in HeaderLines PROVE s < i
    <3>1. CASE s = 0
      BY <1>3, <3>1
    <3>2. CASE s # 0
      <4>1. PICK q \in HeaderLineEnds : s = q + 2 /\ ~BlankAfter(q)
        BY <3>2 DEF HeaderLines
      <4>2. q \in 0 .. len - 1 /\ ~(e \in 0 .. q - 1)
        BY <1>5, <4>1 DEF HeaderLineEnds
      <4>3. q # e
        BY <1>5, <4>1
      <4> QED BY <1>3, <4>1, <4>2, <4>3
    <3> QED BY <3>1, <3>2
  <2>5. Covered(moved)'
    BY <1>1, <1>2, <2>4, LinesUnchanged DEF Covered
  <2>6. moved' - 4 = e
    BY <1>3, <2>3
  <2>7. BlankAfter(moved - 4)' /\ (moved - 4 \in HeaderLineEnds)'
    <3>1. e \in HeaderLineEnds'
      BY <1>1, <1>3, LinesUnchanged
    <3>2. BlankAfter(moved - 4)'
      BY <1>1, <1>5, <2>6 DEF BlankAfter, LineEnd
    <3> QED BY <2>6, <3>1, <3>2
  <2> QED BY <1>4, <2>3, <2>5, <2>7 DEF BlockInv
<1>6. CASE ~BlankAfter(e)
  <2>1. i \in HeaderLines
    BY <1>3, <1>6 DEF HeaderLines
  <2>2. ~BlankLine
    <3> SUFFICES ASSUME BlankLine PROVE FALSE
      OBVIOUS
    <3>1. PICK p \in 0 .. len - 1 : BlankAfter(p)
      BY DEF WellFormed
    <3>2. p > e
      BY <1>3, <1>6, <3>1
    <3>3. text[e + 1] = LF /\ text[p] = CR /\ p + 3 < len
      BY <1>3, <3>1 DEF BlankAfter, LineEnd
    <3>4. p # e + 1
      BY <3>3, HeadersAssumption
    <3>5. i + 1 < len
      BY <1>3, <3>2, <3>3, <3>4
    <3>6. LineEnd(i)
      BY <3>5 DEF BlankLine, LineEnd
    <3> QED BY <1>3, <1>6, <3>6 DEF BlankAfter
  <2>3. NextHeader
    BY <2>2 DEF LastHeader
  <2>4. pc' = "name" /\ previous' = i
    <3>1. previous = i
      BY <1>1 DEF IInv, ScanInv
    <3> QED BY <2>3, <3>1 DEF NextHeader
  <2>5. reach' <= i + 2
    BY <1>1, <1>2, <1>3 DEF ReadsBlankLine, Reads
  <2>6. Covered(previous)' /\ previous' \in HeaderLines'
    BY <1>1, <1>2, <2>1, <2>4, LinesUnchanged DEF Covered
  <2> QED BY <1>4, <2>4, <2>5, <2>6 DEF BlockInv
<1> QED BY <1>5, <1>6

LEMMA NoHeadersError ==
    ASSUME IInv, BlockInv, fn = "get_headers", WellFormed
    PROVE  ~HeadersError
<1>1. CASE pc = "name"
  <2>1. previous \in HeaderLines
    BY <1>1 DEF BlockInv
  <2>2. PICK c \in previous .. len - 1, e \in previous .. len - 1 : HeaderLine(previous, c, e)
    BY <2>1 DEF WellFormed
  <2>3. c \in Nat
    BY DEF IInv, TypeOK
  <2>4. Continues /\ Occurrences(Colon, len) # {}
    BY <1>1, <2>1, <2>2, <2>3, NextColon
  <2> QED BY <1>1, <2>4 DEF HeadersError
<1>2. CASE pc = "value"
  <2>1. PICK e \in 0 .. len - 1 : HeaderLine(name[1], name[2], e)
    BY <1>2 DEF BlockInv
  <2>2. /\ i = name[2] + 2 /\ len \in Nat /\ name[2] \in Nat
    BY <1>2 DEF IInv, ScanInv, TypeOK, Ranges
  <2>3. name[2] + 1 < e /\ e + 1 < len /\ text[e] = CR /\ text[e + 1] = LF
    BY <2>1 DEF HeaderLine, HeaderLineEnds, LineEnd
  <2>4. e \in LineEnds(len - 1)
    BY <2>2, <2>3 DEF LineEnds
  <2> QED BY <1>2, <2>4 DEF HeadersError
<1> QED BY <1>1, <1>2 DEF HeadersError

LEMMA BlockStep ==
    ASSUME IInv, BlockInv, [Next]_vars
    PROVE  BlockInv'
<1>1. fn' = fn /\ text' = text /\ len' = len
  BY DEF Next, Word, Version, MethodError, Name, Value, NextHeader, LastHeader,
         HeadersError, vars, request
<1>2. CASE fn = "get_headers" /\ WellFormed
  <2>1. ~(Word("type", "url") \/ Word("url", "version") \/ Version \/ MethodError)
    BY <1>2 DEF IInv, ScanInv, Word, Version, MethodError
  <2>2. CASE UNCHANGED vars
    <3>1. Covered(previous)' = Covered(previous)
      BY <1>1, <2>2, LinesUnchanged DEF Covered, vars
    <3>2. Covered(name[1])' = Covered(name[1])
      BY <1>1, <2>2, LinesUnchanged DEF Covered, vars
    <3>3. Covered(i)' = Covered(i)
      BY <1>1, <2>2, LinesUnchanged DEF Covered, vars
    <3>4. Covered(moved)' = Covered(moved)
      BY <1>1, <2>2, LinesUnchanged DEF Covered, vars
    <3>5. \A k : LineOf(k)' <=> LineOf(k)
      BY <1>1, <2>2, LinesUnchanged DEF LineOf, vars
    <3>6. BlankAfter(moved - 4)' = BlankAfter(moved - 4)
      BY <2>2 DEF BlankAfter, LineEnd, vars, request
    <3> QED BY <1>1, <1>2, <2>2, <3>1, <3>2, <3>3, <3>4, <3>5, <3>6, LinesUnchanged
            DEF BlockInv, vars
  <2> QED BY <1>2, <2>1, <2>2, NameBlock, ValueBlock, AddBlock, NoHeadersError DEF Next
<1>3. CASE ~(fn = "get_headers" /\ WellFormed)
  BY <1>1, <1>3, LinesUnchanged DEF BlockInv
<1> QED BY <1>2, <1>3

LEMMA BlockResult == IInv /\ BlockInv => HeadersParsed
<1> SUFFICES ASSUME IInv, BlockInv, fn = "get_headers", pc \in {"end", "error"}, WellFormed
             PROVE  HeadersParsed
  BY DEF HeadersParsed
<1>1. /\ pc = "end" /\ Covered(moved) /\ reach = moved
      /\ BlankAfter(moved - 4) /\ moved - 4 \in HeaderLineEnds
      /\ \A k \in 1 .. Len(headers) : LineOf(k)
  BY DEF BlockInv
<1>2. \A k \in 1 .. Len(headers) : headers[k][2][1] = headers[k][1][2] + 2
  BY DEF IInv, HeadersTile
<1>3. ASSUME NEW s \in HeaderLines PROVE s < moved
  <2>1. moved \in Nat /\ len \in Nat /\ moved - 4 \in 0 .. len - 1
    BY <1>1 DEF IInv, TypeOK, HeaderLineEnds
  <2>2. CASE s = 0
    BY <2>1, <2>2
  <2>3. CASE s # 0
    <3>1. PICK q \in HeaderLineEnds : s = q + 2 /\ ~BlankAfter(q)
      BY <2>3 DEF HeaderLines
    <3>2. q \in 0 .. len - 1 /\ ~(moved - 4 \in 0 .. q - 1)
      BY <1>1, <3>1 DEF HeaderLineEnds
    <3> QED BY <2>1, <3>1, <3>2
  <2> QED BY <2>2, <2>3
<1>4. \A s \in HeaderLines : \E k \in 1 .. Len(headers) : headers[k][1][1] = s
  BY <1>1, <1>3 DEF Covered
<1> QED BY <1>1, <1>2, <1>4 DEF HeadersParsed, LineOf

\* Every complete block of well-formed header lines is accepted, gives one
\* header for each line, and nothing behind it is read.
THEOREM HeaderBlocksAreParsed == Spec => []HeadersParsed
<1>1. IInv /\ BlockInv /\ [Next]_vars => BlockInv'
  BY BlockStep
<1> QED BY <1>1, InitBlockInv, Inductive, BlockResult, PTL DEF Spec

-----------------------------------------------------------------------------

\* The type invariant.
THEOREM TypeCorrect == Spec => []TypeOK
BY Inductive, PTL DEF IInv

\* For every request, the headers are adjacent pieces of it.
THEOREM HeadersAreAdjacent == Spec => []HeadersTile
BY Inductive, PTL DEF IInv

\* For every initial size and growth of at least two slots, and every
\* request, no header and no terminator is written outside the array.
THEOREM SlotsSuffice == Spec => []SlotsAllocated
BY Inductive, PTL DEF IInv

\* At most two bytes behind any request are read.
THEOREM OverreadByTwo == Spec => []OverreadIsBounded
BY Inductive, PTL DEF IInv

=============================================================================
