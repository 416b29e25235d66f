------------------------------ MODULE Headers ------------------------------
(***************************************************************************)
(* parsers/headers.c: get_method() and get_headers() scan the bytes of a   *)
(* request and copy the pieces between the separators.  A piece is modelled *)
(* by the range <<from, to>> of the bytes that are copied (to excluded).   *)
(* The memory behind the request_length bytes of the request holds bytes,  *)
(* too, and nothing says which.                                            *)
(***************************************************************************)
EXTENDS Integers, Sequences

CONSTANTS SP, Colon, CR, LF, Other,     \* the bytes the code tells apart
          BufLen,       \* bytes of memory from the start of the request on
          Buffers,      \* what these bytes may be
          InitLen,      \* slots first allocated for headers, 30 in the code
          Grow          \* slots beyond the index when it grows, 10

Chars == {SP, Colon, CR, LF, Other}

ASSUME HeadersAssumption ==
    /\ SP \notin {Colon, CR, LF, Other} /\ Colon \notin {CR, LF, Other}
    /\ CR \notin {LF, Other} /\ LF # Other
    /\ BufLen \in Nat /\ BufLen >= 2
    /\ Buffers \subseteq [0 .. BufLen - 1 -> Chars]
    /\ InitLen \in Nat /\ InitLen >= 2
    /\ Grow \in Nat /\ Grow >= 2

VARIABLES
    fn,         \* the function called
    text,       \* the memory at *request
    len,        \* request_length
    pc,         \* the label reached
    i,          \* index of the byte looked at
    previous,   \* where the next piece begins
    pieces,     \* get_method: type, url and version as far as they are copied
    name,       \* aux.name
    headers,    \* the slots written, as <<name, value>>
    length,     \* slots allocated
    moved,      \* how far *request was moved
    reach       \* the end of the bytes read

request == <<fn, text, len>>
vars == <<request, pc, i, previous, pieces, name, headers, length, moved, reach>>

Init ==
    /\ text \in Buffers
    /\ len \in 0 .. BufLen - 2
    /\ \/ fn = "get_method" /\ pc = "type"
       \/ fn = "get_headers" /\ pc = "name"
    /\ i = 0 /\ previous = 0
    /\ pieces = <<>> /\ name = <<0, 0>> /\ headers = <<>>
    /\ length = InitLen
    /\ moved = 0 /\ reach = 0

Reads(p) == reach' = IF p >= reach THEN p + 1 ELSE reach

Occurrences(ch, to) == {p \in i .. to - 1 : text[p] = ch}
LineEnds(to) == {p \in i .. to - 1 : text[p] = CR /\ text[p + 1] = LF}
First(S, p) == p \in S /\ \A q \in S : p <= q

\* The last byte a scan for CR LF reads when it finds none.
EndOfScan(to) ==
    IF to <= i THEN -1 ELSE IF text[to - 1] = CR THEN to ELSE to - 1

-----------------------------------------------------------------------------
(* get_method                                                              *)

Word(here, next) ==
    /\ pc = here
    /\ \E p \in Occurrences(SP, len) :
          /\ First(Occurrences(SP, len), p)
          /\ pieces' = Append(pieces, <<previous, p>>)
          /\ i' = p + 1 /\ previous' = p + 1
          /\ Reads(p)
    /\ pc' = next
    /\ UNCHANGED <<request, name, headers, length, moved>>

\* Wrong: *request is moved to the end of the version.
VersionMovesShort ==
    /\ pc = "version"
    /\ \E p \in LineEnds(len) :
          /\ First(LineEnds(len), p)
          /\ pieces' = Append(pieces, <<previous, p>>)
          /\ i' = p /\ previous' = p + 2 /\ moved' = p
          /\ Reads(p + 1)
    /\ pc' = "end"
    /\ UNCHANGED <<request, name, headers, length>>

\* The byte after a CR is read even if it is behind the request.
Version ==
    /\ pc = "version"
    /\ \E p \in LineEnds(len) :
          /\ First(LineEnds(len), p)
          /\ pieces' = Append(pieces, <<previous, p>>)
          /\ i' = p /\ previous' = p + 2 /\ moved' = p + 2
          /\ Reads(p + 1)
    /\ pc' = "end"
    /\ UNCHANGED <<request, name, headers, length>>

MethodError ==
    /\ \/ pc \in {"type", "url"} /\ Occurrences(SP, len) = {} /\ Reads(len - 1)
       \/ pc = "version" /\ LineEnds(len) = {} /\ Reads(EndOfScan(len))
    /\ pc' = "error"
    /\ UNCHANGED <<request, i, previous, pieces, name, headers, length, moved>>

-----------------------------------------------------------------------------
(* get_headers                                                             *)

\* i < request_length - 1, where 0 - 1 is the greatest size_t.
Continues == i + 1 < len \/ len = 0

\* Wrong: the array grows when the headers fill it, without the terminator.
GrowLate ==
    length' = IF Len(headers) >= length THEN i + Grow ELSE length

\* The index of the byte, not the number of headers, decides about growth.
GrowHeaders ==
    length' = IF i >= length - 1 THEN i + Grow ELSE length

\* Wrong: the space after the colon is left to the value.
NameKeepsSpace ==
    /\ pc = "name" /\ Continues
    /\ \E p \in Occurrences(Colon, len) :
          /\ First(Occurrences(Colon, len), p)
          /\ name' = <<previous, p>>
          /\ i' = p + 1 /\ previous' = p + 1
          /\ Reads(p)
    /\ GrowHeaders
    /\ pc' = "value"
    /\ UNCHANGED <<request, pieces, headers, moved>>

\* The byte after the colon is taken to be a space.
Name ==
    /\ pc = "name" /\ Continues
    /\ \E p \in Occurrences(Colon, len) :
          /\ First(Occurrences(Colon, len), p)
          /\ name' = <<previous, p>>
          /\ i' = p + 2 /\ previous' = p + 2
          /\ Reads(p)
    /\ GrowHeaders
    /\ pc' = "value"
    /\ UNCHANGED <<request, pieces, headers, moved>>

\* Wrong: the scan goes on to the last byte of the request.
ValueToTheEnd ==
    /\ pc = "value"
    /\ \E p \in LineEnds(len) :
          /\ First(LineEnds(len), p)
          /\ headers' = Append(headers, <<name, <<previous, p>>>>)
          /\ i' = p + 2 /\ previous' = p + 2
          /\ Reads(p + 1)
    /\ pc' = "add"
    /\ UNCHANGED <<request, pieces, name, length, moved>>

\* The value is in the slot of the next header from here on.
Value ==
    /\ pc = "value"
    /\ \E p \in LineEnds(len - 1) :
          /\ First(LineEnds(len - 1), p)
          /\ headers' = Append(headers, <<name, <<previous, p>>>>)
          /\ i' = p + 2 /\ previous' = p + 2
          /\ Reads(p + 1)
    /\ pc' = "add"
    /\ UNCHANGED <<request, pieces, name, length, moved>>

BlankLine == text[i] = CR /\ text[i + 1] = LF

\* The bytes at i and i + 1 may be behind the request.
ReadsBlankLine == Reads(IF text[i] = CR THEN i + 1 ELSE i)

\* Wrong: the next name begins where the search for its colon begins.
NextHeaderSkips ==
    /\ pc = "add" /\ ~BlankLine
    /\ i' = i + 1 /\ previous' = i + 1
    /\ ReadsBlankLine
    /\ pc' = "name"
    /\ UNCHANGED <<request, pieces, name, headers, length, moved>>

\* The loop increments i: the first byte of a name is not compared.
NextHeader ==
    /\ pc = "add" /\ ~BlankLine
    /\ i' = i + 1
    /\ ReadsBlankLine
    /\ pc' = "name"
    /\ UNCHANGED <<request, previous, pieces, name, headers, length, moved>>

\* Wrong: *request is moved one byte too far.
LastHeaderMovesPast ==
    /\ pc = "add" /\ BlankLine
    /\ previous' = i + 3 /\ moved' = i + 3
    /\ ReadsBlankLine
    /\ pc' = "end"
    /\ UNCHANGED <<request, i, pieces, name, headers, length>>

LastHeader ==
    /\ pc = "add" /\ BlankLine
    /\ previous' = i + 2 /\ moved' = i + 2
    /\ ReadsBlankLine
    /\ pc' = "end"
    /\ UNCHANGED <<request, i, pieces, name, headers, length>>

HeadersError ==
    /\ \/ pc = "name" /\ ~Continues /\ UNCHANGED <<length, reach>>
       \/ /\ pc = "name" /\ Continues /\ Occurrences(Colon, len) = {}
          /\ GrowHeaders /\ Reads(len - 1)
       \/ /\ pc = "value" /\ LineEnds(len - 1) = {}
          /\ Reads(EndOfScan(len - 1)) /\ UNCHANGED length
    /\ pc' = "error"
    /\ UNCHANGED <<request, i, previous, pieces, name, headers, moved>>

Next ==
    \/ Word("type", "url") \/ Word("url", "version") \/ Version \/ MethodError
    \/ Name \/ Value \/ NextHeader \/ LastHeader \/ HeadersError

Spec == Init /\ [][Next]_vars

-----------------------------------------------------------------------------
(* Properties                                                              *)

Ranges == (0 .. BufLen) \X (0 .. BufLen)

TypeOK ==
    /\ fn \in {"get_method", "get_headers"}
    /\ text \in [0 .. BufLen - 1 -> Chars] /\ len \in 0 .. BufLen - 2
    /\ pc \in {"type", "url", "version", "name", "value", "add", "end", "error"}
    /\ i \in 0 .. len + 1 /\ previous \in 0 .. len + 2 /\ moved \in 0 .. len + 2
    /\ pieces \in Seq(Ranges) /\ name \in Ranges /\ headers \in Seq(Ranges \X Ranges)
    /\ length \in Nat
    /\ reach \in 0 .. len + 2

LineEnd(p) == p + 1 < len /\ text[p] = CR /\ text[p + 1] = LF
Without(ch, from, to) == \A q \in from .. to - 1 : text[q] # ch
WithoutLineEnd(from, to) == \A q \in from .. to - 1 : ~LineEnd(q)

\* One header after the other is taken from the request: a name is what lies
\* between the end of the line before and the next colon, a value what lies
\* between the byte after the one behind the colon and the next CR LF.
\* Nothing is skipped, copied twice or copied backwards.
HeadersTile ==
    \A k \in 1 .. Len(headers) :
        LET n == headers[k][1]
            v == headers[k][2]
        IN  /\ n[1] = IF k = 1 THEN 0 ELSE headers[k - 1][2][2] + 2
            /\ n[1] <= n[2] /\ text[n[2]] = Colon /\ Without(Colon, n[1] + 1, n[2])
            /\ v[1] = n[2] + 2
            /\ v[1] <= v[2] /\ LineEnd(v[2]) /\ WithoutLineEnd(v[1], v[2])

\* Every slot that is written is allocated, the one of the terminator, too.
SlotsAllocated ==
    Len(headers) + (IF pc = "end" THEN 1 ELSE 0) <= length

\* get_method() reads at most one byte behind the request, get_headers() two,
\* and *request is not moved beyond them.
OverreadIsBounded ==
    /\ reach <= len + (IF fn = "get_method" THEN 1 ELSE 2)
    /\ moved <= reach

\* The first line holds two spaces at least, the first at a, the second at b.
RequestLine(a, b, e) ==
    /\ LineEnd(e) /\ WithoutLineEnd(0, e)
    /\ a < b /\ b < e /\ text[a] = SP /\ text[b] = SP
    /\ Without(SP, 0, a) /\ Without(SP, a + 1, b)

\* A complete request line is taken apart at its first two spaces, *request
\* is moved behind it, and no byte behind it is read.
RequestLineParsed ==
    fn = "get_method" /\ pc \in {"end", "error"} =>
        \A e \in {p \in 0 .. len - 1 : LineEnd(p)} :
        \A a, b \in {p \in 0 .. e - 1 : text[p] = SP} :
            RequestLine(a, b, e) =>
                /\ pc = "end" /\ moved = e + 2 /\ reach = e + 2
                /\ pieces = <<<<0, a>>, <<a + 1, b>>, <<b + 1, e>>>>

\* The ends of the lines up to the blank line, and where these lines begin.
BlankAfter(p) == LineEnd(p) /\ LineEnd(p + 2)
HeaderLineEnds ==
    {p \in 0 .. len - 1 :
        LineEnd(p) /\ \A q \in 0 .. p - 1 : ~BlankAfter(q)}
HeaderLines == {0} \cup {p + 2 : p \in {q \in HeaderLineEnds : ~BlankAfter(q)}}

\* The line from s to e is a name, which is not empty, a colon at c, a space
\* and a value.
HeaderLine(s, c, e) ==
    /\ s < c /\ c + 1 < e
    /\ text[c] = Colon /\ text[c + 1] = SP /\ Without(Colon, s, c)
    /\ e \in HeaderLineEnds /\ WithoutLineEnd(s, e)

WellFormed ==
    /\ \E p \in 0 .. len - 1 : BlankAfter(p)
    /\ \A s \in HeaderLines : \E c, e \in s .. len - 1 : HeaderLine(s, c, e)

\* A complete block of well-formed header lines is accepted, each line gives
\* one header, *request is moved behind the blank line, and no byte behind
\* it is read.
HeadersParsed ==
    fn = "get_headers" /\ pc \in {"end", "error"} /\ WellFormed =>
        /\ pc = "end"
        /\ BlankAfter(moved - 4) /\ moved - 4 \in HeaderLineEnds
        /\ reach = moved
        /\ \A k \in 1 .. Len(headers) :
              LET n == headers[k][1]
                  v == headers[k][2]
              IN  HeaderLine(n[1], n[2], v[2]) /\ v[1] = n[2] + 2
        /\ \A s \in HeaderLines : \E k \in 1 .. Len(headers) : headers[k][1][1] = s

=============================================================================
