--------------------------- MODULE ExchangeProofs ---------------------------
(***************************************************************************)
(* Proofs about the exchange with a worker, for frames, pipes, buffers and *)
(* budgets of any size and any number of requests.                         *)
(***************************************************************************)
EXTENDS MCWorkerExchange, SetSums, SequenceTheorems, TLAPS

(***************************************************************************)
(* Sequences that are cut in two and put together.                         *)
(***************************************************************************)
LEMMA CutFacts ==
    ASSUME NEW S, NEW s \in Seq(S), NEW k \in 0 .. Len(s)
    PROVE  /\ SubSeq(s, 1, k) \in Seq(S) /\ Len(SubSeq(s, 1, k)) = k
           /\ \A i \in 1 .. k : SubSeq(s, 1, k)[i] = s[i]
           /\ SubSeq(s, k + 1, Len(s)) \in Seq(S)
           /\ Len(SubSeq(s, k + 1, Len(s))) = Len(s) - k
           /\ \A i \in 1 .. Len(s) - k : SubSeq(s, k + 1, Len(s))[i] = s[k + i]
           /\ SubSeq(s, 1, k) \o SubSeq(s, k + 1, Len(s)) = s
<1>1. Len(s) \in Nat /\ k \in Nat /\ \A i \in 1 .. Len(s) : s[i] \in S
    BY LenProperties, ElementOfSeq
<1>2. /\ SubSeq(s, 1, k) \in Seq(S) /\ Len(SubSeq(s, 1, k)) = k
      /\ \A i \in 1 .. k : SubSeq(s, 1, k)[i] = s[i]
    <2>1. \A i \in 1 .. k : s[i] \in S
        BY <1>1
    <2>2. /\ SubSeq(s, 1, k) \in Seq(S)
          /\ Len(SubSeq(s, 1, k)) = IF 1 <= k THEN k - 1 + 1 ELSE 0
          /\ \A i \in 1 .. k - 1 + 1 : SubSeq(s, 1, k)[i] = s[1 + i - 1]
        BY <1>1, <2>1, SubSeqProperties
    <2>3. QED
        BY <1>1, <2>2
<1>3. /\ SubSeq(s, k + 1, Len(s)) \in Seq(S)
      /\ Len(SubSeq(s, k + 1, Len(s))) = Len(s) - k
      /\ \A i \in 1 .. Len(s) - k : SubSeq(s, k + 1, Len(s))[i] = s[k + i]
    <2>1. /\ \A i \in k + 1 .. Len(s) : s[i] \in S
          /\ k + 1 \in Int /\ Len(s) \in Int
        BY <1>1
    <2>2. /\ SubSeq(s, k + 1, Len(s)) \in Seq(S)
          /\ Len(SubSeq(s, k + 1, Len(s))) = IF k + 1 <= Len(s) THEN Len(s) - (k + 1) + 1 ELSE 0
          /\ \A i \in 1 .. Len(s) - (k + 1) + 1 :
                SubSeq(s, k + 1, Len(s))[i] = s[(k + 1) + i - 1]
        BY <2>1, SubSeqProperties
    <2>3. QED
        BY <1>1, <2>2
<1>4. SubSeq(s, 1, k) \o SubSeq(s, k + 1, Len(s)) = s
    <2>1. 1 \in 1 .. Len(s) + 1 /\ k \in 1 - 1 .. Len(s) /\ Len(s) \in k .. Len(s)
        BY <1>1
    <2>2. SubSeq(s, 1, k) \o SubSeq(s, k + 1, Len(s)) = SubSeq(s, 1, Len(s))
        BY <2>1, ConcatAdjacentSubSeq
    <2>3. QED
        BY <2>2, SubSeqFull
<1>5. QED
    BY <1>2, <1>3, <1>4

\* Pieces of a stream may be joined in either order. The equality has a name so
\* that a proof with many pieces at hand cites the three it is about.
Associates(a, b, c) == (a \o b) \o c = a \o (b \o c)

LEMMA BytesAssociative ==
    \A a, b, c \in Seq(Bytes) : Associates(a, b, c)
<1>1. SUFFICES ASSUME NEW a \in Seq(Bytes), NEW b \in Seq(Bytes), NEW c \in Seq(Bytes)
               PROVE  Associates(a, b, c)
    OBVIOUS
<1>2. (a \o b) \o c = a \o (b \o c)
    BY ConcatAssociative
<1>3. QED
    BY <1>2 DEF Associates

\* Bytes that are taken from the front of one end of a stream and put at the
\* end of the other leave the stream as it is.
LEMMA MoveBytes ==
    ASSUME NEW s \in Seq(Bytes), NEW t \in Seq(Bytes), NEW k \in 0 .. Len(t)
    PROVE  (s \o SubSeq(t, 1, k)) \o SubSeq(t, k + 1, Len(t)) = s \o t
<1>1. /\ SubSeq(t, 1, k) \in Seq(Bytes) /\ SubSeq(t, k + 1, Len(t)) \in Seq(Bytes)
      /\ SubSeq(t, 1, k) \o SubSeq(t, k + 1, Len(t)) = t
    BY CutFacts
<1>2. PICK u \in Seq(Bytes) : u = SubSeq(t, 1, k)
    BY <1>1
<1>3. PICK v \in Seq(Bytes) : v = SubSeq(t, k + 1, Len(t))
    BY <1>1
<1>4. (s \o u) \o v = s \o (u \o v)
    <2>1. Associates(s, u, v)
        BY BytesAssociative
    <2>2. QED
        BY <2>1 DEF Associates
<1>5. QED
    BY <1>1, <1>2, <1>3, <1>4

LEMMA MinFacts ==
    /\ \A a, b \in Int : Min({a, b}) \in Int /\ Min({a, b}) <= a /\ Min({a, b}) <= b
    /\ \A a, b, c \in Int : /\ Min({a, b, c}) \in Int /\ Min({a, b, c}) <= a
                            /\ Min({a, b, c}) <= b /\ Min({a, b, c}) <= c
<1>1. ASSUME NEW a \in Int, NEW b \in Int
      PROVE  Min({a, b}) \in Int /\ Min({a, b}) <= a /\ Min({a, b}) <= b
    <2>1. \E x \in {a, b} : \A y \in {a, b} : x =< y
        BY SMT
    <2>2. Min({a, b}) \in {a, b} /\ \A y \in {a, b} : Min({a, b}) =< y
        BY <2>1 DEF Min
    <2>3. QED
        BY <2>2
<1>2. ASSUME NEW a \in Int, NEW b \in Int, NEW c \in Int
      PROVE  /\ Min({a, b, c}) \in Int /\ Min({a, b, c}) <= a
             /\ Min({a, b, c}) <= b /\ Min({a, b, c}) <= c
    <2>1. \E x \in {a, b, c} : \A y \in {a, b, c} : x =< y
        BY SMT
    <2>2. Min({a, b, c}) \in {a, b, c} /\ \A y \in {a, b, c} : Min({a, b, c}) =< y
        BY <2>1 DEF Min
    <2>3. QED
        BY <2>2
<1>3. QED
    BY <1>1, <1>2
-----------------------------------------------------------------------------
(***************************************************************************)
(* Frames and their bytes.                                                 *)
(***************************************************************************)
LEMMA SizeFacts ==
    ASSUME NEW f \in Frames
    PROVE  Size(f) \in Nat /\ HeaderSize \in Nat /\ 1 <= HeaderSize /\ HeaderSize <= Size(f)
<1>1. f.metadata \in Nat /\ f.payload \in Nat
    BY DEF Frames
<1>2. QED
    BY <1>1, FrameAssumption DEF Size

LEMMA ByteFacts ==
    ASSUME NEW b \in Bytes
    PROVE  /\ b.of \in Frames /\ b.at \in Nat /\ 1 <= b.at /\ b.at <= Size(b.of)
           /\ b = [of |-> b.of, at |-> b.at]
           /\ [b EXCEPT !.at = @ + 1] = [of |-> b.of, at |-> b.at + 1]
BY DEF Bytes

LEMMA EncodedFacts ==
    ASSUME NEW f \in Frames
    PROVE  /\ Encoded(f) \in Seq(Bytes) /\ Len(Encoded(f)) = Size(f)
           /\ \A i \in 1 .. Size(f) : Encoded(f)[i] = [of |-> f, at |-> i]
<1>1. Size(f) \in Nat
    BY SizeFacts
<1>2. \A i \in 1 .. Size(f) : [of |-> f, at |-> i] \in Bytes
    BY <1>1 DEF Bytes
<1>3. Encoded(f) \in [1 .. Size(f) -> Bytes]
    BY <1>2 DEF Encoded
<1>4. Encoded(f) \in Seq(Bytes)
    BY <1>1, <1>3, SMT DEF Seq
<1>5. DOMAIN Encoded(f) = 1 .. Size(f) /\ Len(Encoded(f)) \in Nat
      /\ DOMAIN Encoded(f) = 1 .. Len(Encoded(f))
    BY <1>4, LenProperties DEF Encoded
<1>6. Len(Encoded(f)) = Size(f)
    BY <1>1, <1>5
<1>7. QED
    BY <1>4, <1>6 DEF Encoded

\* The bytes are the first n of the frame.
Prefix(s, f, n) == Len(s) = n /\ \A i \in 1 .. n : s[i] = [of |-> f, at |-> i]

\* A sequence that holds the first bytes of a frame, all of them.
LEMMA PrefixIsEncoded ==
    ASSUME NEW f \in Frames, NEW s \in Seq(Bytes), Prefix(s, f, Size(f))
    PROVE  s = Encoded(f)
BY EncodedFacts, SeqEqual DEF Prefix

\* The bytes of a stream up to the size of its first frame are that frame's.
LEMMA FirstBytes ==
    ASSUME NEW s \in Seq(Bytes), Framed(s), s # <<>>
    PROVE  \A i \in 1 .. Len(s) : i <= Size(s[1].of) => s[i] = [of |-> s[1].of, at |-> i]
<1> DEFINE f == s[1].of
           Wrong == {i \in 1 .. Len(s) : i <= Size(f) /\ s[i] # [of |-> f, at |-> i]}
<1>1. Len(s) \in Nat /\ 1 <= Len(s) /\ \A i \in 1 .. Len(s) : s[i] \in Bytes
    BY LenProperties, EmptySeq, ElementOfSeq
<1>2. s[1] \in Bytes /\ f \in Frames /\ s[1] = [of |-> f, at |-> 1] /\ Size(f) \in Nat
    <2>1. s[1] \in Bytes
        BY <1>1
    <2>2. s[1].at = 1
        BY DEF Framed
    <2>3. QED
        BY <2>1, <2>2, ByteFacts, SizeFacts
<1>3. Wrong = {}
    <2> SUFFICES ASSUME Wrong # {} PROVE FALSE
        OBVIOUS
    <2>1. Wrong \subseteq Nat
        BY <1>1
    <2>2. PICK i \in Wrong : \A j \in Wrong : i <= j
        BY <2>1, LeastElement
    <2>3. i \in 1 .. Len(s) /\ i <= Size(f) /\ s[i] # [of |-> f, at |-> i]
        OBVIOUS
    <2>4. i # 1
        BY <1>2, <2>3
    <2>5. PICK j \in 1 .. Len(s) - 1 : i = j + 1 /\ j < i /\ j \in 1 .. Len(s) /\ j <= Size(f) /\ j < Size(f)
        BY <1>1, <1>2, <2>3, <2>4
    <2>6. j \notin Wrong
        BY <1>1, <2>2, <2>3, <2>5
    <2>7. s[j] = [of |-> f, at |-> j]
        BY <2>5, <2>6
    <2>8. s[j].of = f /\ s[j].at = j /\ s[j] \in Bytes
        BY <1>1, <2>5, <2>7
    <2>9. s[j].at # Size(f)
        BY <1>2, <2>5, <2>8
    <2>10. s[j + 1] = [s[j] EXCEPT !.at = @ + 1]
        BY <2>5, <2>8, <2>9 DEF Framed
    <2>11. s[j + 1] = [of |-> f, at |-> j + 1]
        BY <2>8, <2>10, ByteFacts
    <2>12. QED
        BY <2>3, <2>5, <2>11
<1>4. QED
    BY <1>3

\* What concatenation does to places.
LEMMA JoinFacts ==
    ASSUME NEW S, NEW s \in Seq(S), NEW t \in Seq(S)
    PROVE  /\ s \o t \in Seq(S) /\ Len(s) \in Nat /\ Len(t) \in Nat
           /\ Len(s \o t) = Len(s) + Len(t)
           /\ DOMAIN (s \o t) = 1 .. Len(s) + Len(t)
           /\ \A i \in 1 .. Len(s) : (s \o t)[i] = s[i]
           /\ \A i \in 1 .. Len(t) : (s \o t)[Len(s) + i] = t[i]
<1>1. Len(s) \in Nat /\ Len(t) \in Nat
    BY LenProperties
<1>2. /\ s \o t \in Seq(S) /\ Len(s \o t) = Len(s) + Len(t)
      /\ \A i \in 1 .. Len(s) + Len(t) :
            (s \o t)[i] = IF i <= Len(s) THEN s[i] ELSE t[i - Len(s)]
    BY ConcatProperties
<1>3. DOMAIN (s \o t) = 1 .. Len(s) + Len(t)
    BY <1>2, LenProperties
<1>4. \A i \in 1 .. Len(s) : (s \o t)[i] = s[i]
    BY <1>1, <1>2
<1>5. ASSUME NEW i \in 1 .. Len(t) PROVE (s \o t)[Len(s) + i] = t[i]
    <2>1. Len(s) + i \in 1 .. Len(s) + Len(t) /\ ~(Len(s) + i <= Len(s))
          /\ Len(s) + i - Len(s) = i
        BY <1>1
    <2>2. QED
        BY <1>2, <2>1
<1>6. QED
    BY <1>1, <1>2, <1>3, <1>4, <1>5

\* A place of a concatenation is one of the first or of the second sequence.
LEMMA JoinPlaces ==
    ASSUME NEW S, NEW s \in Seq(S), NEW t \in Seq(S), NEW i \in DOMAIN (s \o t)
    PROVE  \/ i \in DOMAIN s /\ (s \o t)[i] = s[i]
           \/ \E j \in DOMAIN t : i = Len(s) + j /\ (s \o t)[i] = t[j]
<1>1. /\ Len(s) \in Nat /\ Len(t) \in Nat /\ i \in 1 .. Len(s) + Len(t)
      /\ DOMAIN s = 1 .. Len(s) /\ DOMAIN t = 1 .. Len(t)
    BY JoinFacts, LenProperties
<1>2. CASE i <= Len(s)
    <2>1. i \in 1 .. Len(s)
        BY <1>1, <1>2
    <2>2. QED
        BY <1>1, <2>1, JoinFacts
<1>3. CASE ~(i <= Len(s))
    <2>1. PICK j \in 1 .. Len(t) : i = Len(s) + j
        <3>1. i - Len(s) \in 1 .. Len(t) /\ i = Len(s) + (i - Len(s))
            BY <1>1, <1>3
        <3>2. QED
            BY <3>1
    <2>2. (s \o t)[i] = t[j]
        BY <2>1, JoinFacts
    <2>3. QED
        BY <1>1, <2>1, <2>2
<1>4. QED
    BY <1>2, <1>3

\* The start of a stream is cut at frame boundaries like the stream.
LEMMA FramedStart ==
    ASSUME NEW s \in Seq(Bytes), NEW t \in Seq(Bytes), Framed(s \o t)
    PROVE  Framed(s)
<1> SUFFICES ASSUME s # <<>> PROVE Framed(s)
    BY DEF Framed
<1>1. /\ Len(s) \in Nat /\ 1 <= Len(s) /\ Len(t) \in Nat /\ Len(s \o t) = Len(s) + Len(t)
      /\ \A i \in 1 .. Len(s) : (s \o t)[i] = s[i]
    BY EmptySeq, JoinFacts
<1>2. PICK u \in Seq(Bytes) : u = s \o t
    BY JoinFacts
<1>3. u # <<>>
    BY <1>1, <1>2, EmptySeq
<1>4. /\ u[1].at = 1
      /\ \A i \in 1 .. Len(u) - 1 :
            \/ u[i + 1] = [u[i] EXCEPT !.at = @ + 1]
            \/ u[i].at = Size(u[i].of) /\ u[i + 1].at = 1
    BY <1>2, <1>3 DEF Framed
<1>5. \A i \in 1 .. Len(s) - 1 : /\ i \in 1 .. Len(u) - 1
                                 /\ i \in 1 .. Len(s) /\ i + 1 \in 1 .. Len(s)
    BY <1>1, <1>2
<1>6. \A i \in 1 .. Len(s) - 1 : u[i] = s[i] /\ u[i + 1] = s[i + 1]
    BY <1>1, <1>2, <1>5
<1>7. s[1].at = 1
    BY <1>1, <1>2, <1>4
<1>8. QED
    BY <1>4, <1>5, <1>6, <1>7 DEF Framed

\* What is left behind the first frame is cut at frame boundaries too.
LEMMA FramedRest ==
    ASSUME NEW s \in Seq(Bytes), Framed(s), s # <<>>, Size(s[1].of) <= Len(s)
    PROVE  LET n == Size(s[1].of)
               r == SubSeq(s, n + 1, Len(s))
           IN  /\ n \in 0 .. Len(s) /\ r \in Seq(Bytes)
               /\ Framed(r) /\ (Whole(s) => Whole(r))
<1>1. PICK n : n = Size(s[1].of)
    OBVIOUS
<1>2. /\ Len(s) \in Nat /\ 1 <= Len(s) /\ \A i \in 1 .. Len(s) : s[i] \in Bytes
    BY LenProperties, EmptySeq, ElementOfSeq
<1>3. n \in Nat /\ 1 <= n /\ n <= Len(s)
    <2>1. s[1] \in Bytes
        BY <1>2
    <2>2. s[1].of \in Frames
        BY <2>1, ByteFacts
    <2>3. QED
        BY <1>1, <2>2, SizeFacts
<1>4. n \in 0 .. Len(s) /\ n \in 1 .. Len(s)
    BY <1>2, <1>3
<1>5. PICK r \in Seq(Bytes) :
        /\ r = SubSeq(s, n + 1, Len(s)) /\ Len(r) = Len(s) - n
        /\ \A i \in 1 .. Len(s) - n : r[i] = s[n + i]
    <2>1. /\ SubSeq(s, n + 1, Len(s)) \in Seq(Bytes)
          /\ Len(SubSeq(s, n + 1, Len(s))) = Len(s) - n
          /\ \A i \in 1 .. Len(s) - n : SubSeq(s, n + 1, Len(s))[i] = s[n + i]
        BY <1>4, CutFacts
    <2>2. QED
        BY <2>1
<1>6. s[n].at = n /\ s[n].of = s[1].of
    <2>1. n <= n
        BY <1>3
    <2>2. s[n] = [of |-> s[1].of, at |-> n]
        BY <1>1, <1>4, <2>1, FirstBytes
    <2>3. QED
        BY <2>2
<1>7. Framed(r)
    <2> SUFFICES ASSUME r # <<>> PROVE Framed(r)
        BY DEF Framed
    <2>1. Len(r) \in Nat /\ 1 <= Len(r)
        BY EmptySeq
    <2>2. r[1].at = 1
        <3>1. n \in 1 .. Len(s) - 1 /\ n + 1 \in 1 .. Len(s) /\ 1 \in 1 .. Len(s) - n
            BY <1>2, <1>3, <1>5, <2>1
        <3>2. r[1] = s[n + 1] /\ s[n] \in Bytes /\ s[n + 1] \in Bytes
            BY <1>2, <1>4, <1>5, <3>1
        <3>3. s[n + 1] # [s[n] EXCEPT !.at = @ + 1]
            <4>1. SUFFICES ASSUME s[n + 1] = [s[n] EXCEPT !.at = @ + 1] PROVE FALSE
                OBVIOUS
            <4>2. s[n + 1] = [of |-> s[n].of, at |-> s[n].at + 1]
                BY <3>2, <4>1, ByteFacts
            <4>3. s[n + 1].of = s[1].of /\ s[n + 1].at = n + 1
                BY <1>6, <4>2
            <4>4. s[n + 1].at <= Size(s[n + 1].of)
                BY <3>2, ByteFacts
            <4>5. QED
                BY <1>1, <1>3, <4>3, <4>4
        <3>4. QED
            BY <3>1, <3>2, <3>3 DEF Framed
    <2>3. ASSUME NEW i \in 1 .. Len(r) - 1
          PROVE  \/ r[i + 1] = [r[i] EXCEPT !.at = @ + 1]
                 \/ r[i].at = Size(r[i].of) /\ r[i + 1].at = 1
        <3>1. /\ n + i \in 1 .. Len(s) - 1 /\ i \in 1 .. Len(s) - n
              /\ i + 1 \in 1 .. Len(s) - n /\ n + (i + 1) = (n + i) + 1
            BY <1>2, <1>3, <1>5, <2>1
        <3>2. r[i] = s[n + i] /\ r[i + 1] = s[(n + i) + 1]
            BY <1>5, <3>1
        <3>3. PICK j \in 1 .. Len(s) - 1 : j = n + i
            BY <3>1
        <3>4. \/ s[j + 1] = [s[j] EXCEPT !.at = @ + 1]
              \/ s[j].at = Size(s[j].of) /\ s[j + 1].at = 1
            BY DEF Framed
        <3>5. QED
            BY <3>2, <3>3, <3>4
    <2>4. QED
        BY <2>2, <2>3 DEF Framed
<1>8. ASSUME Whole(s) PROVE Whole(r)
    <2> SUFFICES ASSUME r # <<>> PROVE r[Len(r)].at = Size(r[Len(r)].of)
        BY DEF Whole
    <2>1. Len(r) \in Nat /\ 1 <= Len(r)
        BY EmptySeq
    <2>2. Len(r) \in 1 .. Len(s) - n /\ n + Len(r) = Len(s)
        BY <1>2, <1>3, <1>5, <2>1
    <2>3. r[Len(r)] = s[Len(s)]
        BY <1>5, <2>2
    <2>4. QED
        BY <1>8, <2>3 DEF Whole
<1>9. QED
    BY <1>1, <1>4, <1>5, <1>7, <1>8

\* A frame behind whole frames.
LEMMA FramedJoin ==
    ASSUME NEW s \in Seq(Bytes), Framed(s), Whole(s), NEW f \in Frames
    PROVE  LET t == s \o Encoded(f) IN t \in Seq(Bytes) /\ Framed(t) /\ Whole(t)
<1>1. PICK e \in Seq(Bytes) : /\ e = Encoded(f) /\ Len(e) = Size(f)
                              /\ \A i \in 1 .. Size(f) : e[i] = [of |-> f, at |-> i]
    BY EncodedFacts
<1>2. PICK n : n = Size(f) /\ n \in Nat /\ 1 <= n
    BY SizeFacts
<1>3. PICK t \in Seq(Bytes) : t = s \o e
    BY JoinFacts
<1>4. /\ Len(s) \in Nat /\ Len(t) = Len(s) + Len(e)
      /\ \A i \in 1 .. Len(s) : t[i] = s[i]
      /\ \A i \in 1 .. Len(e) : t[Len(s) + i] = e[i]
    BY <1>3, JoinFacts
<1>m. PICK m : m = Len(s)
    OBVIOUS
<1>5. /\ m \in Nat /\ Len(t) = m + n
      /\ \A i \in 1 .. m : t[i] = s[i]
      /\ \A i \in 1 .. n : t[m + i] = [of |-> f, at |-> i]
    BY <1>1, <1>2, <1>4, <1>m
<1>6. t[1].at = 1
    <2>1. CASE m = 0
        <3>1. 1 \in 1 .. n /\ m + 1 = 1
            BY <1>2, <2>1
        <3>2. t[1] = [of |-> f, at |-> 1]
            BY <1>5, <3>1
        <3>3. QED
            BY <3>2
    <2>2. CASE m # 0
        <3>1. s # <<>> /\ 1 \in 1 .. m
            BY <1>5, <1>m, <2>2
        <3>2. QED
            BY <1>5, <3>1 DEF Framed
    <2>3. QED
        BY <2>1, <2>2
<1>7. ASSUME NEW i \in 1 .. Len(t) - 1
      PROVE  \/ t[i + 1] = [t[i] EXCEPT !.at = @ + 1]
             \/ t[i].at = Size(t[i].of) /\ t[i + 1].at = 1
    <2>1. CASE i < m
        <3>1. i \in 1 .. m /\ i + 1 \in 1 .. m /\ i \in 1 .. Len(s) - 1 /\ m # 0 /\ s # <<>>
            BY <1>5, <1>m, <2>1
        <3>2. QED
            BY <1>5, <3>1 DEF Framed
    <2>2. CASE i = m
        <3>1. i \in 1 .. m /\ m # 0 /\ s # <<>> /\ 1 \in 1 .. n
            BY <1>2, <1>5, <1>m, <2>2
        <3>2. t[i] = s[m] /\ t[i + 1] = [of |-> f, at |-> 1]
            BY <1>5, <2>2, <3>1
        <3>3. QED
            BY <1>5, <1>m, <3>1, <3>2 DEF Whole
    <2>3. CASE i > m
        <3>1. PICK j \in 1 .. n : i = m + j /\ j + 1 \in 1 .. n /\ m + (j + 1) = i + 1
            <4>1. i - m \in 1 .. n /\ i = m + (i - m) /\ (i - m) + 1 \in 1 .. n
                  /\ m + ((i - m) + 1) = i + 1
                BY <1>2, <1>5, <1>m, <2>3
            <4>2. QED
                BY <4>1
        <3>2. t[i] = [of |-> f, at |-> j] /\ t[i + 1] = [of |-> f, at |-> j + 1]
            BY <1>5, <3>1
        <3>3. QED
            BY <3>2
    <2>4. QED
        BY <1>5, <1>m, <2>1, <2>2, <2>3
<1>8. Framed(t)
    BY <1>6, <1>7 DEF Framed
<1>9. Whole(t)
    <2>1. n \in 1 .. n
        BY <1>2
    <2>2. t[Len(t)] = [of |-> f, at |-> n]
        BY <1>5, <1>m, <2>1
    <2>3. QED
        BY <1>2, <2>2 DEF Whole
<1>10. QED
    BY <1>1, <1>3, <1>8, <1>9

\* A reader that has a complete frame has all its bytes, at the front.
LEMMA FrameRead ==
    ASSUME NEW b \in Seq(Bytes), Framed(b), ReadFrame(b) = "frame"
    PROVE  /\ b # <<>> /\ HeaderOf(b) = b[1].of /\ HeaderOf(b) \in Frames
           /\ Size(HeaderOf(b)) <= Len(b)
           /\ FirstFrame(b) = Encoded(HeaderOf(b))
           /\ HeaderOf(FirstFrame(b)) = HeaderOf(b)
<1>1. /\ ~(Len(b) < HeaderSize) /\ ~(Len(b) < Size(HeaderOf(b)))
    BY DEF ReadFrame
<1>2. Len(b) \in Nat /\ HeaderSize \in Nat /\ 1 <= HeaderSize
    BY LenProperties, FrameAssumption
<1>3. b # <<>> /\ 1 \in 1 .. Len(b) /\ HeaderSize \in 1 .. Len(b)
    BY <1>1, <1>2
<1>4. PICK f \in Frames : f = b[1].of /\ Size(f) \in Nat /\ HeaderSize <= Size(f)
    BY <1>3, ElementOfSeq, ByteFacts, SizeFacts
<1>5. HeaderOf(b) = f
    <2>1. b[HeaderSize] = [of |-> f, at |-> HeaderSize]
        BY <1>3, <1>4, FirstBytes
    <2>2. QED
        BY <2>1 DEF HeaderOf
<1>6. Size(f) <= Len(b) /\ Size(f) \in 0 .. Len(b) /\ HeaderSize \in 1 .. Size(f)
    BY <1>1, <1>2, <1>4, <1>5
<1>7. PICK s \in Seq(Bytes) : /\ s = SubSeq(b, 1, Size(f)) /\ Len(s) = Size(f)
                              /\ \A i \in 1 .. Size(f) : s[i] = b[i]
    <2>1. PICK n \in 0 .. Len(b) : n = Size(f)
        BY <1>6
    <2>2. /\ SubSeq(b, 1, n) \in Seq(Bytes) /\ Len(SubSeq(b, 1, n)) = n
          /\ \A i \in 1 .. n : SubSeq(b, 1, n)[i] = b[i]
        BY CutFacts
    <2>3. QED
        BY <2>1, <2>2
<1>8. Prefix(s, f, Size(f))
    <2>1. \A i \in 1 .. Size(f) : i \in 1 .. Len(b) /\ i <= Size(f)
        BY <1>2, <1>4, <1>6
    <2>2. \A i \in 1 .. Size(f) : b[i] = [of |-> f, at |-> i]
        BY <1>3, <1>4, <2>1, FirstBytes
    <2>3. QED
        BY <1>7, <2>2 DEF Prefix
<1>9. s = Encoded(f)
    BY <1>8, PrefixIsEncoded
<1>10. s[HeaderSize].of = f
    BY <1>6, <1>8 DEF Prefix
<1>11. QED
    BY <1>3, <1>4, <1>5, <1>6, <1>7, <1>9, <1>10 DEF FirstFrame, HeaderOf
-----------------------------------------------------------------------------
(***************************************************************************)
(* The stream from a worker to the Kernel.                                 *)
(***************************************************************************)
LEMMA StreamFacts ==
    ASSUME PipesTypeOK
    PROVE  /\ buffer \in Seq(Bytes) /\ stdout \in Seq(Bytes) /\ worker.out \in Seq(Bytes)
           /\ buffer \o stdout \in Seq(Bytes) /\ stdout \o worker.out \in Seq(Bytes)
           /\ Stream \in Seq(Bytes) /\ Stream = (buffer \o stdout) \o worker.out
           /\ Stream = buffer \o (stdout \o worker.out)
<1>1. buffer \in Seq(Bytes) /\ stdout \in Seq(Bytes) /\ worker.out \in Seq(Bytes)
    BY DEF PipesTypeOK
<1>2. buffer \o stdout \in Seq(Bytes) /\ stdout \o worker.out \in Seq(Bytes)
    BY <1>1, JoinFacts
<1>3. (buffer \o stdout) \o worker.out \in Seq(Bytes)
    BY <1>1, <1>2, JoinFacts
<1>4. (buffer \o stdout) \o worker.out = buffer \o (stdout \o worker.out)
    <2>1. PICK a \in Seq(Bytes) : a = buffer
        BY <1>1
    <2>2. PICK b \in Seq(Bytes) : b = stdout
        BY <1>1
    <2>3. PICK c \in Seq(Bytes) : c = worker.out
        BY <1>1
    <2>4. (a \o b) \o c = a \o (b \o c)
        <3>1. Associates(a, b, c)
            BY BytesAssociative
        <3>2. QED
            BY <3>1 DEF Associates
    <2>5. QED
        BY <2>1, <2>2, <2>3, <2>4
<1>5. QED
    BY <1>1, <1>2, <1>3, <1>4 DEF Stream

\* Without bytes to write, the stream is what was sent.
LEMMA StreamSent ==
    ASSUME PipesTypeOK, worker.out = <<>>
    PROVE  Stream = buffer \o stdout
BY StreamFacts, ConcatEmptySeq

\* The parts of a stream are about what the stream is about.
LEMMA StraysStart ==
    ASSUME NEW s \in Seq(Bytes), NEW t \in Seq(Bytes), NEW n
    PROVE  /\ OnlyStrays(s \o t, n) => OnlyStrays(s, n)
           /\ s # <<>> => s \o t # <<>> /\ (s \o t)[1] = s[1]
           /\ DOMAIN s \subseteq DOMAIN (s \o t)
           /\ \A i \in DOMAIN s : (s \o t)[i] = s[i]
<1>1. /\ DOMAIN s = 1 .. Len(s) /\ Len(s) \in Nat /\ Len(t) \in Nat
      /\ DOMAIN (s \o t) = 1 .. Len(s) + Len(t)
      /\ \A i \in 1 .. Len(s) : (s \o t)[i] = s[i]
      /\ s \o t \in Seq(Bytes) /\ Len(s \o t) = Len(s) + Len(t)
    BY JoinFacts, LenProperties
<1>2. DOMAIN s \subseteq DOMAIN (s \o t)
    BY <1>1
<1>3. ASSUME s # <<>> PROVE s \o t # <<>> /\ 1 \in 1 .. Len(s)
    <2>1. Len(s) # 0
        BY <1>3, EmptySeq
    <2>2. Len(s \o t) # 0
        BY <1>1, <2>1
    <2>3. QED
        BY <1>1, <2>1, <2>2
<1>4. QED
    BY <1>1, <1>2, <1>3 DEF OnlyStrays

\* The call of execute returns without an answer, and the worker is closed.
LEMMA GiveUpKeeps ==
    ASSUME ExchangeInv,
           NEW outcome \in {"failed", "crashed", "stopped", "cancelled", "timed_out", "none"},
           GiveUp(outcome)
    PROVE  ExchangeInv'
<1>1. /\ exchange \in ExchangeRows /\ exchange' = [exchange EXCEPT !.pc = "idle", !.outcome = outcome]
      /\ UNCHANGED <<buffer, demand, requests>>
      /\ worker' = Exited /\ stdin' = <<>> /\ stdout' = <<>> /\ open' = FALSE
    BY DEF ExchangeInv, GiveUp, Returns, Close
<1>2. exchange' \in ExchangeRows /\ exchange'.pc = "idle" /\ exchange'.outcome # "succeeded"
    BY <1>1 DEF ExchangeRows
<1>3. QED
    BY <1>1, <1>2 DEF ExchangeInv, AnswerIntact, ClosedInv, At
\* A call of execute that an exception leaves.
LEMMA ThrowKeeps ==
    ASSUME ExchangeInv, CancellationThrows
    PROVE  ExchangeInv'
<1>1. /\ exchange \in ExchangeRows /\ exchange' = [exchange EXCEPT !.pc = "idle", !.outcome = "thrown"]
      /\ UNCHANGED <<worker, stdin, stdout, open, buffer, demand, requests>>
      /\ exchange.pc \in {"write", "check"}
    BY DEF ExchangeInv, CancellationThrows, Returns, At, workerVars
<1>2. exchange' \in ExchangeRows /\ exchange'.pc = "idle" /\ exchange'.outcome = "thrown"
    BY <1>1 DEF ExchangeRows
<1>3. open /\ OpenInv
    BY <1>1 DEF ExchangeInv, ClosedInv, At
<1>4. OpenInv'
    BY <1>1, <1>2, <1>3 DEF OpenInv, PipesTypeOK, HeaderRead, KnownIds, Stream, Input, UpTo,
                            HeaderOf, Framed, Whole, Running, Busy
<1>5. QED
    BY <1>1, <1>2, <1>3, <1>4 DEF ExchangeInv, AnswerIntact, At

\* The input of the worker.
LEMMA InputFacts ==
    ASSUME PipesTypeOK
    PROVE  /\ Input \in Seq(Bytes) /\ worker.got \in Seq(Bytes) /\ stdin \in Seq(Bytes)
           /\ worker.pc = "reading" => Input = worker.got \o stdin
           /\ worker.pc # "reading" => Input = stdin
<1>1. worker.got \in Seq(Bytes) /\ stdin \in Seq(Bytes)
    BY DEF PipesTypeOK
<1>2. QED
    BY <1>1, JoinFacts DEF Input

\* The reader moves bytes, or the call goes on, with the same request.
LEMMA StreamMove ==
    ASSUME ExchangeInv, open, UNCHANGED <<worker, stdin, open, requests>>,
           stdout' \in Seq(Bytes), buffer' \in Seq(Bytes), Stream' = Stream,
           demand' \in {"none", "stopped", "cancelled", "timed_out"},
           exchange' \in ExchangeRows,
           exchange'.request = exchange.request, exchange'.offset = exchange.offset,
           exchange'.outcome = exchange.outcome, exchange'.answer = exchange.answer,
           \/ exchange'.pc = exchange.pc
           \/ {exchange.pc, exchange'.pc} \subseteq {"read", "check", "last"}
    PROVE  ExchangeInv'
<1>1. OpenInv /\ ~At("down")
    BY DEF ExchangeInv
<1>2. /\ At("write")' <=> At("write")
      /\ At("idle")' <=> At("idle")
      /\ At("down")' <=> At("down")
      /\ Busy' <=> Busy
    BY DEF At, Busy
<1>3. PipesTypeOK' /\ HeaderRead'
    BY <1>1 DEF OpenInv, PipesTypeOK, HeaderRead
<1>4. SentBytes' = SentBytes
    BY <1>2 DEF SentBytes
<1>5. Input' = Input
    BY DEF Input
<1>6. KnownIds'
    BY <1>1, <1>5 DEF OpenInv, KnownIds, UpTo, HeaderOf
<1>7. Untouched' <=> Untouched
    BY <1>5 DEF Untouched
<1>8. ASSUME Busy PROVE RequestInv' /\ ComputingInv' /\ AnswerInv'
    <2>1. RequestInv /\ ComputingInv /\ AnswerInv
        BY <1>1, <1>8 DEF OpenInv
    <2>2. RequestInv'
        BY <1>2, <2>1 DEF RequestInv
    <2>3. ComputingInv'
        BY <1>2, <2>1 DEF ComputingInv, HeaderOf, Encoded
    <2>4. AnswerInv'
        BY <1>2, <1>7, <2>1 DEF AnswerInv, AnswerSent, Recent, StraysBehind
    <2>5. QED
        BY <2>2, <2>3, <2>4
<1>9. ASSUME Busy PROVE EndsWith(Input, exchange.request, SentBytes)'
    BY <1>1, <1>4, <1>5, <1>9 DEF OpenInv, EndsWith
<1>10. OpenInv'
    BY <1>1, <1>2, <1>3, <1>6, <1>7, <1>8, <1>9 DEF OpenInv, Framed, Whole, OnlyStrays, Running
<1>11. QED
    BY <1>1, <1>2, <1>10 DEF ExchangeInv, AnswerIntact

\* A Kernel that is in a call holds the pipes, and its rows are as they should.
LEMMA BusyFacts ==
    ASSUME ExchangeInv, Busy
    PROVE  open /\ OpenInv /\ exchange \in ExchangeRows
BY DEF ExchangeInv, ClosedInv, Busy, At

LEMMA ReadChunkKeeps ==
    ASSUME ExchangeInv, ReadChunk
    PROVE  /\ ExchangeInv'
           /\ \/ GiveUp("failed")
              \/ /\ UNCHANGED <<worker, stdin, open, demand, requests>> /\ Stream' = Stream
                 /\ exchange'.pc = exchange.pc /\ exchange'.outcome = exchange.outcome
<1>1. Busy /\ exchange.pc \in {"read", "last"} /\ stdout # <<>>
    BY DEF ReadChunk, Reading, At, Busy
<1>2. open /\ OpenInv /\ PipesTypeOK /\ exchange \in ExchangeRows
    BY <1>1, BusyFacts DEF OpenInv
<1>3. PICK k \in ReadSizes(exchange.turn, Len(stdout)) :
        IF Overflows(buffer, k) THEN GiveUp("failed")
        ELSE /\ buffer' = buffer \o SubSeq(stdout, 1, k)
             /\ stdout' = SubSeq(stdout, k + 1, Len(stdout))
             /\ exchange' = [exchange EXCEPT !.turn = @ + k]
             /\ UNCHANGED <<worker, stdin, open, demand, requests>>
    BY DEF ReadChunk
<1>4. CASE Overflows(buffer, k)
    BY <1>3, <1>4, GiveUpKeeps
<1>5. CASE ~Overflows(buffer, k)
    <2>1. PICK b \in Seq(Bytes) : b = buffer
        BY <1>2, StreamFacts
    <2>2. PICK t \in Seq(Bytes) : t = stdout
        BY <1>2, StreamFacts
    <2>3. PICK o \in Seq(Bytes) : o = worker.out
        BY <1>2, StreamFacts
    <2>4. k \in 0 .. Len(t) /\ k \in Nat
        <3>1. Len(t) \in Nat /\ exchange.turn \in Nat
            BY <1>2, LenProperties DEF ExchangeRows
        <3>2. ChunkSize \in Int /\ ReadBudget - exchange.turn \in Int /\ Len(t) \in Int
            BY <3>1, FrameAssumption
        <3>3. Min({ChunkSize, ReadBudget - exchange.turn, Len(t)}) \in Int
              /\ Min({ChunkSize, ReadBudget - exchange.turn, Len(t)}) <= Len(t)
            BY <3>2, MinFacts
        <3>4. k \in 1 .. Min({ChunkSize, ReadBudget - exchange.turn, Len(t)})
            BY <2>2 DEF ReadSizes
        <3>5. QED
            BY <3>1, <3>3, <3>4
    <2>5. /\ buffer' = b \o SubSeq(t, 1, k) /\ stdout' = SubSeq(t, k + 1, Len(t))
          /\ exchange' = [exchange EXCEPT !.turn = exchange.turn + k]
          /\ UNCHANGED <<worker, stdin, open, demand, requests>>
        BY <1>3, <1>5, <2>1, <2>2
    <2>6. PICK u \in Seq(Bytes) : u = SubSeq(t, 1, k)
        BY <2>4, CutFacts
    <2>7. PICK v \in Seq(Bytes) : v = SubSeq(t, k + 1, Len(t))
        BY <2>4, CutFacts
    <2>8. b \o u \in Seq(Bytes) /\ (b \o u) \o v = b \o t
        <3>1. (b \o SubSeq(t, 1, k)) \o SubSeq(t, k + 1, Len(t)) = b \o t
            BY <2>4, MoveBytes
        <3>2. b \o u \in Seq(Bytes)
            BY JoinFacts
        <3>3. QED
            BY <2>6, <2>7, <3>1, <3>2
    <2>9. Stream' = Stream
        BY <2>1, <2>2, <2>5, <2>6, <2>7, <2>8 DEF Stream
    <2>10. /\ exchange' \in ExchangeRows /\ exchange'.pc = exchange.pc
           /\ exchange'.request = exchange.request /\ exchange'.offset = exchange.offset
           /\ exchange'.outcome = exchange.outcome /\ exchange'.answer = exchange.answer
        <3>1. exchange.turn + k \in Nat
            BY <1>2, <2>4 DEF ExchangeRows
        <3>2. QED
            BY <1>2, <2>5, <3>1 DEF ExchangeRows
    <2>11. demand' \in {"none", "stopped", "cancelled", "timed_out"}
        BY <2>5 DEF ExchangeInv
    <2>12. stdout' \in Seq(Bytes) /\ buffer' \in Seq(Bytes)
        BY <2>5, <2>6, <2>7, <2>8
    <2>13. ExchangeInv'
        BY <1>2, <2>5, <2>9, <2>10, <2>11, <2>12, StreamMove
    <2>14. QED
        BY <2>5, <2>9, <2>10, <2>13
<1>6. QED
    BY <1>4, <1>5

\* The steps of a call that change nothing but where it is.
LEMMA CallMoves ==
    ASSUME ExchangeInv, ReadNothing \/ CheckLast \/ Demand \/ CheckAgain
    PROVE  ExchangeInv'
<1>1. Busy /\ exchange.pc \in {"write", "read", "check", "last"}
    BY DEF ReadNothing, CheckLast, Demand, CheckAgain, At, Busy
<1>2. /\ open /\ OpenInv /\ PipesTypeOK /\ exchange \in ExchangeRows
      /\ demand \in {"none", "stopped", "cancelled", "timed_out"}
    BY <1>1, BusyFacts DEF OpenInv, ExchangeInv
<1>3. stdout \in Seq(Bytes) /\ buffer \in Seq(Bytes)
    BY <1>2 DEF PipesTypeOK
<1>4. ASSUME UNCHANGED <<worker, stdin, stdout, open, buffer, requests>>,
             demand' \in {"none", "stopped", "cancelled", "timed_out"},
             \/ exchange' = exchange
             \/ /\ exchange.pc \in {"read", "check", "last"}
                /\ \E pc \in {"read", "check", "last"} :
                      \/ exchange' = [exchange EXCEPT !.pc = pc]
                      \/ exchange' = [exchange EXCEPT !.pc = pc, !.turn = 0]
      PROVE  ExchangeInv'
    <2>1. /\ exchange' \in ExchangeRows
          /\ exchange'.request = exchange.request /\ exchange'.offset = exchange.offset
          /\ exchange'.outcome = exchange.outcome /\ exchange'.answer = exchange.answer
          /\ \/ exchange'.pc = exchange.pc
             \/ {exchange.pc, exchange'.pc} \subseteq {"read", "check", "last"}
        <3>1. CASE exchange' = exchange
            BY <1>2, <3>1
        <3>2. ASSUME NEW pc \in {"read", "check", "last"}, exchange' = [exchange EXCEPT !.pc = pc],
                     exchange.pc \in {"read", "check", "last"}
              PROVE  <2>1
            BY <1>2, <3>2 DEF ExchangeRows
        <3>3. ASSUME NEW pc \in {"read", "check", "last"},
                     exchange' = [exchange EXCEPT !.pc = pc, !.turn = 0],
                     exchange.pc \in {"read", "check", "last"}
              PROVE  <2>1
            BY <1>2, <3>3 DEF ExchangeRows
        <3>4. QED
            BY <1>4, <3>1, <3>2, <3>3
    <2>2. Stream' = Stream
        BY <1>4 DEF Stream
    <2>3. QED
        BY <1>2, <1>3, <1>4, <2>1, <2>2, StreamMove
<1>5. CASE ReadNothing
    BY <1>2, <1>4, <1>5 DEF ReadNothing, ReadDone, Reading, At, workerVars
<1>6. CASE CheckLast
    BY <1>2, <1>4, <1>6 DEF CheckLast, At, workerVars
<1>7. CASE Demand
    BY <1>4, <1>7 DEF Demand, workerVars
<1>8. CASE CheckAgain /\ Running
    BY <1>2, <1>4, <1>8 DEF CheckAgain, At, workerVars
<1>9. CASE CheckAgain /\ ~Running
    BY <1>9, GiveUpKeeps DEF CheckAgain
<1>10. QED
    BY <1>5, <1>6, <1>7, <1>8, <1>9

LEMMA GiveUpSteps ==
    ASSUME ExchangeInv,
           \/ WriteFindsDead \/ WriteInterrupted \/ ReadEnd \/ ReadInvalid \/ ReadForeign
           \/ CheckStopped \/ LastInterrupted
    PROVE  ExchangeInv'
<1>1. demand \in {"none", "stopped", "cancelled", "timed_out"}
    BY DEF ExchangeInv
<1>2. \E outcome \in {"failed", "crashed", "stopped", "cancelled", "timed_out", "none"} :
        GiveUp(outcome)
    BY <1>1 DEF WriteFindsDead, WriteInterrupted, ReadEnd, ReadInvalid, ReadForeign,
                CheckStopped, LastInterrupted
<1>3. QED
    BY <1>2, GiveUpKeeps

\* Taking bytes from the front of a stream that is in two places.
LEMMA RestOfJoin ==
    ASSUME NEW S, NEW s \in Seq(S), NEW t \in Seq(S), NEW n \in 0 .. Len(s)
    PROVE  SubSeq(s, n + 1, Len(s)) \o t = SubSeq(s \o t, n + 1, Len(s \o t))
<1>1. PICK w \in Seq(S) : w = s \o t
    BY JoinFacts
<1>2. /\ Len(s) \in Nat /\ Len(t) \in Nat /\ Len(w) = Len(s) + Len(t)
      /\ \A i \in 1 .. Len(s) : w[i] = s[i]
      /\ \A i \in 1 .. Len(t) : w[Len(s) + i] = t[i]
    BY <1>1, JoinFacts
<1>3. n \in 0 .. Len(w) /\ n \in Nat
    BY <1>2
<1>4. PICK u \in Seq(S) : /\ u = SubSeq(s, n + 1, Len(s)) /\ Len(u) = Len(s) - n
                          /\ \A i \in 1 .. Len(s) - n : u[i] = s[n + i]
    <2>1. /\ SubSeq(s, n + 1, Len(s)) \in Seq(S) /\ Len(SubSeq(s, n + 1, Len(s))) = Len(s) - n
          /\ \A i \in 1 .. Len(s) - n : SubSeq(s, n + 1, Len(s))[i] = s[n + i]
        BY CutFacts
    <2>2. QED
        BY <2>1
<1>5. PICK v \in Seq(S) : /\ v = SubSeq(w, n + 1, Len(w)) /\ Len(v) = Len(w) - n
                          /\ \A i \in 1 .. Len(w) - n : v[i] = w[n + i]
    <2>1. /\ SubSeq(w, n + 1, Len(w)) \in Seq(S) /\ Len(SubSeq(w, n + 1, Len(w))) = Len(w) - n
          /\ \A i \in 1 .. Len(w) - n : SubSeq(w, n + 1, Len(w))[i] = w[n + i]
        BY <1>3, CutFacts
    <2>2. QED
        BY <2>1
<1>6. /\ u \o t \in Seq(S) /\ Len(u \o t) = Len(u) + Len(t)
      /\ \A i \in 1 .. Len(u) : (u \o t)[i] = u[i]
      /\ \A i \in 1 .. Len(t) : (u \o t)[Len(u) + i] = t[i]
    BY JoinFacts
<1>7. Len(u \o t) = Len(v)
    BY <1>2, <1>3, <1>4, <1>5, <1>6
<1>8. ASSUME NEW i \in 1 .. Len(u \o t) PROVE (u \o t)[i] = v[i]
    <2>1. i \in Nat /\ i \in 1 .. Len(w) - n /\ v[i] = w[n + i]
        BY <1>2, <1>3, <1>5, <1>7
    <2>2. CASE i <= Len(s) - n
        <3>1. i \in 1 .. Len(u) /\ i \in 1 .. Len(s) - n /\ n + i \in 1 .. Len(s)
            BY <1>2, <1>3, <1>4, <2>1, <2>2
        <3>2. QED
            BY <1>2, <1>4, <1>6, <2>1, <3>1
    <2>3. CASE ~(i <= Len(s) - n)
        <3>1. PICK j \in 1 .. Len(t) : i = Len(u) + j /\ n + i = Len(s) + j
            <4> DEFINE a == Len(s)  c == Len(t)  d == Len(u)
            <4>0. a \in Nat /\ c \in Nat /\ d = a - n /\ n \in 0 .. a
                  /\ i \in 1 .. (a + c) - n /\ ~(i <= a - n)
                BY <1>2, <1>4, <2>1, <2>3
            <4> HIDE DEF a, c, d
            <4>1. i - d \in 1 .. c /\ i = d + (i - d) /\ n + i = a + (i - d)
                BY <4>0
            <4> USE DEF a, c, d
            <4>2. QED
                BY <4>1
        <3>2. (u \o t)[i] = t[j] /\ w[n + i] = t[j]
            BY <1>2, <1>6, <3>1
        <3>3. QED
            BY <2>1, <3>2
    <2>4. QED
        BY <2>2, <2>3
<1>9. u \o t = v
    BY <1>6, <1>7, <1>8, SeqEqual
<1>10. QED
    BY <1>1, <1>4, <1>5, <1>9

LEMMA ReadAnswerKeeps ==
    ASSUME ExchangeInv, ReadAnswer
    PROVE  ExchangeInv'
<1>1. Busy
    BY DEF ReadAnswer, ReadDone, Reading, At, Busy
<1>2. /\ open /\ OpenInv /\ PipesTypeOK /\ exchange \in ExchangeRows
      /\ Framed(Stream) /\ (Running => Whole(Stream))
      /\ exchange.request.correlation = requests /\ AnswerInv
      /\ HeaderRead /\ KnownIds /\ requests \in Nat
    BY <1>1, BusyFacts DEF OpenInv, RequestInv, ExchangeInv
<1>3. PICK b \in Seq(Bytes) : b = buffer
    BY <1>2, StreamFacts
<1>4. PICK t \in Seq(Bytes) : t = stdout \o worker.out
    BY <1>2, StreamFacts
<1>5. PICK w \in Seq(Bytes) : w = Stream /\ w = b \o t
    BY <1>2, <1>3, <1>4, StreamFacts
<1>6. ReadFrame(b) = "frame" /\ Framed(b) /\ Framed(w)
    BY <1>2, <1>3, <1>5, FramedStart DEF ReadAnswer
<1>7. PICK f \in Frames : /\ f = HeaderOf(b) /\ f = b[1].of /\ b # <<>> /\ Size(f) <= Len(b)
                          /\ FirstFrame(b) = Encoded(f) /\ HeaderOf(Encoded(f)) = f
    BY <1>6, FrameRead
<1>8. PICK n : n = Size(f) /\ n \in Nat
    BY SizeFacts
<1>9. /\ Len(b) \in Nat /\ Len(t) \in Nat /\ Len(w) = Len(b) + Len(t) /\ n \in 0 .. Len(b)
      /\ n <= Len(w) /\ n \in 0 .. Len(w)
    <2>1. Len(b) \in Nat /\ Len(t) \in Nat /\ Len(w) = Len(b) + Len(t)
        BY <1>5, JoinFacts
    <2>2. QED
        BY <1>7, <1>8, <2>1
<1>10. w # <<>> /\ w[1] = b[1] /\ w[1].of = f
    BY <1>5, <1>7, StraysStart
<1>11. f.correlation = requests
    BY <1>2, <1>3, <1>7 DEF ReadAnswer, Accepts
<1>12. Untouched /\ \A i \in DOMAIN w : i > n => StrayByte(w[i], requests)
    <2>1. AnswerSent
        BY <1>5, <1>10, <1>11 DEF AnswerSent, Recent
    <2>2. QED
        BY <1>2, <1>5, <1>8, <1>10, <2>1 DEF AnswerInv, StraysBehind
<1>13. PICK r \in Seq(Bytes) : r = SubSeq(b, n + 1, Len(b))
    BY <1>9, CutFacts
<1>14. /\ exchange' = [exchange EXCEPT !.pc = "idle", !.answer = Encoded(f),
                !.outcome = IF f.type = "WorkerResult" THEN "succeeded" ELSE "failed"]
       /\ buffer' = r
       /\ UNCHANGED <<worker, stdin, stdout, open, demand, requests>>
    BY <1>3, <1>7, <1>8, <1>13 DEF ReadAnswer, AfterFirstFrame, workerVars
<1>15. PICK v \in Seq(Bytes) : /\ v = SubSeq(w, n + 1, Len(w)) /\ Len(v) = Len(w) - n
                               /\ \A i \in 1 .. Len(w) - n : v[i] = w[n + i]
    <2>1. /\ SubSeq(w, n + 1, Len(w)) \in Seq(Bytes)
          /\ Len(SubSeq(w, n + 1, Len(w))) = Len(w) - n
          /\ \A i \in 1 .. Len(w) - n : SubSeq(w, n + 1, Len(w))[i] = w[n + i]
        BY <1>9, CutFacts
    <2>2. QED
        BY <2>1
<1>16. Stream' = v
    <2>1. r \o t = v
        BY <1>5, <1>9, <1>13, <1>15, RestOfJoin
    <2>2. PICK p \in Seq(Bytes) : p = stdout
        BY <1>2, StreamFacts
    <2>3. PICK q \in Seq(Bytes) : q = worker.out
        BY <1>2, StreamFacts
    <2>4. (r \o p) \o q = r \o (p \o q)
        <3>1. Associates(r, p, q)
            BY BytesAssociative
        <3>2. QED
            BY <3>1 DEF Associates
    <2>5. QED
        BY <1>4, <1>14, <2>1, <2>2, <2>3, <2>4 DEF Stream
<1>17. Framed(v) /\ (Running => Whole(v))
    <2>1. Framed(v) /\ (Whole(w) => Whole(v))
        BY <1>6, <1>8, <1>9, <1>10, <1>15, FramedRest
    <2>2. QED
        BY <1>2, <1>5, <2>1
<1>18. OnlyStrays(v, requests)
    <2>1. DOMAIN v = 1 .. Len(w) - n /\ DOMAIN w = 1 .. Len(w)
        BY <1>15, LenProperties
    <2>2. \A i \in 1 .. Len(w) - n : n + i \in 1 .. Len(w) /\ n + i > n
        BY <1>8, <1>9
    <2>3. QED
        BY <1>12, <1>15, <2>1, <2>2 DEF OnlyStrays
<1>19. /\ exchange' \in ExchangeRows /\ exchange'.pc = "idle" /\ exchange'.answer = Encoded(f)
       /\ exchange'.request = exchange.request
       /\ exchange'.outcome = IF f.type = "WorkerResult" THEN "succeeded" ELSE "failed"
    <2>1. Encoded(f) \in Seq(Bytes)
        BY EncodedFacts
    <2>2. QED
        BY <1>2, <1>14, <2>1 DEF ExchangeRows
<1>20. AnswerIntact'
    <2>1. HeaderOf(Encoded(f)) = f /\ exchange.request.correlation = f.correlation
        BY <1>2, <1>7, <1>11
    <2>2. HeaderOf(exchange.answer)' = f
        BY <1>19, <2>1 DEF HeaderOf
    <2>3. QED
        BY <1>19, <2>1, <2>2 DEF AnswerIntact, Encoded
<1>21. OpenInv'
    <2>1. PipesTypeOK' /\ HeaderRead'
        BY <1>2, <1>14 DEF PipesTypeOK, HeaderRead
    <2>2. Untouched' /\ Input' = Input
        BY <1>12, <1>14 DEF Untouched, Input
    <2>3. ~Busy' /\ (Running' <=> Running) /\ requests' = requests
        BY <1>14, <1>19 DEF Busy, Running
    <2>4. Framed(Stream)' /\ (Running' => Whole(Stream)') /\ OnlyStrays(Stream, requests)'
        BY <1>16, <1>17, <1>18, <2>3 DEF Framed, Whole, OnlyStrays
    <2>5. UpTo(Stream, requests)'
        BY <2>4 DEF OnlyStrays, StrayByte, UpTo
    <2>6. KnownIds'
        BY <1>2, <1>14, <2>2, <2>5 DEF KnownIds, UpTo, HeaderOf
    <2>7. QED
        BY <2>1, <2>2, <2>3, <2>4, <2>6 DEF OpenInv
<1>22. QED
    BY <1>2, <1>14, <1>19, <1>20, <1>21 DEF ExchangeInv, At
-----------------------------------------------------------------------------
(***************************************************************************)
(* The steps between two calls.                                            *)
(***************************************************************************)
LEMMA EmptyFacts ==
    /\ <<>> \in Seq(Bytes) /\ Len(<<>>) = 0 /\ <<>> \o <<>> = <<>>
    /\ (<<>> \o <<>>) \o <<>> = <<>>
<1>1. <<>> \in Seq(Bytes) /\ Len(<<>>) = 0
    BY EmptySeq
<1>2. <<>> \o <<>> = <<>>
    BY <1>1, ConcatEmptySeq
<1>3. QED
    BY <1>1, <1>2

LEMMA FreshFacts ==
    ASSUME worker = Fresh, stdin = <<>>, stdout = <<>>, buffer = <<>>
    PROVE  /\ PipesTypeOK /\ HeaderRead /\ Stream = <<>> /\ Framed(Stream) /\ Whole(Stream)
           /\ Input = <<>> /\ Untouched /\ Running /\ KnownIds
           /\ \A n : OnlyStrays(Stream, n)
<1>1. Stream = <<>>
    BY EmptyFacts DEF Stream, Fresh
<1>2. PipesTypeOK
    BY EmptyFacts DEF PipesTypeOK, Fresh
<1>3. Input = <<>> /\ Untouched
    BY EmptyFacts DEF Untouched, Input, Fresh
<1>4. DOMAIN Stream = {} /\ DOMAIN Input = {}
    BY <1>1, <1>3
<1>5. HeaderRead
    BY EmptyFacts, FrameAssumption DEF HeaderRead, Fresh
<1>6. KnownIds
    BY <1>4 DEF KnownIds, UpTo, Fresh
<1>7. QED
    BY <1>1, <1>2, <1>3, <1>4, <1>5, <1>6 DEF Framed, Whole, Running, OnlyStrays, Fresh

LEMMA SpawnKeeps ==
    ASSUME ExchangeInv, Spawn
    PROVE  ExchangeInv'
<1>1. /\ At("idle") /\ ~open /\ worker' = Fresh /\ open' = TRUE /\ buffer' = <<>>
      /\ UNCHANGED <<stdin, stdout, exchange, demand, requests>>
    BY DEF Spawn
<1>2. stdin' = <<>> /\ stdout' = <<>>
    BY <1>1 DEF ExchangeInv, ClosedInv, At
<1>3. OpenInv'
    <2>1. Stream' = <<>> /\ Input' = <<>> /\ DOMAIN Stream' = {} /\ DOMAIN Input' = {}
        BY <1>1, <1>2, EmptyFacts DEF Stream, Input, Fresh
    <2>2. /\ PipesTypeOK' /\ HeaderRead' /\ Framed(Stream)' /\ Whole(Stream)'
          /\ Untouched' /\ OnlyStrays(Stream, requests)' /\ KnownIds'
        BY <1>1, <1>2, <2>1, EmptyFacts, FrameAssumption
           DEF PipesTypeOK, HeaderRead, Framed, Whole, Untouched, OnlyStrays, KnownIds, UpTo,
               Fresh
    <2>3. ~Busy'
        BY <1>1 DEF Busy, At
    <2>4. QED
        BY <2>2, <2>3 DEF OpenInv
<1>4. QED
    BY <1>1, <1>3 DEF ExchangeInv, AnswerIntact, At

LEMMA BeginFindsDeadKeeps ==
    ASSUME ExchangeInv, BeginFindsDead
    PROVE  ExchangeInv'
<1>1. /\ exchange' = [Idle EXCEPT !.outcome = "crashed"] /\ requests' = requests + 1
      /\ UNCHANGED <<buffer, demand>>
      /\ worker' = Exited /\ stdin' = <<>> /\ stdout' = <<>> /\ open' = FALSE
    BY DEF BeginFindsDead, Close
<1>2. exchange' \in ExchangeRows /\ exchange'.pc = "idle" /\ exchange'.outcome # "succeeded"
    BY <1>1, EmptyFacts DEF ExchangeRows, Idle
<1>3. QED
    BY <1>1, <1>2 DEF ExchangeInv, AnswerIntact, ClosedInv, At

LEMMA KernelDiesKeeps ==
    ASSUME ExchangeInv, KernelDies
    PROVE  ExchangeInv'
<1>1. exchange' = [Idle EXCEPT !.pc = "down"] /\ open' = FALSE /\ UNCHANGED <<demand, requests>>
    BY DEF KernelDies
<1>2. exchange' \in ExchangeRows /\ exchange'.pc = "down" /\ exchange'.outcome # "succeeded"
    BY <1>1, EmptyFacts DEF ExchangeRows, Idle
<1>3. QED
    BY <1>1, <1>2 DEF ExchangeInv, AnswerIntact, ClosedInv, At

LEMMA RequestFacts ==
    ASSUME NEW size \in RequestSizes, requests \in Nat
    PROVE  Request(size) \in Frames /\ Request(size).correlation = requests + 1
<1>1. size \in Nat /\ requests + 1 \in Nat
    BY ExchangeAssumption, FrameAssumption
<1>2. "WorkerExecute" \in MessageType
    BY DEF MessageType
<1>3. QED
    BY <1>1, <1>2 DEF Request, Frames

LEMMA BeginKeeps ==
    ASSUME ExchangeInv, Begin
    PROVE  ExchangeInv'
<1>1. /\ At("idle") /\ open /\ Running /\ requests' = requests + 1 /\ demand' = "none"
      /\ UNCHANGED <<worker, stdin, stdout, open, buffer>>
    BY DEF Begin, workerVars
<1>2. PICK size \in RequestSizes :
        exchange' = [Idle EXCEPT !.pc = "write", !.request = Request(size)]
    BY DEF Begin
<1>3. /\ PipesTypeOK /\ HeaderRead /\ KnownIds /\ Framed(Stream) /\ Whole(Stream)
      /\ requests \in Nat
    BY <1>1 DEF ExchangeInv, OpenInv
<1>4. PICK f \in Frames : f = Request(size) /\ f.correlation = requests + 1
    BY <1>3, RequestFacts
<1>5. /\ exchange' \in ExchangeRows /\ exchange'.pc = "write" /\ exchange'.request = f
      /\ exchange'.offset = 0 /\ exchange'.outcome = "none"
    BY <1>2, <1>4, EmptyFacts DEF ExchangeRows, Idle
<1>6. requests + 1 # 0 /\ requests + 1 \in Nat
    BY <1>3
<1>7. Stream' = Stream /\ Input' = Input /\ Stream \in Seq(Bytes) /\ Input \in Seq(Bytes)
    BY <1>1, <1>3, StreamFacts, InputFacts DEF Stream, Input
\* Every byte is of an earlier request.
<1>8. ASSUME NEW s \in Seq(Bytes), UpTo(s, requests)
      PROVE  \A i \in DOMAIN s : /\ s[i].of.correlation <= requests + 1
                                 /\ s[i].of.correlation # requests + 1
    <2>1. ASSUME NEW i \in DOMAIN s
          PROVE  s[i].of.correlation <= requests /\ s[i].of.correlation \in Nat
        <3>1. DOMAIN s = 1 .. Len(s)
            BY LenProperties
        <3>2. s[i].of \in Frames
            BY <3>1, ElementOfSeq, ByteFacts
        <3>3. QED
            BY <1>8, <3>2 DEF UpTo, Frames
    <2>2. QED
        BY <1>3, <2>1
<1>9. ASSUME worker.pc = "computing"
      PROVE  /\ HeaderOf(worker.got).correlation <= requests + 1
             /\ HeaderOf(worker.got).correlation # requests + 1
    <2>1. HeaderOf(worker.got).correlation <= requests
        BY <1>3, <1>9 DEF KnownIds
    <2>2. HeaderOf(worker.got).correlation \in Nat
        <3>1. worker.got \in Seq(Bytes) /\ HeaderSize <= Len(worker.got)
            BY <1>3, <1>9 DEF HeaderRead, PipesTypeOK
        <3>2. HeaderSize \in 1 .. Len(worker.got)
            BY <3>1, LenProperties, FrameAssumption
        <3>3. worker.got[HeaderSize].of \in Frames
            BY <3>1, <3>2, ElementOfSeq, ByteFacts
        <3>4. QED
            BY <3>3 DEF HeaderOf, Frames
    <2>3. QED
        BY <1>3, <2>1, <2>2
<1>10. At("write")' /\ SentBytes' = 0 /\ 0 < Size(f)
    <2>1. Size(f) \in Nat /\ 0 < Size(f)
        BY SizeFacts
    <2>2. QED
        BY <1>5, <2>1 DEF At, SentBytes
<1>11. RequestInv'
    <2>1. Size(exchange.request)' = Size(f)
        BY <1>5 DEF Size
    <2>2. QED
        BY <1>1, <1>4, <1>5, <1>6, <1>10, <2>1 DEF RequestInv
<1>12. ComputingInv'
    BY <1>1, <1>9 DEF ComputingInv, HeaderOf
<1>13. AnswerInv'
    <2>1. UpTo(Stream, requests)
        BY <1>3 DEF KnownIds
    <2>2. ASSUME Stream # <<>> PROVE 1 \in DOMAIN Stream
        <3>1. Len(Stream) # 0 /\ Len(Stream) \in Nat /\ DOMAIN Stream = 1 .. Len(Stream)
            BY <1>7, <2>2, EmptySeq, LenProperties
        <3>2. QED
            BY <3>1
    <2>3. Stream # <<>> => Stream[1].of.correlation # requests + 1
        BY <1>7, <1>8, <2>1, <2>2
    <2>4. QED
        BY <1>1, <1>7, <2>3 DEF AnswerInv, AnswerSent, Recent
<1>14. EndsWith(Input, exchange.request, SentBytes)'
    <2>1. UpTo(Input, requests)
        BY <1>3 DEF KnownIds
    <2>2. \A i \in DOMAIN Input : Input[i].of.correlation # f.correlation
        BY <1>4, <1>7, <1>8, <2>1
    <2>3. QED
        BY <1>5, <1>7, <2>2 DEF EndsWith
<1>15. KnownIds'
    <2>1. UpTo(Stream, requests) /\ UpTo(Input, requests)
        BY <1>3 DEF KnownIds
    <2>2. UpTo(Stream, requests + 1) /\ UpTo(Input, requests + 1)
        <3>1. UpTo(Stream, requests + 1)
            BY <1>7, <1>8, <2>1 DEF UpTo
        <3>2. UpTo(Input, requests + 1)
            BY <1>7, <1>8, <2>1 DEF UpTo
        <3>3. QED
            BY <3>1, <3>2
    <2>3. QED
        BY <1>1, <1>7, <1>9, <2>2 DEF KnownIds, UpTo, HeaderOf
<1>16. OpenInv'
    <2>1. PipesTypeOK' /\ HeaderRead'
        BY <1>1, <1>3 DEF PipesTypeOK, HeaderRead
    <2>2. Framed(Stream)' /\ Whole(Stream)'
        BY <1>3, <1>7 DEF Framed, Whole
    <2>3. QED
        BY <1>5, <1>11, <1>12, <1>13, <1>14, <1>15, <2>1, <2>2 DEF OpenInv, At, Busy
<1>17. QED
    BY <1>1, <1>5, <1>6, <1>16 DEF ExchangeInv, AnswerIntact, At
-----------------------------------------------------------------------------
(***************************************************************************)
(* The request on its way to the worker.                                   *)
(***************************************************************************)
\* A piece of a frame.
LEMMA PieceFacts ==
    ASSUME NEW f \in Frames, NEW o \in Nat, NEW k \in Nat, 1 <= k, o + k <= Size(f)
    PROVE  \E p \in Seq(Bytes) :
               /\ p = SubSeq(Encoded(f), o + 1, o + k) /\ Len(p) = k
               /\ \A i \in 1 .. k : p[i] = [of |-> f, at |-> o + i]
               /\ \A i \in 1 .. k : p[i].of = f
<1>1. PICK e \in Seq(Bytes) : /\ e = Encoded(f) /\ Len(e) = Size(f)
                              /\ \A i \in 1 .. Size(f) : e[i] = [of |-> f, at |-> i]
    BY EncodedFacts
<1>2. PICK n \in Nat : n = Size(f)
    BY SizeFacts
<1>3. /\ \A i \in o + 1 .. o + k : e[i] \in Bytes
      /\ o + 1 \in Int /\ o + k \in Int
    <2>1. \A i \in o + 1 .. o + k : i \in 1 .. Len(e)
        BY <1>1, <1>2
    <2>2. QED
        BY <2>1, ElementOfSeq
<1>4. /\ SubSeq(e, o + 1, o + k) \in Seq(Bytes)
      /\ Len(SubSeq(e, o + 1, o + k)) =
            IF o + 1 <= o + k THEN (o + k) - (o + 1) + 1 ELSE 0
      /\ \A i \in 1 .. (o + k) - (o + 1) + 1 :
            SubSeq(e, o + 1, o + k)[i] = e[(o + 1) + i - 1]
    BY <1>3, SubSeqProperties
<1>5. (o + k) - (o + 1) + 1 = k /\ o + 1 <= o + k /\ \A i \in 1 .. k : (o + 1) + i - 1 = o + i
    OBVIOUS
<1>6. Len(SubSeq(e, o + 1, o + k)) = k
    BY <1>4, <1>5
<1>7. ASSUME NEW i \in 1 .. k
      PROVE  /\ SubSeq(e, o + 1, o + k)[i] = [of |-> f, at |-> o + i]
             /\ SubSeq(e, o + 1, o + k)[i].of = f
    <2>1. i \in 1 .. (o + k) - (o + 1) + 1 /\ o + i \in 1 .. Size(f)
        BY <1>2, <1>5
    <2>2. SubSeq(e, o + 1, o + k)[i] = e[(o + 1) + i - 1]
        BY <1>4, <2>1
    <2>3. SubSeq(e, o + 1, o + k)[i] = [of |-> f, at |-> o + i]
        BY <1>1, <1>5, <2>1, <2>2
    <2>4. [of |-> f, at |-> o + i].of = f
        BY Zenon
    <2>5. QED
        BY <2>3, <2>4, Zenon
<1>8. QED
    BY <1>1, <1>4, <1>6, <1>7

LEMMA JoinCounted ==
    ASSUME NEW s \in Seq(Bytes), NEW t \in Seq(Bytes), NEW m, m = Len(s), NEW k, k = Len(t)
    PROVE  /\ s \o t \in Seq(Bytes) /\ m \in Nat /\ k \in Nat /\ Len(s \o t) = m + k
           /\ DOMAIN (s \o t) = 1 .. m + k /\ DOMAIN s = 1 .. m /\ DOMAIN t = 1 .. k
           /\ \A i \in 1 .. m : (s \o t)[i] = s[i]
           /\ \A i \in 1 .. k : (s \o t)[m + i] = t[i]
<1>1. DOMAIN s = 1 .. Len(s) /\ DOMAIN t = 1 .. Len(t)
    BY LenProperties
<1>2. /\ s \o t \in Seq(Bytes) /\ Len(s) \in Nat /\ Len(t) \in Nat
      /\ Len(s \o t) = Len(s) + Len(t)
      /\ DOMAIN (s \o t) = 1 .. Len(s) + Len(t)
      /\ \A i \in 1 .. Len(s) : (s \o t)[i] = s[i]
      /\ \A i \in 1 .. Len(t) : (s \o t)[Len(s) + i] = t[i]
    BY JoinFacts
<1>3. QED
    BY <1>1, <1>2

\* The input ends with the request when more of it is written.
LEMMA EndGrows ==
    ASSUME NEW f \in Frames, NEW o \in Nat, NEW s \in Seq(Bytes), NEW p \in Seq(Bytes)
    PROVE  EndsWith(s, f, o) /\ (\A i \in 1 .. Len(p) : p[i] = [of |-> f, at |-> o + i])
               => EndsWith(s \o p, f, o + Len(p))
<1>1. PICK t \in Seq(Bytes) : t = s \o p
    BY JoinFacts
<1>2. PICK m \in Nat, k \in Nat : m = Len(s) /\ k = Len(p)
    BY LenProperties
<1>3. /\ Len(t) = m + k /\ DOMAIN t = 1 .. m + k /\ DOMAIN s = 1 .. m
      /\ \A i \in 1 .. m : t[i] = s[i]
      /\ \A i \in 1 .. k : t[m + i] = p[i]
    BY <1>1, <1>2, JoinCounted
<1> SUFFICES ASSUME EndsWith(s, f, o), \A i \in 1 .. k : p[i] = [of |-> f, at |-> o + i]
             PROVE  EndsWith(t, f, o + k)
    BY <1>1, <1>2
<1>4. ASSUME NEW j \in m + 1 .. m + k PROVE t[j] = [of |-> f, at |-> (o + k) - (m + k) + j]
    <2>1. PICK i \in 1 .. k : j = m + i
        <3>1. j - m \in 1 .. k /\ j = m + (j - m)
            OBVIOUS
        <3>2. QED
            BY <3>1
    <2>2. o + i = (o + k) - (m + k) + j
        BY <2>1
    <2>3. t[j] = [of |-> f, at |-> o + i]
        BY <1>3, <2>1
    <2>4. QED
        BY <2>2, <2>3
<1>5. ASSUME NEW i \in 1 .. m + k, t[i].of.correlation = f.correlation, NEW j \in i .. m + k
      PROVE  t[j] = [of |-> f, at |-> (o + k) - (m + k) + j]
    <2>1. CASE j > m
        <3>1. j \in m + 1 .. m + k
            BY <2>1
        <3>2. QED
            BY <1>4, <3>1
    <2>2. CASE ~(j > m)
        <3>1. i \in 1 .. m /\ j \in 1 .. m /\ j \in i .. m
            BY <2>2
        <3>2. s[i].of.correlation = f.correlation
            BY <1>3, <1>5, <3>1
        <3>3. s[j] = [of |-> f, at |-> o - m + j]
            BY <1>2, <1>3, <3>1, <3>2 DEF EndsWith
        <3>4. o - m + j = (o + k) - (m + k) + j
            BY <3>1
        <3>5. QED
            BY <1>3, <3>1, <3>3, <3>4
    <2>3. QED
        BY <2>1, <2>2
<1>6. QED
    BY <1>3, <1>5 DEF EndsWith

\* So it does when the first of it are taken, or are taken for something else.
LEMMA EndKept ==
    ASSUME NEW f, NEW m \in Nat, NEW s \in Seq(Bytes), NEW r \in Seq(Bytes),
           EndsWith(s \o r, f, m)
    PROVE  /\ EndsWith(r, f, m)
           /\ \A t \in Seq(Bytes) :
                Len(t) = Len(s) /\ (\A i \in DOMAIN t : t[i].of.correlation # f.correlation)
                    => EndsWith(t \o r, f, m)
<1>1. PICK x \in Seq(Bytes) : x = s \o r
    BY JoinFacts
<1>2. PICK a \in Nat, b \in Nat : a = Len(s) /\ b = Len(r)
    BY LenProperties
<1>3. /\ Len(x) = a + b /\ DOMAIN x = 1 .. a + b /\ DOMAIN r = 1 .. b
      /\ \A i \in 1 .. b : x[a + i] = r[i]
    BY <1>1, <1>2, JoinFacts, LenProperties
<1>4. ASSUME NEW i \in 1 .. b, r[i].of.correlation = f.correlation, NEW j \in i .. b
      PROVE  /\ r[j] = [of |-> f, at |-> m - b + j]
             /\ r[j] = [of |-> f, at |-> m - (a + b) + (a + j)]
    <2>1. a + i \in 1 .. a + b /\ a + j \in a + i .. a + b /\ j \in 1 .. b
        OBVIOUS
    <2>2. x[a + i].of.correlation = f.correlation
        BY <1>3, <1>4
    <2>3. x[a + j] = [of |-> f, at |-> m - (a + b) + (a + j)]
        BY <1>1, <1>3, <2>1, <2>2 DEF EndsWith
    <2>4. m - (a + b) + (a + j) = m - b + j
        BY <2>1
    <2>5. QED
        BY <1>3, <2>1, <2>3, <2>4
<1>5. EndsWith(r, f, m)
    BY <1>2, <1>3, <1>4 DEF EndsWith
<1>6. ASSUME NEW t \in Seq(Bytes), Len(t) = a,
             \A i \in DOMAIN t : t[i].of.correlation # f.correlation
      PROVE  EndsWith(t \o r, f, m)
    <2>1. PICK y \in Seq(Bytes) : y = t \o r
        BY JoinFacts
    <2>2. /\ Len(y) = a + b /\ DOMAIN y = 1 .. a + b /\ DOMAIN t = 1 .. a
          /\ \A i \in 1 .. a : y[i] = t[i]
          /\ \A i \in 1 .. b : y[a + i] = r[i]
        <3>1. /\ Len(y) = Len(t) + Len(r) /\ DOMAIN y = 1 .. Len(t) + Len(r)
              /\ \A i \in 1 .. Len(t) : y[i] = t[i]
              /\ \A i \in 1 .. Len(r) : y[Len(t) + i] = r[i]
            BY <2>1, JoinFacts
        <3>2. DOMAIN t = 1 .. Len(t)
            BY LenProperties
        <3>3. QED
            BY <1>2, <1>6, <3>1, <3>2
    <2>3. ASSUME NEW i \in 1 .. a + b, y[i].of.correlation = f.correlation, NEW j \in i .. a + b
          PROVE  y[j] = [of |-> f, at |-> m - (a + b) + j]
        <3>1. i \notin 1 .. a
            BY <1>6, <2>2, <2>3
        <3>2. PICK c \in 1 .. b : i = a + c
            <4>1. i - a \in 1 .. b /\ i = a + (i - a)
                BY <3>1
            <4>2. QED
                BY <4>1
        <3>3. PICK d \in c .. b : j = a + d /\ d \in 1 .. b
            <4>1. j - a \in c .. b /\ j = a + (j - a) /\ j - a \in 1 .. b
                BY <3>2
            <4>2. QED
                BY <4>1
        <3>4. r[c].of.correlation = f.correlation /\ y[j] = r[d]
            BY <2>2, <2>3, <3>2, <3>3
        <3>5. r[d] = [of |-> f, at |-> m - (a + b) + (a + d)]
            BY <1>4, <3>4
        <3>6. QED
            BY <3>3, <3>4, <3>5
    <2>4. EndsWith(y, f, m)
        BY <2>2, <2>3 DEF EndsWith
    <2>5. QED
        BY <2>1, <2>4
<1>7. QED
    BY <1>2, <1>5, <1>6

\* Ids of a concatenation.
LEMMA JoinUpTo ==
    ASSUME NEW s \in Seq(Bytes), NEW t \in Seq(Bytes), NEW n
    PROVE  UpTo(s \o t, n) <=> UpTo(s, n) /\ UpTo(t, n)
<1>1. /\ DOMAIN (s \o t) = 1 .. Len(s) + Len(t) /\ Len(s) \in Nat /\ Len(t) \in Nat
      /\ DOMAIN s = 1 .. Len(s) /\ DOMAIN t = 1 .. Len(t)
      /\ \A i \in 1 .. Len(s) : (s \o t)[i] = s[i]
      /\ \A i \in 1 .. Len(t) : (s \o t)[Len(s) + i] = t[i]
    BY JoinFacts, LenProperties
<1>2. ASSUME UpTo(s \o t, n) PROVE UpTo(s, n) /\ UpTo(t, n)
    <2>1. \A i \in 1 .. Len(s) : i \in 1 .. Len(s) + Len(t)
        BY <1>1
    <2>2. \A i \in 1 .. Len(t) : Len(s) + i \in 1 .. Len(s) + Len(t)
        BY <1>1
    <2>3. QED
        BY <1>1, <1>2, <2>1, <2>2 DEF UpTo
<1>3. ASSUME UpTo(s, n), UpTo(t, n), NEW i \in DOMAIN (s \o t)
      PROVE  (s \o t)[i].of.correlation <= n
    <2>1. \/ i \in DOMAIN s /\ (s \o t)[i] = s[i]
          \/ \E j \in DOMAIN t : i = Len(s) + j /\ (s \o t)[i] = t[j]
        BY JoinPlaces
    <2>2. QED
        BY <1>3, <2>1 DEF UpTo
<1>4. QED
    BY <1>2, <1>3 DEF UpTo

LEMMA WriteSomeKeeps ==
    ASSUME ExchangeInv, WriteSome
    PROVE  /\ ExchangeInv' /\ Stream' = Stream /\ UNCHANGED <<worker, open, requests, demand>>
           /\ exchange'.pc \in {"write", "read"} /\ exchange'.outcome = exchange.outcome
           /\ Input' # <<>>
           /\ Input # <<>> => Input'[1] = Input[1]
           /\ Input = <<>> => Input'[1].of.correlation = requests
<1>1. Busy /\ At("write") /\ Running
    BY DEF WriteSome, At, Busy
<1>2. /\ open /\ OpenInv /\ PipesTypeOK /\ exchange \in ExchangeRows
      /\ Framed(Stream) /\ Whole(Stream) /\ HeaderRead /\ KnownIds
      /\ RequestInv /\ ComputingInv /\ AnswerInv
      /\ EndsWith(Input, exchange.request, SentBytes)
    BY <1>1, BusyFacts DEF OpenInv
<1>3. PICK f \in Frames : /\ f = exchange.request /\ f.correlation = requests
                          /\ requests # 0
    BY <1>2 DEF RequestInv
<1>4. PICK o \in Nat : o = exchange.offset
    BY <1>2 DEF ExchangeRows
<1>5. PICK n \in Nat : n = Size(f) /\ Len(Encoded(f)) = n
    BY SizeFacts, EncodedFacts
<1>6. o < n
    BY <1>1, <1>2, <1>3, <1>4, <1>5 DEF RequestInv
<1>7. PICK k \in 1 .. Min({n - o, PipeCapacity - Len(stdin)}) :
        /\ stdin' = stdin \o SubSeq(Encoded(f), o + 1, o + k)
        /\ exchange' = IF k = n - o THEN [exchange EXCEPT !.pc = "read", !.turn = 0]
                       ELSE [exchange EXCEPT !.offset = @ + k]
    BY <1>3, <1>4, <1>5 DEF WriteSome
<1>8. UNCHANGED <<worker, stdout, open, buffer, demand, requests>>
    BY DEF WriteSome
<1>9. k \in Nat /\ 1 <= k /\ k <= n - o /\ o + k <= n /\ o + k \in Nat
    <2>1. stdin \in Seq(Bytes)
        BY <1>2 DEF PipesTypeOK
    <2>2. Len(stdin) \in Nat
        BY <2>1, LenProperties
    <2>3. n - o \in Int /\ PipeCapacity - Len(stdin) \in Int
        BY <2>2, WorkerAssumption
    <2>4. /\ Min({n - o, PipeCapacity - Len(stdin)}) \in Int
          /\ Min({n - o, PipeCapacity - Len(stdin)}) <= n - o
        BY <2>3, MinFacts
    <2>5. QED
        BY <2>4
<1>10. PICK i \in Seq(Bytes) : i = stdin
    BY <1>2, InputFacts
<1>11. PICK g \in Seq(Bytes) : g = worker.got
    BY <1>2, InputFacts
<1>12. PICK s \in Seq(Bytes) : s = Input
    BY <1>2, InputFacts
<1>13. PICK p \in Seq(Bytes) : /\ p = SubSeq(Encoded(f), o + 1, o + k) /\ Len(p) = k
                               /\ \A j \in 1 .. k : p[j] = [of |-> f, at |-> o + j]
                               /\ \A j \in 1 .. k : p[j].of = f
    <2>1. k \in Nat /\ 1 <= k /\ o + k <= Size(f)
        BY <1>5, <1>9
    <2>2. QED
        BY <2>1, PieceFacts
<1>14. stdin' = i \o p /\ i \o p \in Seq(Bytes)
    BY <1>7, <1>10, <1>13, JoinFacts
<1>15. Input' = s \o p /\ s \o p \in Seq(Bytes)
    <2>1. CASE worker.pc = "reading"
        <3>1. (g \o i) \o p = g \o (i \o p)
            <4>1. Associates(g, i, p)
                BY BytesAssociative
            <4>2. QED
                BY <4>1 DEF Associates
        <3>2. s = g \o i
            BY <1>10, <1>11, <1>12, <2>1 DEF Input
        <3>3. QED
            BY <1>8, <1>11, <1>14, <2>1, <3>1, <3>2, JoinFacts DEF Input
    <2>2. CASE worker.pc # "reading"
        BY <1>8, <1>10, <1>12, <1>14, <2>2 DEF Input
    <2>3. QED
        BY <2>1, <2>2
<1>16. /\ exchange' \in ExchangeRows /\ exchange'.request = f
       /\ exchange'.outcome = exchange.outcome /\ exchange'.answer = exchange.answer
       /\ \/ exchange'.pc = "read" /\ o + k = n
          \/ exchange'.pc = "write" /\ exchange'.offset = o + k /\ o + k < n
    <2>1. CASE k = n - o
        <3>1. exchange' = [exchange EXCEPT !.pc = "read", !.turn = 0] /\ o + k = n
            BY <1>7, <2>1
        <3>2. QED
            BY <1>2, <1>3, <3>1 DEF ExchangeRows
    <2>2. CASE k # n - o
        <3>1. exchange' = [exchange EXCEPT !.offset = o + k] /\ o + k < n
            BY <1>4, <1>7, <1>9, <2>2
        <3>2. QED
            BY <1>1, <1>2, <1>3, <1>9, <3>1 DEF ExchangeRows, At
    <2>3. QED
        BY <2>1, <2>2
<1>17. SentBytes = o /\ SentBytes' = o + k /\ Size(exchange.request)' = n
    <2>1. Size(exchange.request)' = n
        BY <1>5, <1>16 DEF Size
    <2>2. QED
        BY <1>1, <1>4, <1>16, <2>1 DEF SentBytes, At
<1>18. Stream' = Stream
    BY <1>8 DEF Stream
<1>19. EndsWith(s \o p, f, o + k)
    <2>1. EndsWith(s, f, o)
        BY <1>2, <1>3, <1>12, <1>17
    <2>2. \A j \in 1 .. Len(p) : p[j] = [of |-> f, at |-> o + j]
        BY <1>13
    <2>3. EndsWith(s \o p, f, o + Len(p))
        BY <2>1, <2>2, EndGrows
    <2>4. QED
        BY <1>13, <2>3
<1>20. EndsWith(Input, exchange.request, SentBytes)'
    BY <1>15, <1>16, <1>17, <1>19 DEF EndsWith
<1>21. RequestInv'
    BY <1>3, <1>8, <1>16, <1>17 DEF RequestInv, At
<1>22. ComputingInv'
    BY <1>1, <1>2, <1>8 DEF ComputingInv, HeaderOf
<1>23. AnswerInv'
    BY <1>1, <1>2, <1>8, <1>18 DEF AnswerInv, AnswerSent, Recent
<1>24. KnownIds'
    <2>1. requests \in Nat
        BY DEF ExchangeInv
    <2>2. UpTo(p, requests)
        <3>1. DOMAIN p = 1 .. k
            <4>1. DOMAIN p = 1 .. Len(p)
                BY LenProperties
            <4>2. QED
                BY <1>13, <4>1
        <3>2. \A j \in 1 .. k : p[j].of.correlation <= requests
            <4>1. \A j \in 1 .. k : p[j].of.correlation = requests
                BY <1>3, <1>13
            <4>2. QED
                BY <2>1, <4>1
        <3>3. QED
            BY <3>1, <3>2 DEF UpTo
    <2>3. UpTo(s \o p, requests)
        BY <1>2, <1>12, <2>2, JoinUpTo DEF KnownIds
    <2>4. QED
        BY <1>2, <1>8, <1>15, <1>18, <2>3 DEF KnownIds, UpTo, HeaderOf
<1>25. OpenInv'
    <2>1. PipesTypeOK' /\ HeaderRead'
        BY <1>2, <1>8, <1>14 DEF PipesTypeOK, HeaderRead
    <2>2. Framed(Stream)' /\ Whole(Stream)'
        BY <1>2, <1>18 DEF Framed, Whole
    <2>3. QED
        BY <1>16, <1>20, <1>21, <1>22, <1>23, <1>24, <2>1, <2>2 DEF OpenInv, At, Busy
<1>26. AnswerIntact'
    BY <1>3, <1>16 DEF ExchangeInv, AnswerIntact
<1>27. ExchangeInv'
    BY <1>2, <1>8, <1>16, <1>25, <1>26 DEF ExchangeInv, At
<1>28. /\ Input' # <<>>
       /\ Input # <<>> => Input'[1] = Input[1]
       /\ Input = <<>> => Input'[1].of.correlation = requests
    <2>1. PICK m \in Nat : m = Len(s)
        BY LenProperties
    <2>2. /\ Len(s \o p) = m + k
          /\ \A j \in 1 .. m : (s \o p)[j] = s[j]
          /\ \A j \in 1 .. k : (s \o p)[m + j] = p[j]
        BY <1>13, <2>1, JoinCounted
    <2>3. m + k # 0
        BY <1>9
    <2>4. s \o p # <<>>
        BY <2>2, <2>3, EmptySeq
    <2>5. ASSUME s # <<>> PROVE (s \o p)[1] = s[1]
        <3>1. 1 \in 1 .. m
            BY <2>1, <2>5, EmptySeq
        <3>2. QED
            BY <2>2, <3>1
    <2>6. ASSUME s = <<>> PROVE (s \o p)[1].of.correlation = requests
        <3>1. m = 0 /\ 1 \in 1 .. k /\ m + 1 = 1
            BY <1>9, <2>1, <2>6, EmptySeq
        <3>2. (s \o p)[m + 1] = p[1]
            BY <2>2, <3>1
        <3>3. p[1].of = f
            BY <1>13, <3>1
        <3>4. QED
            BY <1>3, <3>1, <3>2, <3>3
    <2>7. QED
        BY <1>12, <1>15, <2>4, <2>5, <2>6
<1>29. QED
    BY <1>8, <1>16, <1>18, <1>27, <1>28
-----------------------------------------------------------------------------
(***************************************************************************)
(* The steps of the worker.                                                *)
(***************************************************************************)
\* Once the pipes are closed a worker matters no more, or there is none.
LEMMA ClosedWorkerKeeps ==
    ASSUME ExchangeInv, ~open, WorkerStep \/ WorkerStrays \/ WorkerDies, UNCHANGED exchangeVars
    PROVE  ExchangeInv'
<1>1. UNCHANGED <<exchange, buffer, demand, requests>>
    BY DEF exchangeVars
<1>2. open' = open
    BY DEF WorkerStep, WorkerReads, WorkerSeesEnd, WorkerComputes, WorkerWrites,
           WorkerWriteFails, WorkerStrays, WorkerDies
<1>3. worker # Exited
    <2>1. worker.pc \in {"reading", "computing", "writing"} \/ worker.pc # "exited"
        BY DEF WorkerStep, WorkerReads, WorkerSeesEnd, WorkerComputes, WorkerWrites,
               WorkerWriteFails, WorkerStrays, WorkerDies, Running
    <2>2. Exited.pc = "exited"
        BY DEF Exited
    <2>3. QED
        BY <2>1, <2>2
<1>4. At("down")
    BY <1>3 DEF ExchangeInv, ClosedInv
<1>5. QED
    BY <1>1, <1>2, <1>4 DEF ExchangeInv, ClosedInv, AnswerIntact, At

LEMMA OpenFacts ==
    ASSUME ExchangeInv, open
    PROVE  /\ OpenInv /\ PipesTypeOK /\ HeaderRead /\ KnownIds
           /\ Framed(Stream) /\ (Running => Whole(Stream))
           /\ exchange \in ExchangeRows /\ requests \in Nat
           /\ \/ At("idle") /\ ~Busy /\ exchange.outcome = "thrown"
              \/ At("idle") /\ ~Busy /\ Untouched /\ OnlyStrays(Stream, requests)
              \/ /\ Busy /\ ~At("idle") /\ RequestInv /\ ComputingInv /\ AnswerInv
                 /\ EndsWith(Input, exchange.request, SentBytes)
<1>1. OpenInv /\ exchange \in ExchangeRows /\ requests \in Nat /\ ~At("down")
    BY DEF ExchangeInv
<1>2. At("idle") <=> ~Busy
    BY <1>1 DEF ExchangeRows, At, Busy
<1>3. QED
    BY <1>1, <1>2 DEF OpenInv

\* A step of the worker while the Kernel holds the pipes.
LEMMA WorkerKeeps ==
    ASSUME ExchangeInv, open, open' = open, UNCHANGED exchangeVars,
           PipesTypeOK', HeaderRead', KnownIds', Framed(Stream)', Running' => Whole(Stream)',
           Untouched /\ OnlyStrays(Stream, requests)
               => Untouched' /\ OnlyStrays(Stream, requests)',
           Busy => /\ ComputingInv' /\ AnswerInv'
                   /\ EndsWith(Input, exchange.request, SentBytes)'
    PROVE  ExchangeInv'
<1>1. UNCHANGED <<exchange, buffer, demand, requests>>
    BY DEF exchangeVars
<1>2. Busy => RequestInv'
    BY <1>1, OpenFacts DEF RequestInv, At, Size
<1>3. OpenInv'
    BY <1>1, <1>2, OpenFacts DEF OpenInv, At, Busy
<1>4. QED
    BY <1>1, <1>3 DEF ExchangeInv, AnswerIntact, At

LEMMA WorkerDiesKeeps ==
    ASSUME ExchangeInv, open, WorkerDies, UNCHANGED exchangeVars
    PROVE  /\ ExchangeInv' /\ worker' = Exited
           /\ Stream' # <<>> => Stream # <<>> /\ Stream'[1] = Stream[1]
<1>1. /\ worker' = Exited /\ stdin' = <<>>
      /\ UNCHANGED <<stdout, open, exchange, buffer, demand, requests>>
    BY DEF WorkerDies, exchangeVars
<1>2. OpenInv /\ PipesTypeOK /\ Framed(Stream) /\ KnownIds /\ requests \in Nat
    BY OpenFacts
<1>3. PICK s \in Seq(Bytes) : s = buffer \o stdout
    BY <1>2, StreamFacts
<1>4. PICK t \in Seq(Bytes) : t = worker.out
    BY <1>2, StreamFacts
<1>5. Stream = s \o t /\ Stream' = s
    <2>1. s \o <<>> = s
        BY ConcatEmptySeq
    <2>2. QED
        BY <1>1, <1>3, <1>4, <2>1 DEF Stream, Exited
<1>6. /\ Framed(s) /\ \A n : OnlyStrays(s \o t, n) => OnlyStrays(s, n)
      /\ s # <<>> => s \o t # <<>> /\ (s \o t)[1] = s[1]
      /\ DOMAIN s \subseteq DOMAIN (s \o t)
      /\ \A i \in DOMAIN s : (s \o t)[i] = s[i]
    BY <1>2, <1>5, FramedStart, StraysStart
<1>7. ~Running' /\ worker'.pc = "exited" /\ worker'.out = <<>> /\ Input' = <<>>
    BY <1>1 DEF Running, Exited, Input
<1>8. PipesTypeOK' /\ HeaderRead'
    BY <1>1, <1>2, <1>7, EmptyFacts DEF PipesTypeOK, HeaderRead, Exited
<1>9. Untouched'
    BY <1>7 DEF Untouched
<1>10. KnownIds'
    <2>1. UpTo(s, requests)
        BY <1>2, <1>5, JoinUpTo DEF KnownIds
    <2>2. DOMAIN Input' = {}
        BY <1>7
    <2>3. QED
        BY <1>1, <1>5, <1>7, <2>1, <2>2 DEF KnownIds, UpTo
<1>11. ASSUME Busy PROVE AnswerInv'
    <2>1. AnswerInv
        BY <1>2, <1>11 DEF OpenInv
    <2>2. SUFFICES ASSUME s # <<>>, s[1].of.correlation = requests
                   PROVE  ~At("write") /\ StraysBehind(s, requests)
        BY <1>1, <1>5, <1>9 DEF AnswerInv, AnswerSent, Recent, At, StraysBehind
    <2>3. AnswerSent
        BY <1>5, <1>6, <2>2 DEF AnswerSent, Recent
    <2>4. StraysBehind(s \o t, requests) /\ ~At("write")
        BY <1>5, <2>1, <2>3 DEF AnswerInv
    <2>5. QED
        BY <1>6, <2>2, <2>4 DEF StraysBehind
<1>12. ASSUME OnlyStrays(Stream, requests) PROVE OnlyStrays(Stream, requests)'
    BY <1>1, <1>5, <1>6, <1>12 DEF OnlyStrays
<1>13. Framed(Stream)'
    BY <1>5, <1>6 DEF Framed
<1>14. ComputingInv'
    BY <1>7 DEF ComputingInv
<1>15. EndsWith(Input, exchange.request, SentBytes)'
    <2>1. DOMAIN Input' = {}
        BY <1>7
    <2>2. QED
        BY <2>1 DEF EndsWith
<1>16. ExchangeInv'
    BY <1>1, <1>7, <1>8, <1>9, <1>10, <1>11, <1>12, <1>13, <1>14, <1>15, WorkerKeeps
<1>17. QED
    BY <1>1, <1>5, <1>6, <1>16

LEMMA WorkerWritesKeeps ==
    ASSUME ExchangeInv, open, WorkerWrites, UNCHANGED exchangeVars
    PROVE  /\ ExchangeInv' /\ Stream' = Stream /\ Input' = Input
           /\ \/ worker' = Fresh
              \/ worker'.pc = "writing"
<1>1. UNCHANGED <<stdin, open, exchange, buffer, demand, requests>> /\ worker.pc = "writing"
    BY DEF WorkerWrites, exchangeVars
<1>2. OpenInv /\ PipesTypeOK /\ Framed(Stream) /\ Whole(Stream) /\ KnownIds
    BY <1>1, OpenFacts DEF Running
<1>3. PICK s \in Seq(Bytes) : s = stdout
    BY <1>2, StreamFacts
<1>4. PICK t \in Seq(Bytes) : t = worker.out
    BY <1>2, StreamFacts
<1>5. PICK b \in Seq(Bytes) : b = buffer
    BY <1>2, StreamFacts
<1>6. PICK k \in 1 .. Min({Len(t), PipeCapacity - Len(s)}) :
        /\ stdout' = s \o SubSeq(t, 1, k)
        /\ worker' = IF k = Len(t) THEN Fresh
                     ELSE [worker EXCEPT !.out = SubSeq(t, k + 1, Len(t))]
    BY <1>3, <1>4 DEF WorkerWrites
<1>7. k \in 0 .. Len(t) /\ k \in Nat /\ Len(t) \in Nat
    <2>1. Len(s) \in Nat /\ Len(t) \in Nat
        BY LenProperties
    <2>2. PipeCapacity - Len(s) \in Int /\ Len(t) \in Int
        BY <2>1, WorkerAssumption
    <2>3. /\ Min({Len(t), PipeCapacity - Len(s)}) \in Int
          /\ Min({Len(t), PipeCapacity - Len(s)}) <= Len(t)
        BY <2>2, MinFacts
    <2>4. QED
        BY <2>1, <2>3
<1>8. /\ SubSeq(t, 1, k) \in Seq(Bytes) /\ SubSeq(t, k + 1, Len(t)) \in Seq(Bytes)
      /\ Len(SubSeq(t, k + 1, Len(t))) = Len(t) - k
      /\ (s \o SubSeq(t, 1, k)) \o SubSeq(t, k + 1, Len(t)) = s \o t
    <2>1. PICK j \in 0 .. Len(t) : j = k
        BY <1>7
    <2>2. /\ SubSeq(t, 1, j) \in Seq(Bytes) /\ SubSeq(t, j + 1, Len(t)) \in Seq(Bytes)
          /\ Len(SubSeq(t, j + 1, Len(t))) = Len(t) - j
        BY CutFacts
    <2>3. (s \o SubSeq(t, 1, j)) \o SubSeq(t, j + 1, Len(t)) = s \o t
        BY MoveBytes
    <2>4. QED
        BY <2>1, <2>2, <2>3
<1>9. PICK u \in Seq(Bytes) : u = SubSeq(t, 1, k)
    BY <1>8
<1>10. PICK v \in Seq(Bytes) : v = SubSeq(t, k + 1, Len(t)) /\ Len(v) = Len(t) - k
    BY <1>8
<1>11. PICK x \in Seq(Bytes) : x = s \o u /\ stdout' = x
    BY <1>6, <1>9, JoinFacts
<1>12. worker'.out = v /\ (worker' = Fresh \/ worker' = [worker EXCEPT !.out = v])
    <2>1. CASE k = Len(t)
        <3>1. Len(v) = 0
            BY <1>7, <1>10, <2>1
        <3>2. v = <<>>
            BY <3>1, EmptySeq
        <3>3. QED
            BY <1>6, <2>1, <3>2 DEF Fresh
    <2>2. CASE k # Len(t)
        BY <1>2, <1>6, <1>10, <2>2 DEF PipesTypeOK
    <2>3. QED
        BY <2>1, <2>2
<1>13. Stream' = Stream
    <2>1. (b \o x) \o v = b \o (x \o v)
        <3>1. Associates(b, x, v)
            BY BytesAssociative
        <3>2. QED
            BY <3>1 DEF Associates
    <2>2. x \o v = s \o t
        BY <1>8, <1>9, <1>10, <1>11
    <2>3. Stream = b \o (s \o t)
        BY <1>2, <1>3, <1>4, <1>5, StreamFacts
    <2>4. QED
        BY <1>1, <1>5, <1>11, <1>12, <2>1, <2>2, <2>3 DEF Stream
<1>14. \/ worker'.pc = "reading" /\ worker'.got = <<>> /\ worker'.out = <<>>
       \/ worker'.pc = "writing" /\ worker'.out # <<>>
    <2>1. CASE k = Len(t)
        BY <1>6, <2>1 DEF Fresh
    <2>2. CASE k # Len(t)
        <3>1. Len(v) # 0
            BY <1>7, <1>10, <2>2
        <3>2. v # <<>>
            BY <3>1, EmptySeq
        <3>3. QED
            BY <1>1, <1>2, <1>6, <1>12, <2>2, <3>2 DEF PipesTypeOK
    <2>3. QED
        BY <2>1, <2>2
<1>15. PipesTypeOK'
    <2>1. worker' \in [pc : {"reading", "computing", "writing", "exited"},
                       got : Seq(Bytes), out : Seq(Bytes)]
        <3>1. CASE worker' = Fresh
            BY <3>1, EmptyFacts DEF Fresh
        <3>2. CASE worker' = [worker EXCEPT !.out = v]
            BY <1>2, <3>2 DEF PipesTypeOK
        <3>3. QED
            BY <1>12, <3>1, <3>2
    <2>2. QED
        BY <1>1, <1>2, <1>11, <1>14, <2>1 DEF PipesTypeOK
<1>16. Input' = Input
    <2>1. <<>> \o stdin = stdin
        BY <1>2, ConcatEmptySeq DEF PipesTypeOK
    <2>2. QED
        BY <1>1, <1>14, <2>1 DEF Input
<1>17. HeaderRead'
    <2>1. CASE worker'.pc = "writing"
        BY <2>1 DEF HeaderRead
    <2>2. CASE worker'.pc = "reading" /\ worker'.got = <<>>
        BY <2>2, EmptyFacts, FrameAssumption DEF HeaderRead
    <2>3. QED
        BY <1>14, <2>1, <2>2
<1>18. worker'.pc # "computing" /\ (Untouched => Untouched')
    BY <1>14, <1>16 DEF Untouched
<1>19. KnownIds'
    BY <1>1, <1>2, <1>13, <1>16, <1>18 DEF KnownIds, UpTo
<1>20. ComputingInv'
    BY <1>18 DEF ComputingInv
<1>21. ASSUME Busy PROVE AnswerInv' /\ EndsWith(Input, exchange.request, SentBytes)'
    <2>1. AnswerInv /\ EndsWith(Input, exchange.request, SentBytes)
        BY <1>2, <1>21 DEF OpenInv
    <2>2. AnswerInv'
        BY <1>1, <1>13, <1>18, <2>1 DEF AnswerInv, AnswerSent, Recent, At, StraysBehind
    <2>3. SentBytes' = SentBytes
        BY <1>1 DEF SentBytes, At, Size
    <2>4. QED
        BY <1>1, <1>16, <2>1, <2>2, <2>3 DEF EndsWith
<1>22. Framed(Stream)' /\ Whole(Stream)'
    BY <1>2, <1>13 DEF Framed, Whole
<1>23. (OnlyStrays(Stream, requests) => OnlyStrays(Stream, requests)')
    BY <1>1, <1>13 DEF OnlyStrays
<1>24. ExchangeInv'
    BY <1>1, <1>15, <1>17, <1>18, <1>19, <1>20, <1>21, <1>22, <1>23, WorkerKeeps
<1>25. worker' = Fresh \/ worker'.pc = "writing"
    BY <1>1, <1>2, <1>12 DEF PipesTypeOK
<1>26. QED
    BY <1>13, <1>16, <1>24, <1>25

LEMMA AnswerFacts ==
    ASSUME NEW request \in Frames, NEW f \in Answers(request)
    PROVE  f \in Frames /\ f.correlation = request.correlation
<1>1. request.correlation \in Nat
    BY DEF Frames
<1>2. "WorkerResult" \in MessageType /\ "WorkerFailure" \in MessageType
    BY DEF MessageType
<1>3. ASSUME NEW p \in ResultSizes, f = Answer("WorkerResult", request, p)
      PROVE  f \in Frames /\ f.correlation = request.correlation
    <2>1. p \in Nat
        BY WorkerAssumption, FrameAssumption
    <2>2. f = [type |-> "WorkerResult", correlation |-> request.correlation, framing |-> TRUE,
               metadata |-> 0, metadata_ok |-> TRUE, payload |-> p]
        BY <1>3 DEF Answer
    <2>3. QED
        BY <1>1, <1>2, <2>1, <2>2 DEF Frames
<1>4. ASSUME f = Answer("WorkerFailure", request, 0)
      PROVE  f \in Frames /\ f.correlation = request.correlation
    <2>1. f = [type |-> "WorkerFailure", correlation |-> request.correlation, framing |-> TRUE,
               metadata |-> 1, metadata_ok |-> TRUE, payload |-> 0]
        BY <1>4 DEF Answer
    <2>2. QED
        BY <1>1, <1>2, <2>1 DEF Frames
<1>5. QED
    BY <1>3, <1>4 DEF Answers

LEMMA HeaderOfEncoded ==
    ASSUME NEW f \in Frames
    PROVE  HeaderOf(Encoded(f)) = f
<1>1. HeaderSize \in 1 .. Size(f)
    BY SizeFacts
<1>2. Encoded(f)[HeaderSize] = [of |-> f, at |-> HeaderSize]
    BY <1>1, EncodedFacts
<1>3. QED
    BY <1>2 DEF HeaderOf

LEMMA StrayBytes ==
    ASSUME NEW f \in Frames, NEW n, f \in Strays, f.correlation <= n
    PROVE  OnlyStrays(Encoded(f), n)
<1>1. DOMAIN Encoded(f) = 1 .. Size(f)
    BY DEF Encoded
<1>2. \A i \in 1 .. Size(f) : Encoded(f)[i] = [of |-> f, at |-> i]
    BY DEF Encoded
<1>3. ASSUME NEW i \in 1 .. Size(f) PROVE Encoded(f)[i].of = f
    <2>1. Encoded(f)[i] = [of |-> f, at |-> i]
        BY <1>2
    <2>2. [of |-> f, at |-> i].of = f
        BY Zenon
    <2>3. QED
        BY <2>1, <2>2, Zenon
<1>4. QED
    BY <1>1, <1>3 DEF OnlyStrays, StrayByte

\* A frame with strays behind it.
LEMMA FirstThenStrays ==
    ASSUME NEW f \in Frames, NEW z \in Seq(Bytes), NEW n, OnlyStrays(z, n),
           NEW t, t = Encoded(f) \o z
    PROVE  t \in Seq(Bytes) /\ t # <<>> /\ t[1].of = f /\ StraysBehind(t, n)
<1>1. PICK e \in Seq(Bytes) : /\ e = Encoded(f) /\ Len(e) = Size(f)
                              /\ \A i \in 1 .. Size(f) : e[i] = [of |-> f, at |-> i]
    BY EncodedFacts
<1>2. PICK m \in Nat : m = Size(f) /\ 1 <= m
    BY SizeFacts
<1>3. t \in Seq(Bytes) /\ t = e \o z
    BY <1>1, JoinFacts
<1>4. e # <<>>
    <2>1. Len(e) # 0
        BY <1>1, <1>2
    <2>2. QED
        BY <2>1, EmptySeq
<1>5. t # <<>> /\ t[1] = e[1]
    BY <1>3, <1>4, StraysStart
<1>6. t[1].of = f
    <2>1. 1 \in 1 .. Size(f)
        BY <1>2
    <2>2. e[1] = [of |-> f, at |-> 1]
        BY <1>1, <2>1
    <2>3. QED
        BY <1>5, <2>2
<1>7. ASSUME NEW i \in DOMAIN t, i > Size(f) PROVE StrayByte(t[i], n)
    <2>1. \/ i \in DOMAIN e /\ t[i] = e[i]
          \/ \E j \in DOMAIN z : i = Len(e) + j /\ t[i] = z[j]
        BY <1>3, JoinPlaces
    <2>2. i \notin DOMAIN e
        <3>1. DOMAIN e = 1 .. m
            BY <1>1, <1>2, LenProperties
        <3>2. QED
            BY <1>2, <1>7, <3>1
    <2>3. QED
        BY <2>1, <2>2 DEF OnlyStrays
<1>8. QED
    BY <1>3, <1>5, <1>6, <1>7 DEF StraysBehind

\* The ids of a frame's bytes.
LEMMA EncodedUpTo ==
    ASSUME NEW f \in Frames, NEW n, f.correlation <= n
    PROVE  UpTo(Encoded(f), n)
<1>1. DOMAIN Encoded(f) = 1 .. Size(f)
    BY DEF Encoded
<1>2. \A i \in 1 .. Size(f) : Encoded(f)[i] = [of |-> f, at |-> i]
    BY DEF Encoded
<1>3. ASSUME NEW i \in 1 .. Size(f) PROVE Encoded(f)[i].of = f
    <2>1. Encoded(f)[i] = [of |-> f, at |-> i]
        BY <1>2
    <2>2. [of |-> f, at |-> i].of = f
        BY Zenon
    <2>3. QED
        BY <2>1, <2>2, Zenon
<1>4. QED
    BY <1>1, <1>3 DEF UpTo

\* The request a worker computes on.
LEMMA HeaderFacts ==
    ASSUME ExchangeInv, open, worker.pc = "computing"
    PROVE  /\ HeaderOf(worker.got) \in Frames /\ HeaderOf(worker.got).correlation \in Nat
           /\ HeaderOf(worker.got).correlation <= requests
<1>1. worker.got \in Seq(Bytes) /\ HeaderSize <= Len(worker.got) /\ KnownIds
    BY OpenFacts DEF HeaderRead, PipesTypeOK
<1>2. HeaderSize \in 1 .. Len(worker.got)
    BY <1>1, LenProperties, FrameAssumption
<1>3. worker.got[HeaderSize].of \in Frames
    BY <1>1, <1>2, ElementOfSeq, ByteFacts
<1>4. QED
    BY <1>1, <1>3 DEF HeaderOf, KnownIds, Frames

\* The worker has read a request, and answers it.
LEMMA AnswerKeeps ==
    ASSUME ExchangeInv, open, worker.pc = "computing", UNCHANGED exchangeVars,
           UNCHANGED <<stdin, stdout, open>>,
           NEW f \in Frames, f.correlation <= HeaderOf(worker.got).correlation,
           NEW z \in Seq(Bytes), OnlyStrays(z, requests),
           z = <<>> \/ \E g \in Frames : z = Encoded(g),
           worker' = [worker EXCEPT !.pc = "writing", !.out = Encoded(f) \o z]
    PROVE  /\ ExchangeInv' /\ worker'.pc = "writing" /\ Stream' # <<>>
           /\ Stream # <<>> => Stream'[1] = Stream[1]
           /\ Stream = <<>> /\ Stream'[1].of.correlation = requests
                => HeaderOf(worker.got).correlation = requests
<1>1. /\ PipesTypeOK /\ Framed(Stream) /\ Whole(Stream) /\ requests \in Nat
      /\ KnownIds /\ ~Untouched
    BY OpenFacts DEF Running, Untouched
<1>2. PICK r \in Nat : r = HeaderOf(worker.got).correlation /\ r <= requests
    BY HeaderFacts
<1>3. PICK s \in Seq(Bytes) : s = buffer \o stdout /\ s = Stream
    <2>1. worker.out = <<>>
        BY <1>1 DEF PipesTypeOK
    <2>2. QED
        BY <1>1, <2>1, StreamFacts, StreamSent
<1>4. UNCHANGED <<stdin, stdout, open, exchange, buffer, demand, requests>>
    BY DEF exchangeVars
<1>5. PICK e \in Seq(Bytes) : e = Encoded(f)
    BY EncodedFacts
<1>6. PICK x \in Seq(Bytes) : /\ x = e \o z /\ x # <<>> /\ x[1].of = f
                              /\ StraysBehind(x, requests)
    BY <1>5, FirstThenStrays
<1>7. PICK t \in Seq(Bytes) : t = s \o x
    BY JoinFacts
<1>8. worker'.out = x /\ worker'.pc = "writing"
      /\ worker' \in [pc : {"reading", "computing", "writing", "exited"},
                       got : Seq(Bytes), out : Seq(Bytes)]
    BY <1>1, <1>5, <1>6 DEF PipesTypeOK
<1>9. Stream' = t
    BY <1>3, <1>4, <1>7, <1>8 DEF Stream
<1>10. Framed(t) /\ Whole(t)
    <2>1. PICK y \in Seq(Bytes) : y = s \o e /\ Framed(y) /\ Whole(y)
        BY <1>1, <1>3, <1>5, FramedJoin
    <2>2. t = y \o z
        <3>1. (s \o e) \o z = s \o (e \o z)
            <4>1. Associates(s, e, z)
                BY BytesAssociative
            <4>2. QED
                BY <4>1 DEF Associates
        <3>2. QED
            BY <1>6, <1>7, <2>1, <3>1
    <2>3. CASE z = <<>>
        <3>1. t = y
            BY <2>2, <2>3, ConcatEmptySeq
        <3>2. QED
            BY <2>1, <3>1
    <2>4. CASE \E g \in Frames : z = Encoded(g)
        BY <2>1, <2>2, <2>4, FramedJoin
    <2>5. QED
        BY <2>3, <2>4
<1>11. /\ t # <<>>
       /\ s # <<>> => t[1] = s[1]
       /\ s = <<>> => t = x
    <2>1. CASE s = <<>>
        BY <1>6, <1>7, <2>1, ConcatEmptySeq
    <2>2. CASE s # <<>>
        BY <1>7, <2>2, StraysStart
    <2>3. QED
        BY <2>1, <2>2
<1>12. f.correlation <= requests /\ f.correlation \in Nat
       /\ (f.correlation = requests => r = requests)
    <2>1. f.correlation \in Nat
        BY DEF Frames
    <2>2. QED
        BY <1>1, <1>2, <2>1
<1>13. Input' = Input /\ Input = stdin
    BY <1>4, <1>8 DEF Input
<1>14. KnownIds'
    <2>1. UpTo(e, requests)
        BY <1>5, <1>12, EncodedUpTo
    <2>2. UpTo(z, requests)
        BY DEF OnlyStrays, StrayByte, UpTo
    <2>3. UpTo(x, requests)
        BY <1>6, <2>1, <2>2, JoinUpTo
    <2>4. UpTo(t, requests)
        BY <1>1, <1>3, <1>7, <2>3, JoinUpTo DEF KnownIds
    <2>5. QED
        BY <1>1, <1>4, <1>8, <1>9, <1>13, <2>4 DEF KnownIds, UpTo
<1>15. PipesTypeOK' /\ HeaderRead'
    BY <1>1, <1>4, <1>6, <1>8 DEF PipesTypeOK, HeaderRead
<1>16. Framed(Stream)' /\ Whole(Stream)'
    BY <1>9, <1>10 DEF Framed, Whole
<1>17. ComputingInv'
    BY <1>8 DEF ComputingInv
<1>18. ASSUME Busy PROVE AnswerInv' /\ EndsWith(Input, exchange.request, SentBytes)'
    <2>1. AnswerInv /\ ComputingInv /\ EndsWith(Input, exchange.request, SentBytes)
        BY <1>18, OpenFacts
    <2>2. EndsWith(Input, exchange.request, SentBytes)'
        BY <1>4, <1>13, <2>1 DEF EndsWith, SentBytes, At, Size
    <2>3. ASSUME t[1].of.correlation = requests
          PROVE  stdin = <<>> /\ ~At("write") /\ StraysBehind(t, requests)
        <3>1. s = <<>>
            BY <1>1, <1>3, <1>11, <2>1, <2>3 DEF AnswerInv, AnswerSent, Recent
        <3>2. t = x /\ f.correlation = requests
            BY <1>6, <1>11, <2>3, <3>1
        <3>3. r = requests
            BY <1>12, <3>2
        <3>4. QED
            BY <1>2, <1>6, <2>1, <3>2, <3>3 DEF ComputingInv
    <2>4. AnswerInv'
        BY <1>4, <1>8, <1>9, <1>13, <2>3
           DEF AnswerInv, AnswerSent, Recent, Untouched, At, StraysBehind
    <2>5. QED
        BY <2>2, <2>4
<1>19. ExchangeInv'
    BY <1>1, <1>4, <1>14, <1>15, <1>16, <1>17, <1>18, WorkerKeeps
<1>20. QED
    BY <1>2, <1>3, <1>6, <1>8, <1>9, <1>11, <1>12, <1>19

LEMMA WorkerAnswersKeeps ==
    ASSUME ExchangeInv, open, WorkerComputes \/ WorkerStrays, UNCHANGED exchangeVars
    PROVE  /\ ExchangeInv' /\ worker'.pc = "writing" /\ Stream' # <<>>
           /\ Stream # <<>> => Stream'[1] = Stream[1]
           /\ Stream = <<>> /\ Stream'[1].of.correlation = requests
                => HeaderOf(worker.got).correlation = requests
<1>1. worker.pc = "computing" /\ UNCHANGED <<stdin, stdout, open>>
    BY DEF WorkerComputes, WorkerStrays
<1>2. PICK request \in Frames : /\ request = HeaderOf(worker.got)
                                /\ request.correlation <= requests
                                /\ request.correlation \in Nat
    BY <1>1, HeaderFacts
<1>3. <<>> \in Seq(Bytes) /\ OnlyStrays(<<>>, requests)
    BY EmptyFacts DEF OnlyStrays
<1>4. \A f \in Frames : Encoded(f) = Encoded(f) \o <<>>
    BY EncodedFacts, ConcatEmptySeq
<1>5. CASE WorkerComputes
    <2>1. PICK f \in Answers(request) :
            worker' = [worker EXCEPT !.pc = "writing", !.out = Encoded(f)]
        BY <1>2, <1>5 DEF WorkerComputes
    <2>2. f \in Frames /\ f.correlation <= HeaderOf(worker.got).correlation
        BY <1>2, AnswerFacts
    <2>3. worker' = [worker EXCEPT !.pc = "writing", !.out = Encoded(f) \o <<>>]
        BY <1>4, <2>1, <2>2
    <2>4. QED
        BY <1>1, <1>3, <2>2, <2>3, AnswerKeeps
<1>6. CASE WorkerStrays
    <2>1. PICK f \in Answers(request), s \in Strays :
            /\ s.correlation <= request.correlation
            /\ \E out \in {Encoded(s), Encoded(f) \o Encoded(s)} :
                 worker' = [worker EXCEPT !.pc = "writing", !.out = out]
        BY <1>2, <1>6 DEF WorkerStrays
    <2>2. /\ f \in Frames /\ s \in Frames
          /\ f.correlation <= HeaderOf(worker.got).correlation
          /\ s.correlation <= HeaderOf(worker.got).correlation
        BY <1>2, <2>1, AnswerFacts, WorkerAssumption
    <2>3. s.correlation <= requests
        <3>1. s.correlation \in Nat /\ requests \in Nat
            BY <2>2 DEF Frames, ExchangeInv
        <3>2. QED
            BY <1>2, <2>1, <3>1
    <2>4. CASE worker' = [worker EXCEPT !.pc = "writing", !.out = Encoded(s)]
        <3>1. worker' = [worker EXCEPT !.pc = "writing", !.out = Encoded(s) \o <<>>]
            BY <1>4, <2>2, <2>4
        <3>2. QED
            BY <1>1, <1>3, <2>2, <3>1, AnswerKeeps
    <2>5. CASE worker' = [worker EXCEPT !.pc = "writing", !.out = Encoded(f) \o Encoded(s)]
        <3>1. PICK z \in Seq(Bytes) : z = Encoded(s)
            BY <2>2, EncodedFacts
        <3>2. OnlyStrays(z, requests) /\ \E g \in Frames : z = Encoded(g)
            BY <2>2, <2>3, <3>1, StrayBytes
        <3>3. QED
            BY <1>1, <2>2, <2>5, <3>1, <3>2, AnswerKeeps
    <2>6. QED
        BY <2>1, <2>4, <2>5
<1>7. QED
    BY <1>5, <1>6

\* What read_exact still waits for is a number of bytes.
LEMMA WantedFacts ==
    ASSUME NEW got \in Seq(Bytes)
    PROVE  Wanted(got) \in Int /\ (Len(got) < HeaderSize => Wanted(got) = HeaderSize)
<1>1. Len(got) \in Nat /\ HeaderSize \in Nat /\ 1 <= HeaderSize
    BY LenProperties, FrameAssumption
<1>2. CASE Len(got) < HeaderSize
    BY <1>1, <1>2 DEF Wanted
<1>3. CASE ~(Len(got) < HeaderSize)
    <2>1. HeaderSize \in 1 .. Len(got)
        BY <1>1, <1>3
    <2>2. got[HeaderSize] \in Bytes
        BY <2>1, ElementOfSeq
    <2>3. PICK f \in Frames : f = HeaderOf(got)
        BY <2>2, ByteFacts DEF HeaderOf
    <2>4. f.metadata \in Nat /\ Size(f) \in Nat
        BY SizeFacts DEF Frames
    <2>5. HeaderSize + f.metadata \in Int
        BY <1>1, <2>4
    <2>6. QED
        BY <1>1, <2>3, <2>4, <2>5 DEF Wanted
<1>4. QED
    BY <1>2, <1>3

\* The bytes as the worker takes them: as they are, or a header mixed of two.
LEMMA TakenFacts ==
    ASSUME NEW b \in Seq(Bytes), NEW got \in Taken(b)
    PROVE  /\ got \in Seq(Bytes) /\ Len(got) = Len(b)
           /\ \/ ~Cut(b) /\ got = b
              \/ \E h \in Frames :
                   /\ Cut(b) /\ h.correlation \in {b[1].of.correlation, 0}
                   /\ \A i \in 1 .. HeaderSize : got[i] = [of |-> h, at |-> i]
                   /\ \A i \in 1 .. HeaderSize : got[i].of = h
<1>1. CASE ~Cut(b)
    BY <1>1 DEF Taken
<1>2. CASE Cut(b)
    <2>1. Len(b) = HeaderSize /\ HeaderSize \in Nat /\ 1 <= HeaderSize
        BY <1>2, FrameAssumption DEF Cut
    <2>2. PICK f \in Frames : f = b[1].of
        <3>1. 1 \in 1 .. Len(b)
            BY <2>1
        <3>2. QED
            BY <3>1, ElementOfSeq, ByteFacts
    <2>3. PICK h \in Misread(f) : got = SubSeq(Encoded(h), 1, HeaderSize)
        BY <1>2, <2>2 DEF Taken
    <2>4. h \in Frames /\ h.correlation \in {f.correlation, 0}
        <3>1. CASE h = [f EXCEPT !.framing = FALSE]
            BY <3>1 DEF Frames
        <3>2. ASSUME NEW id \in {f.correlation, 0}, NEW m \in 0 .. MaxMetadata,
                     NEW p \in 0 .. MaxPayload, h = Mixed(f, id, m, p)
              PROVE  h \in Frames /\ h.correlation = id
            <4>1. m \in Nat /\ p \in Nat /\ id \in Nat
                BY FrameAssumption DEF Frames
            <4>2. QED
                BY <3>2, <4>1 DEF Frames, Mixed
        <3>3. \/ h = [f EXCEPT !.framing = FALSE]
              \/ \E id \in {f.correlation, 0}, m \in 0 .. MaxMetadata, p \in 0 .. MaxPayload :
                    h = Mixed(f, id, m, p)
            BY DEF Misread
        <3>4. QED
            BY <3>1, <3>2, <3>3
    <2>5. PICK o \in Nat, g \in Frames : o = 0 /\ g = h
        BY <2>4
    <2>6. o + 1 = 1 /\ o + HeaderSize = HeaderSize /\ \A i \in 1 .. HeaderSize : o + i = i
        BY <2>1, <2>5
    <2>7. PICK p \in Seq(Bytes) :
            /\ p = SubSeq(Encoded(g), o + 1, o + HeaderSize) /\ Len(p) = HeaderSize
            /\ \A i \in 1 .. HeaderSize : p[i] = [of |-> g, at |-> o + i]
            /\ \A i \in 1 .. HeaderSize : p[i].of = g
        <3>1. o + HeaderSize <= Size(g)
            BY <2>1, <2>6, SizeFacts
        <3>2. QED
            BY <2>1, <3>1, PieceFacts
    <2>8. got = p
        BY <2>3, <2>5, <2>6, <2>7
    <2>9. \A i \in 1 .. HeaderSize : p[i] = [of |-> g, at |-> i]
        BY <2>6, <2>7
    <2>10. g.correlation \in {b[1].of.correlation, 0}
        BY <2>2, <2>4, <2>5
    <2>11. /\ \A i \in 1 .. HeaderSize : got[i] = [of |-> g, at |-> i]
           /\ \A i \in 1 .. HeaderSize : got[i].of = g
        BY <2>7, <2>8, <2>9
    <2>12. \E c \in Frames :
            /\ Cut(b) /\ c.correlation \in {b[1].of.correlation, 0}
            /\ \A i \in 1 .. HeaderSize : got[i] = [of |-> c, at |-> i]
            /\ \A i \in 1 .. HeaderSize : got[i].of = c
        BY <1>2, <2>10, <2>11, Zenon
    <2>13. got \in Seq(Bytes) /\ Len(got) = Len(b)
        BY <2>1, <2>7, <2>8, Zenon
    <2>14. QED
        BY <2>12, <2>13, Zenon
<1>3. QED
    BY <1>1, <1>2

\* An input that begins under the id of the request is the request and nothing else.
LEMMA EndFromStart ==
    ASSUME NEW f, NEW m \in Nat, NEW x \in Seq(Bytes), EndsWith(x, f, m),
           x # <<>>, x[1].of.correlation = f.correlation
    PROVE  /\ \A j \in 1 .. Len(x) : x[j].of = f
           /\ x[1].at = 1 => m = Len(x) /\ \A j \in 1 .. Len(x) : x[j] = [of |-> f, at |-> j]
<1>1. Len(x) \in Nat /\ DOMAIN x = 1 .. Len(x)
    BY LenProperties
<1>2. PICK n \in Nat : n = Len(x) /\ 1 \in 1 .. n
    <2>1. Len(x) # 0
        BY EmptySeq
    <2>2. 1 \in 1 .. Len(x)
        BY <1>1, <2>1
    <2>3. QED
        BY <1>1, <2>2
<1>3. \A j \in 1 .. n : x[j] = [of |-> f, at |-> m - n + j]
    BY <1>1, <1>2 DEF EndsWith
<1>4. ASSUME NEW j \in 1 .. n PROVE x[j].of = f
    <2>1. x[j] = [of |-> f, at |-> m - n + j]
        BY <1>3
    <2>2. [of |-> f, at |-> m - n + j].of = f
        BY Zenon
    <2>3. QED
        BY <2>1, <2>2, Zenon
<1>5. ASSUME x[1].at = 1
      PROVE  m = n /\ \A j \in 1 .. n : x[j] = [of |-> f, at |-> j]
    <2>1. x[1] = [of |-> f, at |-> m - n + 1]
        BY <1>2, <1>3
    <2>2. m - n + 1 = 1
        BY <1>5, <2>1
    <2>3. m = n /\ \A j \in 1 .. n : m - n + j = j
        BY <1>2, <2>2
    <2>4. QED
        BY <1>3, <2>3
<1>6. QED
    BY <1>2, <1>4, <1>5

\* A cut header never bears the id of the request it was cut with.
LEMMA CutIsOlder ==
    ASSUME NEW f, NEW m \in Nat, NEW b \in Seq(Bytes), NEW r \in Seq(Bytes),
           EndsWith(b \o r, f, m), Cut(b)
    PROVE  b[1].of.correlation # f.correlation
<1> SUFFICES ASSUME b[1].of.correlation = f.correlation PROVE FALSE
    OBVIOUS
<1>1. Len(b) = HeaderSize /\ HeaderSize \in Nat /\ 1 <= HeaderSize /\ b[HeaderSize].of # b[1].of
    BY FrameAssumption DEF Cut
<1>2. b # <<>>
    BY <1>1, EmptySeq
<1>3. PICK x \in Seq(Bytes) : x = b \o r /\ x # <<>> /\ x[1] = b[1]
    <2>1. b \o r \in Seq(Bytes)
        BY JoinFacts
    <2>2. b \o r # <<>> /\ (b \o r)[1] = b[1]
        BY <1>2, StraysStart
    <2>3. QED
        BY <2>1, <2>2
<1>4. \A j \in 1 .. Len(x) : x[j].of = f
    <2>1. EndsWith(x, f, m) /\ x # <<>> /\ x[1].of.correlation = f.correlation
        BY <1>3
    <2>2. QED
        BY <2>1, EndFromStart
<1>5. /\ Len(x) = Len(b) + Len(r) /\ Len(r) \in Nat
      /\ \A j \in 1 .. Len(b) : x[j] = b[j]
    BY <1>3, JoinFacts
<1>6. 1 \in 1 .. Len(b) /\ HeaderSize \in 1 .. Len(b)
      /\ 1 \in 1 .. Len(x) /\ HeaderSize \in 1 .. Len(x)
    BY <1>1, <1>5
<1>7. b[1].of = f /\ b[HeaderSize].of = f
    BY <1>4, <1>5, <1>6
<1>8. QED
    BY <1>1, <1>7

\* What a ::read of the worker takes, and what it leaves.
LEMMA WorkerReadsPart ==
    ASSUME ExchangeInv, open, WorkerReads
    PROVE  \E b \in Seq(Bytes), rest \in Seq(Bytes) : \E got \in Taken(b) :
             /\ Input = b \o rest /\ stdin' = rest /\ b # <<>>
             /\ Len(worker.got) < HeaderSize => Len(b) <= HeaderSize
             /\ \A i \in 1 .. Len(worker.got) : i \in 1 .. Len(b) /\ b[i] = worker.got[i]
             /\ worker' = CASE ReadFrame(got) = "more" -> [worker EXCEPT !.got = got]
                            [] ReadFrame(got) = "invalid" -> Exited
                            [] OTHER -> [worker EXCEPT !.pc = "computing", !.got = got]
<1>1. worker.pc = "reading" /\ PipesTypeOK
    BY OpenFacts DEF WorkerReads
<1>2. PICK g \in Seq(Bytes) : g = worker.got
    BY <1>1, InputFacts
<1>3. PICK i \in Seq(Bytes) : i = stdin
    BY <1>1, InputFacts
<1>4. PICK k \in 1 .. Min({Len(i), Wanted(g) - Len(g)}) :
        \E got \in Taken(g \o SubSeq(i, 1, k)) :
            /\ worker' = CASE ReadFrame(got) = "more" -> [worker EXCEPT !.got = got]
                           [] ReadFrame(got) = "invalid" -> Exited
                           [] OTHER -> [worker EXCEPT !.pc = "computing", !.got = got]
            /\ stdin' = SubSeq(i, k + 1, Len(i))
    BY <1>2, <1>3 DEF WorkerReads
<1>5. PICK j \in 0 .. Len(i) : /\ j = k /\ 1 <= j /\ Len(i) \in Nat /\ Len(g) \in Nat
                               /\ Wanted(g) \in Int /\ j <= Wanted(g) - Len(g)
    <2>1. Len(i) \in Nat /\ Len(g) \in Nat /\ Wanted(g) \in Int
        BY LenProperties, WantedFacts
    <2>2. Len(i) \in Int /\ Wanted(g) - Len(g) \in Int
        BY <2>1
    <2>3. /\ Min({Len(i), Wanted(g) - Len(g)}) \in Int
          /\ Min({Len(i), Wanted(g) - Len(g)}) <= Len(i)
          /\ Min({Len(i), Wanted(g) - Len(g)}) <= Wanted(g) - Len(g)
        BY <2>2, MinFacts
    <2>4. QED
        BY <2>1, <2>3
<1>6. PICK a \in Seq(Bytes) : a = SubSeq(i, 1, j) /\ Len(a) = j
    <2>1. SubSeq(i, 1, j) \in Seq(Bytes) /\ Len(SubSeq(i, 1, j)) = j
        BY CutFacts
    <2>2. QED
        BY <2>1
<1>7. PICK rest \in Seq(Bytes) : rest = SubSeq(i, j + 1, Len(i))
    <2>1. SubSeq(i, j + 1, Len(i)) \in Seq(Bytes)
        BY CutFacts
    <2>2. QED
        BY <2>1
<1>8. PICK b \in Seq(Bytes) : b = g \o a
    BY JoinFacts
<1>9. b \o rest = g \o i
    <2>1. (g \o SubSeq(i, 1, j)) \o SubSeq(i, j + 1, Len(i)) = g \o i
        BY MoveBytes
    <2>2. QED
        BY <1>6, <1>7, <1>8, <2>1
<1>10. Len(b) = Len(g) + j /\ \A q \in 1 .. Len(g) : b[q] = g[q]
    BY <1>6, <1>8, JoinFacts
<1>11. Len(b) # 0 /\ (Len(g) < HeaderSize => Len(b) <= HeaderSize)
       /\ \A q \in 1 .. Len(g) : q \in 1 .. Len(b)
    <2>1. HeaderSize \in Nat /\ (Len(g) < HeaderSize => Wanted(g) = HeaderSize)
        BY WantedFacts, FrameAssumption
    <2>2. QED
        BY <1>5, <1>10, <2>1
<1>12. b # <<>>
    BY <1>11, EmptySeq
<1>13. Input = b \o rest
    BY <1>1, <1>2, <1>3, <1>9 DEF Input
<1>14. PICK got \in Taken(b) :
            /\ worker' = CASE ReadFrame(got) = "more" -> [worker EXCEPT !.got = got]
                           [] ReadFrame(got) = "invalid" -> Exited
                           [] OTHER -> [worker EXCEPT !.pc = "computing", !.got = got]
            /\ stdin' = rest
    BY <1>4, <1>5, <1>6, <1>7, <1>8
<1>15. QED
    BY <1>2, <1>10, <1>11, <1>12, <1>13, <1>14

\* The request as far as it was sent.
LEMMA SentFacts ==
    ASSUME ExchangeInv, open, Busy
    PROVE  \E f \in Frames : \E n \in Nat :
             /\ f = exchange.request /\ f.correlation = requests /\ requests # 0
             /\ n = SentBytes /\ n <= Size(f) /\ (At("write") => n < Size(f))
             /\ EndsWith(Input, f, n)
<1>1. /\ RequestInv /\ EndsWith(Input, exchange.request, SentBytes) /\ exchange \in ExchangeRows
    BY OpenFacts
<1>2. PICK f \in Frames : f = exchange.request /\ f.correlation = requests /\ requests # 0
    BY <1>1 DEF RequestInv
<1>3. Size(f) \in Nat /\ exchange.offset \in Nat
    BY <1>1, SizeFacts DEF ExchangeRows
<1>4. At("write") => exchange.offset < Size(f)
    BY <1>1, <1>2 DEF RequestInv
<1>5. PICK n \in Nat : n = SentBytes /\ n <= Size(f) /\ (At("write") => n < Size(f))
    BY <1>2, <1>3, <1>4 DEF SentBytes
<1>6. EndsWith(Input, f, n)
    BY <1>1, <1>2, <1>5
<1>7. QED
    BY <1>2, <1>5, <1>6

LEMMA WorkerReadsKeeps ==
    ASSUME ExchangeInv, open, WorkerReads, UNCHANGED exchangeVars
    PROVE  /\ ExchangeInv' /\ Stream' = Stream /\ Input # <<>> /\ worker.pc = "reading"
           /\ \/ worker' = Exited
              \/ /\ worker'.pc = "reading" /\ Input' # <<>>
                 /\ Busy => (Recent(Input'[1]) <=> Recent(Input[1]))
              \/ /\ worker'.pc = "computing"
                 /\ Busy /\ HeaderOf(worker'.got).correlation = requests => Recent(Input[1])
<1>1. /\ worker.pc = "reading" /\ stdin # <<>>
      /\ UNCHANGED <<stdout, open, exchange, buffer, demand, requests>>
    BY DEF WorkerReads, exchangeVars
<1>2. /\ PipesTypeOK /\ HeaderRead /\ KnownIds /\ Framed(Stream) /\ Whole(Stream)
      /\ requests \in Nat
    BY <1>1, OpenFacts DEF Running
<1>a. PICK b \in Seq(Bytes), rest \in Seq(Bytes) : \E got \in Taken(b) :
             /\ Input = b \o rest /\ stdin' = rest /\ b # <<>>
             /\ Len(worker.got) < HeaderSize => Len(b) <= HeaderSize
             /\ \A i \in 1 .. Len(worker.got) : i \in 1 .. Len(b) /\ b[i] = worker.got[i]
             /\ worker' = CASE ReadFrame(got) = "more" -> [worker EXCEPT !.got = got]
                            [] ReadFrame(got) = "invalid" -> Exited
                            [] OTHER -> [worker EXCEPT !.pc = "computing", !.got = got]
    BY WorkerReadsPart
<1>3. PICK got \in Taken(b) :
             /\ Input = b \o rest /\ stdin' = rest /\ b # <<>>
             /\ Len(worker.got) < HeaderSize => Len(b) <= HeaderSize
             /\ \A i \in 1 .. Len(worker.got) : i \in 1 .. Len(b) /\ b[i] = worker.got[i]
             /\ worker' = CASE ReadFrame(got) = "more" -> [worker EXCEPT !.got = got]
                            [] ReadFrame(got) = "invalid" -> Exited
                            [] OTHER -> [worker EXCEPT !.pc = "computing", !.got = got]
    BY <1>a
<1>4. /\ got \in Seq(Bytes) /\ Len(got) = Len(b)
      /\ \/ ~Cut(b) /\ got = b
         \/ \E h \in Frames :
              /\ Cut(b) /\ h.correlation \in {b[1].of.correlation, 0}
              /\ \A i \in 1 .. HeaderSize : got[i] = [of |-> h, at |-> i]
              /\ \A i \in 1 .. HeaderSize : got[i].of = h
    BY TakenFacts
<1>5. /\ Len(b) \in Nat /\ 1 \in 1 .. Len(b) /\ DOMAIN b = 1 .. Len(b)
      /\ DOMAIN got = 1 .. Len(b) /\ HeaderSize \in Nat /\ 1 <= HeaderSize
    <2>1. Len(b) \in Nat /\ DOMAIN b = 1 .. Len(b)
        BY LenProperties
    <2>2. Len(b) # 0
        BY <1>3, EmptySeq
    <2>3. DOMAIN got = 1 .. Len(got)
        BY <1>4, LenProperties
    <2>4. QED
        BY <1>4, <2>1, <2>2, <2>3, FrameAssumption
<1>6. got # <<>>
    <2>1. Len(got) # 0
        BY <1>4, <1>5
    <2>2. QED
        BY <1>4, <2>1, EmptySeq
<1>7. \/ worker' = [worker EXCEPT !.got = got] /\ ReadFrame(got) = "more"
      \/ worker' = Exited
      \/ ReadFrame(got) = "frame" /\ worker' = [worker EXCEPT !.pc = "computing", !.got = got]
    <2>1. ReadFrame(got) \in {"more", "invalid", "frame"}
        BY DEF ReadFrame
    <2>2. CASE ReadFrame(got) = "more"
        BY <1>3, <2>2
    <2>3. CASE ReadFrame(got) = "invalid"
        BY <1>3, <2>3
    <2>4. CASE ReadFrame(got) = "frame"
        BY <1>3, <2>4
    <2>5. QED
        BY <2>1, <2>2, <2>3, <2>4
<1>8. worker.out = <<>>
    BY <1>1, <1>2 DEF PipesTypeOK
<1>9. /\ worker' \in [pc : {"reading", "computing", "writing", "exited"},
                       got : Seq(Bytes), out : Seq(Bytes)]
      /\ worker'.out = <<>> /\ worker'.pc # "writing"
      /\ \/ worker' = Exited /\ worker'.pc = "exited"
         \/ worker'.pc = "reading" /\ worker'.got = got /\ ReadFrame(got) = "more"
         \/ worker'.pc = "computing" /\ worker'.got = got /\ ReadFrame(got) = "frame"
    <2>1. CASE worker' = [worker EXCEPT !.got = got] /\ ReadFrame(got) = "more"
        BY <1>1, <1>2, <1>4, <1>8, <2>1 DEF PipesTypeOK
    <2>2. CASE worker' = Exited
        BY <2>2, EmptyFacts DEF Exited
    <2>3. CASE ReadFrame(got) = "frame" /\ worker' = [worker EXCEPT !.pc = "computing", !.got = got]
        BY <1>2, <1>4, <1>8, <2>3 DEF PipesTypeOK
    <2>4. QED
        BY <1>7, <2>1, <2>2, <2>3
<1>10. Stream' = Stream
    BY <1>1, <1>8, <1>9 DEF Stream
<1>11. /\ worker'.pc = "reading" => Input' = got \o rest
       /\ worker'.pc # "reading" => Input' = rest
    BY <1>3, <1>9 DEF Input
<1>12. PipesTypeOK'
    BY <1>1, <1>2, <1>3, <1>9 DEF PipesTypeOK
\* The first byte, before and after.
<1>13. Input # <<>> /\ Input[1] = b[1] /\ got \o rest # <<>> /\ (got \o rest)[1] = got[1]
    <2>1. b \o rest # <<>> /\ (b \o rest)[1] = b[1]
        BY <1>3, StraysStart
    <2>2. got \o rest # <<>> /\ (got \o rest)[1] = got[1]
        BY <1>4, <1>6, StraysStart
    <2>3. QED
        BY <1>3, <2>1, <2>2
<1>14. UpTo(got, requests) /\ UpTo(rest, requests)
    <2>1. UpTo(b, requests) /\ UpTo(rest, requests)
        BY <1>2, <1>3, JoinUpTo DEF KnownIds
    <2>2. ASSUME NEW h \in Frames, Cut(b), h.correlation \in {b[1].of.correlation, 0},
                 \A i \in 1 .. HeaderSize : got[i].of = h
          PROVE  UpTo(got, requests)
        <3>1. b[1].of.correlation <= requests /\ 0 <= requests
            BY <1>2, <1>5, <2>1 DEF UpTo
        <3>2. DOMAIN got = 1 .. HeaderSize
            BY <1>5, <2>2 DEF Cut
        <3>3. QED
            BY <2>2, <3>1, <3>2 DEF UpTo
    <2>3. QED
        BY <1>4, <2>1, <2>2
<1>15. ASSUME worker'.pc \in {"reading", "computing"}, HeaderSize <= Len(got)
       PROVE  got[1].at = 1 /\ got[1].of = got[HeaderSize].of
    <2>1. CASE Cut(b)
        <3>1. PICK h \in Frames : /\ \A i \in 1 .. HeaderSize : got[i] = [of |-> h, at |-> i]
                                  /\ \A i \in 1 .. HeaderSize : got[i].of = h
            BY <1>4, <2>1
        <3>2. 1 \in 1 .. HeaderSize /\ HeaderSize \in 1 .. HeaderSize
            BY <1>5
        <3>3. got[1] = [of |-> h, at |-> 1]
            BY <3>1, <3>2
        <3>4. QED
            BY <3>1, <3>2, <3>3
    <2>2. CASE ~Cut(b) /\ Len(b) = HeaderSize
        <3>1. HeaderAccepted(got)
            <4>1. ReadFrame(got) # "invalid" /\ ~(Len(got) < HeaderSize)
                BY <1>4, <1>5, <1>9, <1>15, <2>2 DEF Exited
            <4>2. QED
                BY <4>1 DEF ReadFrame
        <3>2. QED
            BY <1>4, <2>2, <3>1 DEF HeaderAccepted, Cut
    <2>3. CASE ~Cut(b) /\ Len(b) # HeaderSize
        <3>1. worker.got \in Seq(Bytes)
            BY <1>2, InputFacts
        <3>2. Len(worker.got) \in Nat
            BY <3>1, LenProperties
        <3>3. HeaderSize <= Len(worker.got)
            BY <1>3, <1>4, <1>5, <1>15, <2>3, <3>2
        <3>4. worker.got[1].at = 1 /\ worker.got[1].of = worker.got[HeaderSize].of
            BY <1>1, <1>2, <3>3 DEF HeaderRead
        <3>5. 1 \in 1 .. Len(worker.got) /\ HeaderSize \in 1 .. Len(worker.got)
            BY <1>5, <3>2, <3>3
        <3>6. got[1] = worker.got[1] /\ got[HeaderSize] = worker.got[HeaderSize]
            BY <1>3, <1>4, <2>3, <3>5
        <3>7. QED
            BY <3>4, <3>6
    <2>4. QED
        BY <2>1, <2>2, <2>3
<1>16. ReadFrame(got) = "frame" => HeaderSize <= Len(got)
    BY <1>4, <1>5 DEF ReadFrame
<1>17. HeaderRead'
    BY <1>9, <1>15, <1>16 DEF HeaderRead
<1>18. KnownIds'
    <2>1. UpTo(got \o rest, requests)
        BY <1>4, <1>14, JoinUpTo
    <2>2. UpTo(Input, requests)'
        BY <1>1, <1>11, <1>14, <2>1 DEF UpTo
    <2>3. UpTo(Stream, requests)'
        BY <1>1, <1>2, <1>10 DEF KnownIds, UpTo
    <2>4. ASSUME worker'.pc = "computing" PROVE HeaderOf(got).correlation <= requests
        <3>1. HeaderSize \in DOMAIN got
            BY <1>4, <1>5, <1>9, <1>16, <2>4
        <3>2. QED
            BY <1>14, <3>1 DEF UpTo, HeaderOf
    <2>5. QED
        BY <1>1, <1>9, <2>2, <2>3, <2>4 DEF KnownIds, HeaderOf
<1>19. ~Untouched
    BY <1>13 DEF Untouched
<1>20. Framed(Stream)' /\ Whole(Stream)'
    BY <1>2, <1>10 DEF Framed, Whole
<1>21. ASSUME Busy
       PROVE  /\ ComputingInv' /\ AnswerInv' /\ EndsWith(Input, exchange.request, SentBytes)'
              /\ got[1].of.correlation = requests <=> b[1].of.correlation = requests
              /\ worker'.pc = "computing" /\ HeaderOf(got).correlation = requests
                    => b[1].of.correlation = requests
    <2>1. PICK f \in Frames, n \in Nat :
             /\ f = exchange.request /\ f.correlation = requests /\ requests # 0
             /\ n = SentBytes /\ n <= Size(f) /\ (At("write") => n < Size(f))
             /\ EndsWith(Input, f, n)
        BY <1>21, SentFacts
    <2>2. EndsWith(b \o rest, f, n)
        BY <1>3, <2>1
    <2>3. SentBytes' = n /\ (At("write")' <=> At("write")) /\ exchange'.request = f
        BY <1>1, <2>1 DEF SentBytes, At, Size
    <2>4. ASSUME Cut(b)
          PROVE  /\ \A i \in DOMAIN got : got[i].of.correlation # f.correlation
                 /\ b[1].of.correlation # requests /\ DOMAIN got = 1 .. HeaderSize
        <3>1. b[1].of.correlation # f.correlation
            BY <2>2, <2>4, CutIsOlder
        <3>2. PICK h \in Frames : /\ h.correlation \in {b[1].of.correlation, 0}
                                  /\ \A i \in 1 .. HeaderSize : got[i].of = h
            BY <1>4, <2>4
        <3>3. DOMAIN got = 1 .. HeaderSize
            BY <1>5, <2>4 DEF Cut
        <3>4. h.correlation # f.correlation
            BY <2>1, <3>1, <3>2
        <3>5. QED
            BY <2>1, <3>1, <3>2, <3>3, <3>4
    <2>5. EndsWith(rest, f, n) /\ EndsWith(got \o rest, f, n)
        <3>1. EndsWith(rest, f, n)
            BY <2>2, EndKept
        <3>2. CASE Cut(b)
            BY <1>4, <2>2, <2>4, <3>2, EndKept
        <3>3. CASE ~Cut(b)
            <4>1. got = b
                BY <1>4, <3>3
            <4>2. QED
                BY <2>2, <3>1, <4>1
        <3>4. QED
            BY <3>1, <3>2, <3>3
    <2>6. EndsWith(Input, exchange.request, SentBytes)'
        BY <1>11, <2>3, <2>5 DEF EndsWith
    <2>7. AnswerInv'
        <3>1. ~AnswerSent
            BY <1>19, <1>21, OpenFacts DEF AnswerInv
        <3>2. QED
            BY <1>1, <1>10, <3>1 DEF AnswerInv, AnswerSent, Recent
    <2>8. got[1].of.correlation = requests <=> b[1].of.correlation = requests
        <3>1. CASE Cut(b)
            <4>1. 1 \in DOMAIN got
                BY <1>5
            <4>2. QED
                BY <2>1, <2>4, <3>1, <4>1
        <3>2. CASE ~Cut(b)
            BY <1>4, <3>2
        <3>3. QED
            BY <3>1, <3>2
    <2>9. ASSUME worker'.pc = "computing", HeaderOf(got).correlation = requests
          PROVE  /\ b[1].of.correlation = requests
                 /\ got = Encoded(f) /\ rest = <<>> /\ ~At("write")
        <3>1. HeaderSize <= Len(got) /\ ReadFrame(got) = "frame" /\ HeaderSize \in DOMAIN got
            BY <1>4, <1>5, <1>9, <1>16, <2>9 DEF Exited
        <3>2. got = b
            BY <1>4, <2>1, <2>4, <2>9, <3>1 DEF HeaderOf
        <3>3. b[1].at = 1 /\ b[1].of = HeaderOf(b)
            BY <1>15, <2>9, <3>1, <3>2 DEF HeaderOf
        <3>4. b[1].of.correlation = requests
            BY <2>9, <3>2, <3>3
        <3>5. PICK x \in Seq(Bytes) : x = b \o rest /\ x # <<>> /\ x[1] = b[1]
            <4>1. b \o rest \in Seq(Bytes)
                BY JoinFacts
            <4>2. QED
                BY <1>3, <1>13, <4>1
        <3>6. /\ \A j \in 1 .. Len(x) : x[j].of = f
              /\ n = Len(x) /\ \A j \in 1 .. Len(x) : x[j] = [of |-> f, at |-> j]
            <4>1. /\ EndsWith(x, f, n) /\ x[1].of.correlation = f.correlation /\ x[1].at = 1
                  /\ x # <<>>
                BY <2>1, <2>2, <3>3, <3>4, <3>5
            <4>2. /\ \A j \in 1 .. Len(x) : x[j].of = f
                  /\ x[1].at = 1
                       => n = Len(x) /\ \A j \in 1 .. Len(x) : x[j] = [of |-> f, at |-> j]
                BY <4>1, EndFromStart
            <4>3. QED
                BY <4>1, <4>2
        <3>7. /\ Len(x) = Len(b) + Len(rest) /\ Len(rest) \in Nat
              /\ \A j \in 1 .. Len(b) : x[j] = b[j]
            BY <3>5, JoinFacts
        <3>8. 1 \in 1 .. Len(x) /\ \A j \in 1 .. Len(b) : j \in 1 .. Len(x)
            BY <1>5, <3>7
        <3>9. HeaderOf(b) = f
            BY <3>3, <3>5, <3>6, <3>8
        <3>10. ~(Len(b) < Size(f)) /\ Size(f) \in Nat
            <4>1. ~(Len(got) < HeaderSize)
                BY <1>4, <1>5, <3>1
            <4>2. ~(Len(got) < Size(HeaderOf(got)))
                BY <3>1, <4>1 DEF ReadFrame
            <4>3. QED
                BY <3>2, <3>9, <4>2, SizeFacts
        <3>11. Len(b) = Size(f) /\ Len(rest) = 0 /\ n = Size(f)
            BY <1>5, <2>1, <3>6, <3>7, <3>10
        <3>12. ~At("write")
            BY <2>1, <3>10, <3>11
        <3>13. \A j \in 1 .. Len(b) : b[j] = [of |-> f, at |-> j]
            BY <3>6, <3>7, <3>8
        <3>14. b = Encoded(f)
            BY <3>11, <3>13, PrefixIsEncoded DEF Prefix
        <3>15. QED
            BY <3>2, <3>4, <3>11, <3>12, <3>14, EmptySeq
    <2>10. ComputingInv'
        <3>1. Encoded(exchange.request)' = Encoded(f)
            BY <2>3 DEF Encoded, Size
        <3>2. ASSUME worker'.pc = "computing", HeaderOf(worker'.got).correlation = requests
              PROVE  worker'.got = Encoded(f) /\ stdin' = <<>> /\ ~At("write")
            BY <1>3, <1>9, <2>9, <3>2 DEF Exited
        <3>3. QED
            BY <1>1, <2>3, <3>1, <3>2 DEF ComputingInv, HeaderOf
    <2>11. QED
        BY <2>6, <2>7, <2>8, <2>9, <2>10
<1>22. ExchangeInv'
    BY <1>1, <1>12, <1>17, <1>18, <1>19, <1>20, <1>21, WorkerKeeps
<1>23. \/ worker' = Exited
       \/ /\ worker'.pc = "reading" /\ Input' # <<>>
          /\ Busy => (Recent(Input'[1]) <=> Recent(Input[1]))
       \/ /\ worker'.pc = "computing"
          /\ Busy /\ HeaderOf(worker'.got).correlation = requests => Recent(Input[1])
    <2>1. CASE worker'.pc = "reading"
        BY <1>11, <1>13, <1>21, <2>1 DEF Recent
    <2>2. CASE worker'.pc = "computing" /\ worker'.got = got
        BY <1>13, <1>21, <2>2 DEF Recent
    <2>3. QED
        BY <1>9, <2>1, <2>2
<1>24. QED
    BY <1>1, <1>10, <1>13, <1>22, <1>23
-----------------------------------------------------------------------------
(***************************************************************************)
(* The theorems.                                                           *)
(***************************************************************************)
LEMMA InitExchange ==
    Init => ExchangeInv
<1> SUFFICES ASSUME Init PROVE ExchangeInv
    OBVIOUS
<1>1. /\ worker = Fresh /\ stdin = <<>> /\ stdout = <<>> /\ buffer = <<>> /\ open = TRUE
      /\ exchange = Idle /\ demand = "none" /\ requests = 0
    BY DEF Init
<1>2. exchange \in ExchangeRows /\ exchange.pc = "idle" /\ exchange.outcome = "none"
    BY <1>1, EmptyFacts DEF Idle, ExchangeRows
<1>3. OpenInv
    BY <1>1, <1>2, FreshFacts DEF OpenInv, At, Busy
<1>4. QED
    BY <1>1, <1>2, <1>3 DEF ExchangeInv, AnswerIntact, At

LEMMA ExchangeStutter ==
    ASSUME ExchangeInv, UNCHANGED vars
    PROVE  ExchangeInv'
<1>1. UNCHANGED <<worker, stdin, stdout, open, exchange, buffer, demand, requests>>
    BY DEF vars, workerVars, exchangeVars
<1>2. CASE open
    <2>1. OpenInv /\ PipesTypeOK /\ exchange \in ExchangeRows
        BY <1>2, OpenFacts
    <2>2. Stream' = Stream
        BY <1>1 DEF Stream
    <2>3. stdout' \in Seq(Bytes) /\ buffer' \in Seq(Bytes)
        BY <1>1, <2>1 DEF PipesTypeOK
    <2>4. demand' \in {"none", "stopped", "cancelled", "timed_out"}
        BY <1>1 DEF ExchangeInv
    <2>5. QED
        BY <1>1, <1>2, <2>1, <2>2, <2>3, <2>4, StreamMove
<1>3. CASE ~open
    BY <1>1, <1>3 DEF ExchangeInv, ClosedInv, AnswerIntact, At
<1>4. QED
    BY <1>2, <1>3

LEMMA WorkerStepKeeps ==
    ASSUME ExchangeInv, WorkerStep \/ WorkerStrays \/ WorkerDies, UNCHANGED exchangeVars
    PROVE  ExchangeInv'
<1>1. CASE ~open
    BY <1>1, ClosedWorkerKeeps
<1>2. CASE open /\ WorkerReads
    BY <1>2, WorkerReadsKeeps
<1>3. CASE open /\ (WorkerComputes \/ WorkerStrays)
    BY <1>3, WorkerAnswersKeeps
<1>4. CASE open /\ WorkerWrites
    BY <1>4, WorkerWritesKeeps
<1>5. CASE open /\ WorkerDies
    BY <1>5, WorkerDiesKeeps
<1>6. CASE open /\ (WorkerSeesEnd \/ WorkerWriteFails)
    BY <1>6 DEF WorkerSeesEnd, WorkerWriteFails
<1>7. QED
    BY <1>1, <1>2, <1>3, <1>4, <1>5, <1>6 DEF WorkerStep

LEMMA NextKeepsExchange ==
    ASSUME ExchangeInv, [Next]_vars
    PROVE  ExchangeInv'
<1>1. CASE Spawn \/ Begin \/ BeginFindsDead \/ KernelDies
    BY <1>1, SpawnKeeps, BeginKeeps, BeginFindsDeadKeeps, KernelDiesKeeps
<1>2. CASE KernelStep
    <2>1. CASE WriteSome
        BY <2>1, WriteSomeKeeps
    <2>2. CASE ReadChunk
        BY <2>2, ReadChunkKeeps
    <2>3. CASE ReadAnswer
        BY <2>3, ReadAnswerKeeps
    <2>4. CASE ReadNothing \/ CheckLast \/ CheckAgain
        BY <2>4, CallMoves
    <2>5. CASE \/ WriteFindsDead \/ WriteInterrupted \/ ReadEnd \/ ReadInvalid \/ ReadForeign
               \/ CheckStopped \/ LastInterrupted
        BY <2>5, GiveUpSteps
    <2>6. QED
        BY <1>2, <2>1, <2>2, <2>3, <2>4, <2>5 DEF KernelStep
<1>3. CASE (WorkerStep \/ WorkerStrays \/ WorkerDies) /\ UNCHANGED exchangeVars
    BY <1>3, WorkerStepKeeps
<1>4. CASE Demand \/ CancellationThrows
    BY <1>4, CallMoves, ThrowKeeps
<1>5. CASE UNCHANGED vars
    BY <1>5, ExchangeStutter
<1>6. QED
    BY <1>1, <1>2, <1>3, <1>4, <1>5 DEF Next

(***************************************************************************)
(* The strengthening is an invariant of every exchange: where the bytes of *)
(* a request and of an answer are at each moment of execute, with every    *)
(* interleaving of its reads and writes with the worker's.                 *)
(***************************************************************************)
THEOREM ExchangeSafety == Spec => []ExchangeInv
<1>1. Init => ExchangeInv
    BY InitExchange
<1>2. ExchangeInv /\ [Next]_vars => ExchangeInv'
    BY NextKeepsExchange
<1>3. QED
    BY <1>1, <1>2, PTL DEF Spec

(***************************************************************************)
(* What the worker computes under the id of the call in progress is the    *)
(* request that execute sent, and an attempt succeeds only with the        *)
(* complete result frame of its own request, however the pipes cut both    *)
(* and whatever an exception out of an earlier call has left behind.       *)
(***************************************************************************)
THEOREM ExchangeIntactAlways == Spec => []ExchangeIntact
<1>1. ExchangeInv => ExchangeIntact
    <2> SUFFICES ASSUME ExchangeInv PROVE ExchangeIntact
        OBVIOUS
    <2>1. AnswerIntact
        BY DEF ExchangeInv
    <2>2. ASSUME worker.pc = "computing", Busy,
                 HeaderOf(worker.got).correlation = exchange.request.correlation
          PROVE  worker.got = Encoded(exchange.request)
        <3>1. ComputingInv /\ RequestInv
            BY <2>2, BusyFacts DEF OpenInv
        <3>2. QED
            BY <2>2, <3>1 DEF ComputingInv, RequestInv
    <2>3. QED
        BY <2>1, <2>2 DEF ExchangeIntact, AnswerIntact
<1>2. QED
    BY <1>1, ExchangeSafety, PTL

(***************************************************************************)
(* No byte of an answer is lost or read twice between the pipe, buffer_    *)
(* and the frames read_available hands out: what is left is always cut at  *)
(* frame boundaries.                                                       *)
(***************************************************************************)
THEOREM StreamInStepAlways == Spec => []StreamInStep
<1>1. ExchangeInv => StreamInStep
    BY DEF ExchangeInv, OpenInv, StreamInStep, Stream
<1>2. QED
    BY <1>1, ExchangeSafety, PTL

(***************************************************************************)
(* A worker that execute returns has no rest of a request before it and no *)
(* answer on its way but what it sent unasked, unless the last call ended  *)
(* in an exception of cancellation_requested.                              *)
(***************************************************************************)
THEOREM CleanHandoverAlways == Spec => []CleanHandover
<1>1. ExchangeInv => CleanHandover
    <2> SUFFICES ASSUME ExchangeInv, exchange.pc = "idle", open, exchange.outcome # "thrown"
                 PROVE  /\ stdin = <<>>
                        /\ \A b \in Range(buffer \o stdout \o worker.out) : b.of \in Strays
        BY DEF CleanHandover
    <2>1. At("idle") /\ ~Busy
        BY DEF At, Busy
    <2>2. Untouched /\ OnlyStrays(Stream, requests)
        BY <2>1, OpenFacts
    <2>3. \A i \in DOMAIN Stream : Stream[i].of \in Strays
        BY <2>2 DEF OnlyStrays, StrayByte
    <2>4. \A b \in Range(Stream) : b.of \in Strays
        BY <2>3 DEF Range
    <2>5. stdin = <<>>
        <3>1. PipesTypeOK /\ Input = <<>>
            BY <2>2, OpenFacts DEF Untouched
        <3>2. CASE worker.pc = "reading"
            <4>1. worker.got \o stdin = <<>> /\ worker.got \in Seq(Bytes) /\ stdin \in Seq(Bytes)
                BY <3>1, <3>2, InputFacts
            <4>2. Len(worker.got) + Len(stdin) = 0 /\ Len(worker.got) \in Nat /\ Len(stdin) \in Nat
                BY <4>1, JoinFacts, EmptyFacts
            <4>3. Len(stdin) = 0
                BY <4>2
            <4>4. QED
                BY <4>1, <4>3, EmptySeq
        <3>3. CASE worker.pc # "reading"
            BY <3>1, <3>3, InputFacts
        <3>4. QED
            BY <3>2, <3>3
    <2>6. QED
        BY <2>4, <2>5 DEF Stream
<1>2. QED
    BY <1>1, ExchangeSafety, PTL

LEMMA AnswerWinsNext ==
    ASSUME ExchangeInv, [Next]_vars
    PROVE  AnswerWinsStep
<1> SUFFICES ASSUME Busy, ~At("write"), exchange'.pc = "idle", exchange'.answer = <<>>,
                    AnswerArrived, demand # "stopped", Running,
                    ~(Len(buffer \o stdout) > MaxBuffered), ~(exchange.turn >= ReadBudget),
                    exchange'.outcome # "thrown"
             PROVE  FALSE
    BY DEF AnswerWinsStep
<1>1. /\ open /\ OpenInv /\ PipesTypeOK /\ exchange \in ExchangeRows /\ Framed(Stream)
      /\ exchange.pc \in {"read", "check", "last"}
    BY BusyFacts DEF OpenInv, Busy, At
<1>2. PICK b \in Seq(Bytes) : b = buffer
    BY <1>1, StreamFacts
<1>3. PICK t \in Seq(Bytes) : t = stdout
    BY <1>1, StreamFacts
<1>4. ReadFrame(b \o t) = "frame" /\ Accepts(HeaderOf(b \o t))
    BY <1>2, <1>3 DEF AnswerArrived
<1>5. Framed(b)
    <2>1. PICK r \in Seq(Bytes) : r = stdout \o worker.out
        BY <1>1, StreamFacts
    <2>2. Stream = b \o r
        BY <1>1, <1>2, <2>1, StreamFacts
    <2>3. QED
        BY <1>1, <2>2, FramedStart
<1>6. ASSUME ReadDone
      PROVE  ReadFrame(buffer) = "frame" /\ Accepts(HeaderOf(buffer))
    <2>1. t = <<>>
        BY <1>3, <1>6 DEF ReadDone
    <2>2. b \o t = b
        BY <2>1, ConcatEmptySeq
    <2>3. QED
        BY <1>2, <1>4, <2>2
<1>7. CASE ReadChunk
    <2>1. PICK k \in ReadSizes(exchange.turn, Len(t)) :
            IF Overflows(b, k) THEN GiveUp("failed")
            ELSE exchange' = [exchange EXCEPT !.turn = @ + k]
        BY <1>2, <1>3, <1>7 DEF ReadChunk
    <2>2. Overflows(b, k)
        <3>1. SUFFICES ASSUME exchange' = [exchange EXCEPT !.turn = @ + k] PROVE FALSE
            BY <2>1
        <3>2. exchange'.pc = exchange.pc
            BY <1>1, <3>1 DEF ExchangeRows
        <3>3. QED
            BY <1>1, <3>2
    <2>3. Len(b) \in Nat /\ Len(t) \in Nat /\ Len(b \o t) = Len(b) + Len(t)
          /\ exchange.turn \in Nat
        BY <1>1, JoinFacts DEF ExchangeRows
    <2>4. /\ MaxBuffered \in Int /\ ChunkSize \in Int /\ ReadBudget - exchange.turn \in Int
          /\ Len(b) \in Int /\ Len(t) \in Int
        BY <2>3, FrameAssumption DEF MaxBuffered
    <2>5. k \in Int /\ k <= Len(t)
        <3>1. /\ Min({ChunkSize, ReadBudget - exchange.turn, Len(t)}) \in Int
              /\ Min({ChunkSize, ReadBudget - exchange.turn, Len(t)}) <= Len(t)
            BY <2>4, MinFacts
        <3>2. k \in 1 .. Min({ChunkSize, ReadBudget - exchange.turn, Len(t)})
            BY DEF ReadSizes
        <3>3. QED
            BY <2>3, <3>1, <3>2
    <2>6. k > MaxBuffered - Min({Len(b), MaxBuffered})
        BY <2>2 DEF Overflows
    <2>7. Min({Len(b), MaxBuffered}) \in Int /\ Min({Len(b), MaxBuffered}) <= Len(b)
        BY <2>4, MinFacts
    <2>8. Len(b) + Len(t) > MaxBuffered
        <3> DEFINE m == Min({Len(b), MaxBuffered})  x == Len(b)  y == Len(t)  z == MaxBuffered
        <3>1. m \in Int /\ x \in Nat /\ y \in Nat /\ z \in Int
              /\ k \in Int /\ k <= y /\ k > z - m /\ m <= x
            BY <2>3, <2>4, <2>5, <2>6, <2>7
        <3> HIDE DEF m, x, y, z
        <3>2. x + y > z
            BY <3>1
        <3>3. QED
            BY <3>2 DEF x, y, z
    <2>9. QED
        BY <1>2, <1>3, <2>3, <2>8
<1>8. CASE ReadInvalid \/ ReadForeign \/ LastInterrupted
    BY <1>6, <1>8 DEF ReadInvalid, ReadForeign, LastInterrupted
<1>9. CASE ReadAnswer
    <2>1. ReadFrame(b) = "frame" /\ exchange'.answer = FirstFrame(b)
        BY <1>1, <1>2, <1>9 DEF ReadAnswer, ExchangeRows
    <2>2. PICK f \in Frames : FirstFrame(b) = Encoded(f)
        BY <1>5, <2>1, FrameRead
    <2>3. Len(Encoded(f)) = Size(f) /\ Size(f) \in Nat /\ 1 <= HeaderSize /\ HeaderSize <= Size(f)
          /\ HeaderSize \in Nat
        BY EncodedFacts, SizeFacts
    <2>4. Len(Encoded(f)) # 0
        BY <2>3
    <2>5. QED
        BY <2>1, <2>2, <2>4, EmptyFacts
<1>10. CASE ReadNothing \/ CheckLast \/ CheckAgain
    BY <1>1, <1>10 DEF ReadNothing, CheckLast, CheckAgain, ExchangeRows
<1>11. CASE KernelDies \/ Spawn \/ Begin \/ BeginFindsDead
    BY <1>1, <1>11 DEF KernelDies, Spawn, Begin, BeginFindsDead, At, Idle
<1>12. CASE WriteSome \/ WriteFindsDead \/ WriteInterrupted \/ ReadEnd \/ CheckStopped
    BY <1>12 DEF WriteSome, WriteFindsDead, WriteInterrupted, ReadEnd, CheckStopped
<1>13. CASE exchange' = exchange
    BY <1>1, <1>13
<1>14. CASE CancellationThrows
    BY <1>1, <1>14 DEF CancellationThrows, Returns, ExchangeRows
<1>15. QED
    <2>1. CASE Demand \/ UNCHANGED vars \/ UNCHANGED exchangeVars
        BY <1>13, <2>1 DEF Demand, vars, exchangeVars
    <2>2. CASE KernelStep
        BY <1>7, <1>8, <1>9, <1>10, <1>12, <2>2 DEF KernelStep
    <2>3. QED
        BY <1>11, <1>14, <2>1, <2>2 DEF Next

(***************************************************************************)
(* An answer that has arrived becomes the outcome although the attempt is  *)
(* cancelled or its time is up: execute reads once more before it ends the *)
(* attempt.  Only the stop of the Kernel, the end of the worker, a buffer  *)
(* that overflows, a spent read budget and an exception of                 *)
(* cancellation_requested lose it.                                         *)
(***************************************************************************)
THEOREM AnswerWinsAlways == Spec => AnswerWins
<1>1. ExchangeInv /\ [Next]_vars => [AnswerWinsStep]_vars
    BY AnswerWinsNext
<1>2. QED
    BY <1>1, ExchangeSafety, PTL DEF Spec, AnswerWins
-----------------------------------------------------------------------------
(***************************************************************************)
(* The exchange implements WorkerCall.                                     *)
(***************************************************************************)
\* Where the abstract call is, by cases.
LEMMA PhaseOf ==
    ASSUME exchange \in ExchangeRows
    PROVE  /\ At("down") => CallPhase = "down"
           /\ At("idle") /\ ~open => CallPhase = "none"
           /\ At("idle") /\ open /\ ~Running => CallPhase = "dead"
           /\ At("idle") /\ open /\ Running =>
                CallPhase = IF Untouched /\ Stream = <<>> THEN "ready" ELSE "soiled"
           /\ Busy /\ Stream # <<>> =>
                CallPhase = IF Stream[1].of.correlation = requests THEN "answered" ELSE "spent"
           /\ Busy /\ Stream = <<>> /\ worker.pc = "computing" =>
                CallPhase = IF HeaderOf(worker.got).correlation = requests
                            THEN "computing" ELSE "spent"
           /\ Busy /\ Stream = <<>> /\ worker.pc = "reading" =>
                CallPhase = IF Input = <<>> \/ Input[1].of.correlation = requests
                            THEN "waiting" ELSE "spent"
           /\ Busy /\ Stream = <<>> /\ worker.pc \notin {"reading", "computing"} =>
                CallPhase = "spent"
<1>1. /\ Stream # <<>> => (HeldUp <=> Stream[1].of.correlation # requests)
      /\ Stream = <<>> /\ worker.pc = "computing" =>
            (HeldUp <=> HeaderOf(worker.got).correlation # requests)
      /\ Stream = <<>> /\ worker.pc = "reading" =>
            (HeldUp <=> Input # <<>> /\ Input[1].of.correlation # requests)
      /\ Stream = <<>> /\ worker.pc \notin {"reading", "computing"} => HeldUp
    BY DEF HeldUp, Recent
<1>2. QED
    BY <1>1 DEF CallPhase, At, Busy

LEMMA PhaseOfNext ==
    ASSUME exchange' \in ExchangeRows
    PROVE  /\ At("down")' => CallPhase' = "down"
           /\ At("idle")' /\ ~open' => CallPhase' = "none"
           /\ At("idle")' /\ open' /\ ~Running' => CallPhase' = "dead"
           /\ At("idle")' /\ open' /\ Running' =>
                CallPhase' = IF Untouched' /\ Stream' = <<>> THEN "ready" ELSE "soiled"
           /\ Busy' /\ Stream' # <<>> =>
                CallPhase' = IF Stream'[1].of.correlation = requests'
                             THEN "answered" ELSE "spent"
           /\ Busy' /\ Stream' = <<>> /\ worker'.pc = "computing" =>
                CallPhase' = IF HeaderOf(worker'.got).correlation = requests'
                             THEN "computing" ELSE "spent"
           /\ Busy' /\ Stream' = <<>> /\ worker'.pc = "reading" =>
                CallPhase' = IF Input' = <<>> \/ Input'[1].of.correlation = requests'
                             THEN "waiting" ELSE "spent"
           /\ Busy' /\ Stream' = <<>> /\ worker'.pc \notin {"reading", "computing"} =>
                CallPhase' = "spent"
<1>1. /\ Stream' # <<>> => (HeldUp' <=> Stream'[1].of.correlation # requests')
      /\ Stream' = <<>> /\ worker'.pc = "computing" =>
            (HeldUp' <=> HeaderOf(worker'.got).correlation # requests')
      /\ Stream' = <<>> /\ worker'.pc = "reading" =>
            (HeldUp' <=> Input' # <<>> /\ Input'[1].of.correlation # requests')
      /\ Stream' = <<>> /\ worker'.pc \notin {"reading", "computing"} => HeldUp'
    BY DEF HeldUp, Recent, HeaderOf
<1>2. QED
    BY <1>1 DEF CallPhase, At, Busy

\* A worker that is silent is not writing.
LEMMA SilentWorker ==
    ASSUME PipesTypeOK, Stream = <<>>
    PROVE  worker.pc # "writing"
<1> SUFFICES ASSUME worker.pc = "writing" PROVE FALSE
    OBVIOUS
<1>1. PICK s \in Seq(Bytes) : s = buffer \o stdout
    BY StreamFacts
<1>2. PICK t \in Seq(Bytes) : t = worker.out
    BY StreamFacts
<1>3. t # <<>>
    BY <1>2 DEF PipesTypeOK
<1>4. s \o t = <<>>
    BY <1>1, <1>2, StreamFacts
<1>5. Len(s \o t) = Len(s) + Len(t) /\ Len(s) \in Nat /\ Len(t) \in Nat
    BY JoinFacts
<1>6. Len(t) # 0
    BY <1>3, EmptySeq
<1>7. Len(s \o t) = 0
    BY <1>4, EmptyFacts
<1>8. QED
    BY <1>5, <1>6, <1>7

LEMMA BusyPhases ==
    ASSUME ExchangeInv, Busy
    PROVE  CallPhase \in {"waiting", "computing", "answered", "spent"}
BY PhaseOf DEF ExchangeInv

\* execute gives up: the demand that was made, or a failure, and no worker.
LEMMA GiveUpReturns ==
    ASSUME ExchangeInv, ExchangeInv', Busy, NEW o, GiveUp(o),
           o \in {"crashed", "failed"} \/ (o = demand /\ demand # "none")
    PROVE  CallOf!ReturnWithout
<1>1. /\ exchange' = [exchange EXCEPT !.pc = "idle", !.outcome = o] /\ open' = FALSE
      /\ demand' = demand /\ requests' = requests
    BY DEF GiveUp, Returns, Close
<1>2. /\ exchange \in ExchangeRows /\ exchange' \in ExchangeRows
      /\ demand \in {"none", "stopped", "cancelled", "timed_out"}
    BY DEF ExchangeInv
<1>3. exchange'.pc = "idle" /\ exchange'.outcome = o
    BY <1>1, <1>2 DEF ExchangeRows
<1>4. CallPhase' = "none"
    BY <1>1, <1>2, <1>3, PhaseOfNext DEF At
<1>5. CallPhase \in {"waiting", "computing", "answered", "spent"}
    BY BusyPhases
<1>6. o \in {"crashed", "failed"} \cup ({"stopped", "cancelled", "timed_out"} \cap {demand})
    BY <1>2
<1>7. QED
    BY <1>1, <1>3, <1>4, <1>5, <1>6 DEF CallOf!ReturnWithout, CallOf!InCall, CallOf!Demands

\* What the call depends on is as it was.
LEMMA PhaseKept ==
    ASSUME ExchangeInv, ExchangeInv', UNCHANGED <<worker, open, requests>>,
           Stream' = Stream, Input' = Input, Busy' <=> Busy,
           ~Busy => exchange'.pc = exchange.pc
    PROVE  CallPhase' = CallPhase
<1>1. exchange \in ExchangeRows /\ exchange' \in ExchangeRows
    BY DEF ExchangeInv
<1>2. /\ Untouched' <=> Untouched
      /\ Running' <=> Running
    BY DEF Untouched, Running
<1>3. CASE Busy
    <2>1. CASE Stream # <<>>
        BY <1>1, <1>3, <2>1, PhaseOf, PhaseOfNext
    <2>2. CASE Stream = <<>> /\ worker.pc = "computing"
        BY <1>1, <1>3, <2>2, PhaseOf, PhaseOfNext
    <2>3. CASE Stream = <<>> /\ worker.pc = "reading"
        BY <1>1, <1>3, <2>3, PhaseOf, PhaseOfNext
    <2>4. CASE Stream = <<>> /\ worker.pc \notin {"reading", "computing"}
        BY <1>1, <1>3, <2>4, PhaseOf, PhaseOfNext
    <2>5. QED
        BY <2>1, <2>2, <2>3, <2>4
<1>4. CASE ~Busy
    <2>1. At("idle") \/ At("down")
        BY <1>1, <1>4 DEF ExchangeRows, At, Busy
    <2>2. (At("idle")' <=> At("idle")) /\ (At("down")' <=> At("down"))
        BY <1>4 DEF At
    <2>3. CASE At("down")
        BY <1>1, <2>2, <2>3, PhaseOf, PhaseOfNext
    <2>4. CASE At("idle") /\ ~open
        BY <1>1, <2>2, <2>4, PhaseOf, PhaseOfNext
    <2>5. CASE At("idle") /\ open /\ ~Running
        BY <1>1, <1>2, <2>2, <2>5, PhaseOf, PhaseOfNext
    <2>6. CASE At("idle") /\ open /\ Running
        BY <1>1, <1>2, <2>2, <2>6, PhaseOf, PhaseOfNext
    <2>7. QED
        BY <2>1, <2>3, <2>4, <2>5, <2>6
<1>5. QED
    BY <1>3, <1>4

LEMMA ReadChunkCall ==
    ASSUME ExchangeInv, ExchangeInv', ReadChunk
    PROVE  CallOf!ReturnWithout \/ UNCHANGED CallOf!callVars
<1>1. Busy
    BY DEF ReadChunk, Reading, At, Busy
<1>2. CASE GiveUp("failed")
    BY <1>1, <1>2, GiveUpReturns
<1>3. CASE /\ UNCHANGED <<worker, stdin, open, demand, requests>> /\ Stream' = Stream
           /\ exchange'.pc = exchange.pc /\ exchange'.outcome = exchange.outcome
    <2>1. Input' = Input /\ (Busy' <=> Busy)
        BY <1>3 DEF Input, Busy
    <2>2. CallPhase' = CallPhase
        BY <1>3, <2>1, PhaseKept
    <2>3. QED
        BY <1>3, <2>2 DEF CallOf!callVars
<1>4. QED
    BY <1>2, <1>3, ReadChunkKeeps

\* The steps of execute that go on without an answer.
LEMMA MoveCall ==
    ASSUME ExchangeInv, ExchangeInv', ReadNothing \/ CheckLast \/ (CheckAgain /\ Running)
    PROVE  UNCHANGED CallOf!callVars
<1>1. exchange \in ExchangeRows
    BY DEF ExchangeInv
<1>2. /\ UNCHANGED <<worker, stdin, stdout, open, buffer, demand, requests>>
      /\ exchange.pc \in {"read", "check"}
      /\ \E pc \in {"read", "check", "last"} :
            \/ exchange' = [exchange EXCEPT !.pc = pc]
            \/ exchange' = [exchange EXCEPT !.pc = pc, !.turn = 0]
    <2>1. CASE ReadNothing
        BY <2>1 DEF ReadNothing, At, workerVars
    <2>2. CASE CheckLast
        BY <2>2 DEF CheckLast, At, workerVars
    <2>3. CASE CheckAgain /\ Running
        BY <2>3 DEF CheckAgain, At, workerVars
    <2>4. QED
        BY <2>1, <2>2, <2>3
<1>3. exchange'.pc \in {"read", "check", "last"} /\ exchange'.outcome = exchange.outcome
    BY <1>1, <1>2 DEF ExchangeRows
<1>4. Stream' = Stream /\ Input' = Input /\ Busy /\ Busy'
    BY <1>2, <1>3 DEF Stream, Input, Busy
<1>5. CallPhase' = CallPhase
    BY <1>2, <1>4, PhaseKept
<1>6. QED
    BY <1>2, <1>3, <1>5 DEF CallOf!callVars

\* The frame execute accepts is the answer to its request.
LEMMA ReadAnswerCall ==
    ASSUME ExchangeInv, ExchangeInv', ReadAnswer
    PROVE  CallOf!ReturnAnswer
<1>1. Busy
    BY DEF ReadAnswer, ReadDone, Reading, At, Busy
<1>2. /\ open /\ PipesTypeOK /\ exchange \in ExchangeRows /\ exchange' \in ExchangeRows
      /\ Framed(Stream) /\ exchange.request.correlation = requests
    BY <1>1, BusyFacts DEF OpenInv, ExchangeInv, RequestInv
<1>3. PICK b \in Seq(Bytes) : b = buffer
    BY <1>2, StreamFacts
<1>4. PICK t \in Seq(Bytes) : t = stdout \o worker.out
    BY <1>2, StreamFacts
<1>5. Stream = b \o t /\ Stream \in Seq(Bytes)
    BY <1>2, <1>3, <1>4, StreamFacts
<1>6. ReadFrame(b) = "frame" /\ Framed(b)
    BY <1>2, <1>3, <1>5, FramedStart DEF ReadAnswer
<1>7. b # <<>> /\ HeaderOf(b) = b[1].of
    BY <1>6, FrameRead
<1>8. HeaderOf(b).correlation = requests
    BY <1>2, <1>3 DEF ReadAnswer, Accepts
<1>9. Stream # <<>> /\ Stream[1].of.correlation = requests
    <2>1. Stream # <<>> /\ Stream[1] = b[1]
        BY <1>5, <1>7, StraysStart
    <2>2. QED
        BY <1>7, <1>8, <2>1
<1>10. /\ exchange'.pc = "idle" /\ exchange'.outcome \in {"succeeded", "failed"}
       /\ UNCHANGED <<open, demand, requests>>
    BY <1>2 DEF ReadAnswer, ExchangeRows
<1>11. CallPhase = "answered"
    BY <1>1, <1>2, <1>9, PhaseOf
<1>12. CallPhase' \in {"ready", "soiled", "dead"}
    <2>1. At("idle")' /\ open'
        BY <1>2, <1>10 DEF At
    <2>2. CASE Running'
        BY <1>2, <2>1, <2>2, PhaseOfNext
    <2>3. CASE ~Running'
        BY <1>2, <2>1, <2>3, PhaseOfNext
    <2>4. QED
        BY <2>2, <2>3
<1>13. QED
    BY <1>10, <1>11, <1>12 DEF CallOf!ReturnAnswer

\* Writing does not change what the worker is held up by.
LEMMA WriteSomeCall ==
    ASSUME ExchangeInv, ExchangeInv', WriteSome
    PROVE  UNCHANGED CallOf!callVars
<1>1. Busy
    BY DEF WriteSome, At, Busy
<1>2. exchange \in ExchangeRows /\ exchange' \in ExchangeRows
    BY DEF ExchangeInv
<1>3. /\ Stream' = Stream /\ UNCHANGED <<worker, open, requests, demand>>
      /\ exchange'.pc \in {"write", "read"} /\ exchange'.outcome = exchange.outcome
      /\ Input' # <<>>
      /\ Input # <<>> => Input'[1] = Input[1]
      /\ Input = <<>> => Input'[1].of.correlation = requests
    BY WriteSomeKeeps
<1>4. Busy'
    BY <1>3 DEF Busy
<1>5. CallPhase' = CallPhase
    <2>1. CASE Stream # <<>>
        BY <1>1, <1>2, <1>3, <1>4, <2>1, PhaseOf, PhaseOfNext
    <2>2. CASE Stream = <<>> /\ worker.pc = "computing"
        BY <1>1, <1>2, <1>3, <1>4, <2>2, PhaseOf, PhaseOfNext
    <2>3. CASE Stream = <<>> /\ worker.pc = "reading"
        BY <1>1, <1>2, <1>3, <1>4, <2>3, PhaseOf, PhaseOfNext
    <2>4. CASE Stream = <<>> /\ worker.pc \notin {"reading", "computing"}
        BY <1>1, <1>2, <1>3, <1>4, <2>4, PhaseOf, PhaseOfNext
    <2>5. QED
        BY <2>1, <2>2, <2>3, <2>4
<1>6. QED
    BY <1>3, <1>5 DEF CallOf!callVars

\* The exception keeps the worker, ready only when nothing was written to it.
LEMMA ThrowCall ==
    ASSUME ExchangeInv, ExchangeInv', CancellationThrows
    PROVE  CallOf!Throw
<1>1. /\ exchange \in ExchangeRows /\ exchange' \in ExchangeRows /\ Busy
      /\ UNCHANGED <<worker, stdin, stdout, open, buffer, demand, requests>>
      /\ demand # "stopped"
    BY DEF ExchangeInv, CancellationThrows, At, Busy, workerVars
<1>2. exchange'.pc = "idle" /\ exchange'.outcome = "thrown"
    BY <1>1 DEF CancellationThrows, Returns, ExchangeRows
<1>3. open /\ PipesTypeOK
    BY <1>1, BusyFacts DEF OpenInv
<1>4. /\ Stream' = Stream /\ Input' = Input /\ At("idle")' /\ open'
      /\ Untouched' <=> Untouched
      /\ Running' <=> Running
    BY <1>1, <1>2, <1>3 DEF Stream, Input, Untouched, Running, At
<1>5. CallPhase \in {"waiting", "computing", "answered", "spent"}
    BY <1>1, BusyPhases
<1>6. \/ CallPhase' \in {"soiled", "dead"}
      \/ CallPhase = "waiting" /\ CallPhase' = "ready"
    <2>1. CASE ~Running
        BY <1>1, <1>4, <2>1, PhaseOfNext
    <2>2. CASE Running /\ ~(Untouched /\ Stream = <<>>)
        BY <1>1, <1>4, <2>2, PhaseOfNext
    <2>3. CASE Running /\ Untouched /\ Stream = <<>>
        <3>1. worker.pc = "reading" /\ Input = <<>>
            BY <1>3, <2>3, SilentWorker DEF Untouched, Running, PipesTypeOK
        <3>2. CallPhase = "waiting"
            BY <1>1, <2>3, <3>1, PhaseOf
        <3>3. CallPhase' = "ready"
            BY <1>1, <1>4, <2>3, PhaseOfNext
        <3>4. QED
            BY <3>2, <3>3
    <2>4. QED
        BY <2>1, <2>2, <2>3
<1>7. QED
    BY <1>1, <1>2, <1>5, <1>6 DEF CallOf!Throw, CallOf!InCall

\* The steps of the worker while no call is in progress.
LEMMA IdleWorkerCall ==
    ASSUME ExchangeInv, ExchangeInv', UNCHANGED exchangeVars, At("idle"), open, open',
           WorkerReads \/ WorkerComputes \/ WorkerStrays \/ WorkerWrites \/ WorkerDies
    PROVE  \/ CallPhase' = CallPhase
           \/ CallPhase \in {"ready", "soiled"} /\ CallPhase' = "dead"
<1>1. exchange' = exchange /\ exchange \in ExchangeRows /\ exchange' \in ExchangeRows
    BY DEF ExchangeInv, exchangeVars
<1>2. At("idle")' /\ Running
    BY <1>1 DEF At, Running, WorkerReads, WorkerComputes, WorkerStrays, WorkerWrites, WorkerDies
<1>3. CallPhase = IF Untouched /\ Stream = <<>> THEN "ready" ELSE "soiled"
    BY <1>1, <1>2, PhaseOf
<1>4. ASSUME worker' = Exited PROVE CallPhase' = "dead"
    <2>1. ~Running'
        BY <1>4 DEF Running, Exited
    <2>2. QED
        BY <1>1, <1>2, <2>1, PhaseOfNext
<1>5. ASSUME Running', Untouched' /\ Stream' = <<>> <=> Untouched /\ Stream = <<>>
      PROVE  CallPhase' = CallPhase
    BY <1>1, <1>2, <1>3, <1>5, PhaseOfNext
<1>6. CASE WorkerDies
    BY <1>3, <1>4, <1>6 DEF WorkerDies
<1>7. CASE WorkerReads
    <2>1. Input # <<>>
        BY <1>7, WorkerReadsKeeps
    <2>2. ~Untouched
        BY <2>1 DEF Untouched
    <2>3. CASE worker' = Exited
        BY <1>3, <1>4, <2>3
    <2>4. CASE worker'.pc = "reading" /\ Input' # <<>>
        BY <1>5, <2>2, <2>4 DEF Untouched, Running
    <2>5. CASE worker'.pc = "computing"
        BY <1>5, <2>2, <2>5 DEF Untouched, Running
    <2>6. QED
        BY <1>7, <2>3, <2>4, <2>5, WorkerReadsKeeps
<1>8. CASE WorkerComputes \/ WorkerStrays
    <2>1. worker'.pc = "writing" /\ Stream' # <<>>
        BY <1>8, WorkerAnswersKeeps
    <2>2. worker.pc = "computing"
        BY <1>8 DEF WorkerComputes, WorkerStrays
    <2>3. QED
        BY <1>5, <2>1, <2>2 DEF Untouched, Running
<1>9. CASE WorkerWrites
    <2>1. Stream' = Stream /\ Input' = Input /\ (worker' = Fresh \/ worker'.pc = "writing")
        BY <1>9, WorkerWritesKeeps
    <2>2. worker'.pc \in {"reading", "writing"} /\ worker.pc = "writing"
        BY <1>9, <2>1 DEF Fresh, WorkerWrites
    <2>3. QED
        BY <1>5, <2>1, <2>2 DEF Untouched, Running
<1>10. QED
    BY <1>6, <1>7, <1>8, <1>9

\* The steps of the worker in a call: it takes the request, computes, answers.
LEMMA BusyWorkerCall ==
    ASSUME ExchangeInv, ExchangeInv', UNCHANGED exchangeVars, Busy, open, open',
           WorkerReads \/ WorkerComputes \/ WorkerStrays \/ WorkerWrites \/ WorkerDies
    PROVE  \/ CallPhase' = CallPhase
           \/ CallPhase = "waiting" /\ CallPhase' = "computing"
           \/ CallPhase = "computing" /\ CallPhase' = "answered"
           \/ CallPhase' = "spent"
<1>1. /\ exchange' = exchange /\ exchange \in ExchangeRows /\ exchange' \in ExchangeRows
      /\ requests' = requests /\ PipesTypeOK
    BY OpenFacts DEF ExchangeInv, exchangeVars
<1>2. Busy'
    BY <1>1 DEF Busy
<1>3. ASSUME Stream # <<>>, Stream' # <<>>, Stream'[1] = Stream[1]
      PROVE  CallPhase' = CallPhase
    BY <1>1, <1>2, <1>3, PhaseOf, PhaseOfNext
<1>4. ASSUME worker' = Exited, Stream' = <<>> PROVE CallPhase' = "spent"
    <2>1. worker'.pc = "exited"
        BY <1>4 DEF Exited
    <2>2. QED
        BY <1>1, <1>2, <1>4, <2>1, PhaseOfNext
<1>5. CASE WorkerDies
    <2>1. worker' = Exited /\ (Stream' # <<>> => Stream # <<>> /\ Stream'[1] = Stream[1])
        BY <1>5, WorkerDiesKeeps
    <2>2. QED
        BY <1>3, <1>4, <2>1
<1>6. CASE WorkerReads /\ Stream = <<>>
    <2>1. /\ Stream' = Stream /\ Input # <<>> /\ worker.pc = "reading"
          /\ \/ worker' = Exited
             \/ /\ worker'.pc = "reading" /\ Input' # <<>>
                /\ Busy => (Recent(Input'[1]) <=> Recent(Input[1]))
             \/ /\ worker'.pc = "computing"
                /\ Busy /\ HeaderOf(worker'.got).correlation = requests => Recent(Input[1])
        BY <1>6, WorkerReadsKeeps
    <2>2. CallPhase = IF Input[1].of.correlation = requests THEN "waiting" ELSE "spent"
        BY <1>1, <1>6, <2>1, PhaseOf
    <2>3. CASE worker' = Exited
        BY <1>4, <1>6, <2>1, <2>3
    <2>4. CASE /\ worker'.pc = "reading" /\ Input' # <<>>
               /\ Busy => (Recent(Input'[1]) <=> Recent(Input[1]))
        <3>1. CallPhase' = IF Input'[1].of.correlation = requests THEN "waiting" ELSE "spent"
            BY <1>1, <1>2, <1>6, <2>1, <2>4, PhaseOfNext
        <3>2. QED
            BY <2>2, <2>4, <3>1 DEF Recent
    <2>5. CASE /\ worker'.pc = "computing"
               /\ Busy /\ HeaderOf(worker'.got).correlation = requests => Recent(Input[1])
        <3>1. CallPhase' = IF HeaderOf(worker'.got).correlation = requests
                           THEN "computing" ELSE "spent"
            BY <1>1, <1>2, <1>6, <2>1, <2>5, PhaseOfNext
        <3>2. QED
            BY <2>2, <2>5, <3>1 DEF Recent
    <2>6. QED
        BY <2>1, <2>3, <2>4, <2>5
<1>7. CASE WorkerReads /\ Stream # <<>>
    <2>1. Stream' = Stream
        BY <1>7, WorkerReadsKeeps
    <2>2. QED
        BY <1>3, <1>7, <2>1
<1>8. CASE WorkerComputes \/ WorkerStrays
    <2>1. /\ Stream' # <<>>
          /\ Stream # <<>> => Stream'[1] = Stream[1]
          /\ Stream = <<>> /\ Stream'[1].of.correlation = requests
                => HeaderOf(worker.got).correlation = requests
        BY <1>8, WorkerAnswersKeeps
    <2>2. worker.pc = "computing"
        BY <1>8 DEF WorkerComputes, WorkerStrays
    <2>3. CASE Stream # <<>>
        BY <1>3, <2>1, <2>3
    <2>4. CASE Stream = <<>>
        <3>1. CallPhase = IF HeaderOf(worker.got).correlation = requests
                          THEN "computing" ELSE "spent"
            BY <1>1, <2>2, <2>4, PhaseOf
        <3>2. CallPhase' = IF Stream'[1].of.correlation = requests THEN "answered" ELSE "spent"
            BY <1>1, <1>2, <2>1, PhaseOfNext
        <3>3. QED
            BY <2>1, <2>4, <3>1, <3>2
    <2>5. QED
        BY <2>3, <2>4
<1>9. CASE WorkerWrites
    <2>1. Stream' = Stream /\ worker.pc = "writing"
        BY <1>9, WorkerWritesKeeps DEF WorkerWrites
    <2>2. Stream # <<>>
        BY <1>1, <2>1, SilentWorker
    <2>3. QED
        BY <1>3, <2>1, <2>2
<1>10. QED
    BY <1>5, <1>6, <1>7, <1>8, <1>9

LEMMA WorkerCalls ==
    ASSUME ExchangeInv, ExchangeInv', UNCHANGED exchangeVars,
           WorkerStep \/ WorkerStrays \/ WorkerDies
    PROVE  \/ CallOf!Dies \/ CallOf!Compute \/ CallOf!Answer \/ CallOf!Spend
           \/ UNCHANGED CallOf!callVars
<1>1. /\ UNCHANGED <<exchange, demand, requests, open>>
      /\ exchange \in ExchangeRows /\ exchange' \in ExchangeRows
    BY DEF ExchangeInv, exchangeVars, WorkerStep, WorkerReads, WorkerSeesEnd, WorkerComputes,
           WorkerWrites, WorkerWriteFails, WorkerStrays, WorkerDies
<1>2. At("idle") \/ At("down") \/ Busy
    BY <1>1 DEF ExchangeRows, At, Busy
<1>3. \/ CallPhase' = CallPhase
      \/ CallPhase \in {"ready", "soiled"} /\ CallPhase' = "dead"
      \/ CallPhase = "waiting" /\ CallPhase' = "computing"
      \/ CallPhase = "computing" /\ CallPhase' = "answered"
      \/ CallPhase \in {"waiting", "computing", "answered"} /\ CallPhase' = "spent"
    <2>1. CASE At("down")
        <3>1. At("down")'
            BY <1>1, <2>1 DEF At
        <3>2. QED
            BY <1>1, <2>1, <3>1, PhaseOf, PhaseOfNext
    <2>2. CASE At("idle") /\ ~open
        <3>1. At("idle")' /\ ~open'
            BY <1>1, <2>2 DEF At
        <3>2. QED
            BY <1>1, <2>2, <3>1, PhaseOf, PhaseOfNext
    <2>3. ASSUME open
          PROVE  /\ open'
                 /\ WorkerReads \/ WorkerComputes \/ WorkerStrays \/ WorkerWrites \/ WorkerDies
        BY <1>1, <2>3 DEF WorkerStep, WorkerSeesEnd, WorkerWriteFails
    <2>4. CASE At("idle") /\ open
        BY <2>3, <2>4, IdleWorkerCall
    <2>5. CASE Busy
        <3>1. open
            BY <2>5, BusyFacts
        <3>2. CallPhase \in {"waiting", "computing", "answered", "spent"}
            BY <2>5, BusyPhases
        <3>3. QED
            BY <2>3, <2>5, <3>1, <3>2, BusyWorkerCall
    <2>6. QED
        BY <1>2, <2>1, <2>2, <2>4, <2>5
<1>4. QED
    BY <1>1, <1>3 DEF CallOf!Dies, CallOf!Compute, CallOf!Answer, CallOf!Spend,
                      CallOf!Progress, CallOf!callVars

\* Nothing in a worker bears the id of a request that was not made yet.
LEMMA OlderFirst ==
    ASSUME NEW s \in Seq(Bytes), s # <<>>, NEW n \in Nat, UpTo(s, n)
    PROVE  s[1].of.correlation # n + 1
<1>1. 1 \in DOMAIN s
    BY EmptySeq, LenProperties
<1>2. s[1].of.correlation <= n
    BY <1>1 DEF UpTo
<1>3. QED
    BY <1>2

\* execute is called on a worker that runs: only one that is ready will answer.
LEMMA BeginCall ==
    ASSUME ExchangeInv, ExchangeInv', Begin
    PROVE  CallOf!Call
<1>1. /\ exchange \in ExchangeRows /\ exchange' \in ExchangeRows /\ requests \in Nat
      /\ At("idle") /\ open /\ Running /\ demand # "stopped" /\ demand' = "none"
      /\ requests' = requests + 1 /\ UNCHANGED <<worker, stdin, stdout, open, buffer>>
    BY DEF ExchangeInv, Begin, workerVars
<1>2. exchange'.pc = "write" /\ exchange'.outcome = "none"
    BY DEF Begin, Idle
<1>3. Busy' /\ Stream' = Stream /\ Input' = Input
    BY <1>1, <1>2 DEF Busy, Stream, Input
<1>4. PipesTypeOK /\ KnownIds
    BY <1>1 DEF ExchangeInv, OpenInv
<1>5. CallPhase = IF Untouched /\ Stream = <<>> THEN "ready" ELSE "soiled"
    BY <1>1, PhaseOf
<1>6. CASE Untouched /\ Stream = <<>>
    <2>1. worker.pc = "reading" /\ Input = <<>>
        BY <1>1, <1>4, <1>6, SilentWorker DEF Untouched, Running, PipesTypeOK
    <2>2. CallPhase' = "waiting"
        BY <1>1, <1>3, <1>6, <2>1, PhaseOfNext
    <2>3. QED
        BY <1>1, <1>2, <1>5, <1>6, <2>2 DEF CallOf!Call
<1>7. CASE ~(Untouched /\ Stream = <<>>)
    <2>1. CallPhase' = "spent"
        <3>1. CASE Stream # <<>>
            <4>1. Stream \in Seq(Bytes) /\ UpTo(Stream, requests)
                BY <1>4, StreamFacts DEF KnownIds
            <4>2. Stream[1].of.correlation # requests'
                BY <1>1, <3>1, <4>1, OlderFirst
            <4>3. QED
                BY <1>1, <1>3, <3>1, <4>2, PhaseOfNext
        <3>2. CASE Stream = <<>> /\ worker.pc = "computing"
            <4>1. HeaderOf(worker.got).correlation <= requests
                BY <1>4, <3>2 DEF KnownIds
            <4>2. HeaderOf(worker.got).correlation # requests'
                BY <1>1, <4>1
            <4>3. QED
                BY <1>1, <1>3, <3>2, <4>2, PhaseOfNext
        <3>3. CASE Stream = <<>> /\ worker.pc = "reading"
            <4>1. Input \in Seq(Bytes) /\ UpTo(Input, requests) /\ Input # <<>>
                BY <1>4, <1>7, <3>3, InputFacts DEF KnownIds, Untouched
            <4>2. Input[1].of.correlation # requests'
                BY <1>1, <4>1, OlderFirst
            <4>3. QED
                BY <1>1, <1>3, <3>3, <4>1, <4>2, PhaseOfNext
        <3>4. QED
            BY <1>1, <1>4, <3>1, <3>2, <3>3, SilentWorker DEF PipesTypeOK, Running
    <2>2. QED
        BY <1>1, <1>2, <1>5, <1>7, <2>1 DEF CallOf!Call
<1>8. QED
    BY <1>6, <1>7

\* The pool makes a new worker; execute finds it dead; the Kernel dies; a condition
\* changes.
LEMMA OuterCalls ==
    ASSUME ExchangeInv, ExchangeInv', Spawn \/ BeginFindsDead \/ KernelDies \/ Demand
    PROVE  CallOf!NewWorker \/ CallOf!CallDead \/ CallOf!KernelDies \/ CallOf!Demand
<1>1. exchange \in ExchangeRows /\ exchange' \in ExchangeRows /\ requests \in Nat
    BY DEF ExchangeInv
<1>2. CASE Spawn
    <2>1. /\ At("idle") /\ ~open /\ open' /\ worker' = Fresh /\ buffer' = <<>>
          /\ UNCHANGED <<stdin, stdout, exchange, demand, requests>> /\ demand # "stopped"
        BY <1>2 DEF Spawn
    <2>2. stdin = <<>> /\ stdout = <<>>
        BY <2>1 DEF ExchangeInv, ClosedInv, At
    <2>3. At("idle")' /\ Running'
        BY <2>1 DEF At, Running, Fresh
    <2>4. Untouched' /\ Stream' = <<>>
        BY <2>1, <2>2, EmptyFacts DEF Untouched, Input, Stream, Fresh
    <2>5. CallPhase = "none" /\ CallPhase' = "ready"
        BY <1>1, <2>1, <2>3, <2>4, PhaseOf, PhaseOfNext
    <2>6. QED
        BY <2>1, <2>5 DEF CallOf!NewWorker, CallOf!Progress
<1>3. CASE BeginFindsDead
    <2>1. /\ At("idle") /\ open /\ ~Running /\ demand # "stopped" /\ demand' = demand
          /\ requests' = requests + 1 /\ open' = FALSE
        BY <1>3 DEF BeginFindsDead, Close
    <2>2. exchange'.pc = "idle" /\ exchange'.outcome = "crashed"
        BY <1>3 DEF BeginFindsDead, Idle
    <2>3. CallPhase = "dead" /\ CallPhase' = "none"
        BY <1>1, <2>1, <2>2, PhaseOf, PhaseOfNext DEF At
    <2>4. QED
        BY <2>1, <2>2, <2>3 DEF CallOf!CallDead
<1>4. CASE KernelDies
    <2>1. ~At("down") /\ open' = FALSE /\ UNCHANGED <<demand, requests>>
        BY <1>4 DEF KernelDies
    <2>2. exchange'.pc = "down" /\ exchange'.outcome = "none"
        BY <1>4 DEF KernelDies, Idle
    <2>3. CallPhase # "down"
        <3>1. At("idle") \/ Busy
            BY <1>1, <2>1 DEF ExchangeRows, At, Busy
        <3>2. QED
            BY <1>1, <3>1, PhaseOf, BusyPhases
    <2>4. CallPhase' = "down"
        BY <1>1, <2>2, PhaseOfNext DEF At
    <2>5. QED
        BY <2>1, <2>2, <2>3, <2>4 DEF CallOf!KernelDies
<1>5. CASE Demand
    <2>1. /\ demand = "none" /\ demand' \in {"stopped", "cancelled", "timed_out"} /\ Busy
          /\ UNCHANGED <<worker, stdin, stdout, open, exchange, buffer, requests>>
        BY <1>5 DEF Demand, workerVars, Busy
    <2>2. Stream' = Stream /\ Input' = Input /\ (Busy' <=> Busy)
        BY <2>1 DEF Stream, Input, Busy
    <2>3. CallPhase' = CallPhase
        BY <2>1, <2>2, PhaseKept
    <2>4. CallPhase \in {"waiting", "computing", "answered", "spent"}
        BY <2>1, BusyPhases
    <2>5. QED
        BY <2>1, <2>3, <2>4 DEF CallOf!Demand, CallOf!InCall, CallOf!Demands
<1>6. QED
    BY <1>2, <1>3, <1>4, <1>5

\* execute reads a last time only because the attempt is cancelled or timed out.
LastDemanded == At("last") => demand \in {"cancelled", "timed_out"}

LEMMA LastDemandedNext ==
    ASSUME ExchangeInv, LastDemanded, [Next]_vars
    PROVE  LastDemanded'
<1> SUFFICES ASSUME exchange'.pc = "last" PROVE demand' \in {"cancelled", "timed_out"}
    BY DEF LastDemanded, At
<1>1. exchange \in ExchangeRows
    BY DEF ExchangeInv
<1>2. ASSUME exchange'.pc = exchange.pc, demand' = demand
      PROVE  demand' \in {"cancelled", "timed_out"}
    BY <1>2 DEF LastDemanded, At
<1>3. \A o : ~GiveUp(o)
    BY <1>1 DEF GiveUp, Returns, ExchangeRows
<1>4. CASE Spawn \/ UNCHANGED vars \/ UNCHANGED exchangeVars
    BY <1>2, <1>4 DEF Spawn, vars, exchangeVars
<1>5. CASE Begin \/ BeginFindsDead \/ KernelDies
    BY <1>5 DEF Begin, BeginFindsDead, KernelDies, Idle
<1>6. CASE Demand
    BY <1>6 DEF Demand
<1>7. CASE KernelStep
    <2>1. CASE WriteSome
        BY <2>1, WriteSomeKeeps
    <2>2. CASE ReadChunk
        BY <1>2, <1>3, <2>2, ReadChunkKeeps
    <2>3. CASE CheckLast
        BY <2>3 DEF CheckLast
    <2>4. CASE ReadAnswer \/ ReadNothing
        BY <1>1, <2>4 DEF ReadAnswer, ReadNothing, ExchangeRows
    <2>5. CASE CheckAgain
        BY <1>1, <1>3, <2>5 DEF CheckAgain, ExchangeRows
    <2>6. CASE \/ WriteFindsDead \/ WriteInterrupted \/ ReadEnd \/ ReadInvalid \/ ReadForeign
               \/ CheckStopped \/ LastInterrupted
        BY <1>3, <2>6 DEF WriteFindsDead, WriteInterrupted, ReadEnd, ReadInvalid, ReadForeign,
                          CheckStopped, LastInterrupted
    <2>7. QED
        BY <1>7, <2>1, <2>2, <2>3, <2>4, <2>5, <2>6 DEF KernelStep
<1>8. CASE CancellationThrows
    BY <1>1, <1>8 DEF CancellationThrows, Returns, ExchangeRows
<1>9. QED
    BY <1>4, <1>5, <1>6, <1>7, <1>8 DEF Next

LEMMA GiveUpCalls ==
    ASSUME ExchangeInv, ExchangeInv', LastDemanded,
           \/ WriteFindsDead \/ WriteInterrupted \/ ReadEnd \/ ReadInvalid \/ ReadForeign
           \/ CheckStopped \/ (CheckAgain /\ ~Running) \/ LastInterrupted
    PROVE  CallOf!ReturnWithout
<1>1. Busy
    BY DEF WriteFindsDead, WriteInterrupted, ReadEnd, ReadInvalid, ReadForeign, CheckStopped,
           CheckAgain, LastInterrupted, ReadDone, Reading, At, Busy
<1>2. CASE \/ WriteFindsDead \/ ReadEnd \/ ReadInvalid \/ ReadForeign
           \/ (CheckAgain /\ ~Running)
    <2>1. GiveUp("crashed") \/ GiveUp("failed")
        BY <1>2 DEF WriteFindsDead, ReadEnd, ReadInvalid, ReadForeign, CheckAgain
    <2>2. QED
        BY <1>1, <2>1, GiveUpReturns
<1>3. CASE WriteInterrupted \/ CheckStopped \/ LastInterrupted
    <2>1. GiveUp(demand) /\ demand # "none"
        BY <1>3 DEF WriteInterrupted, CheckStopped, LastInterrupted, LastDemanded
    <2>2. QED
        BY <1>1, <2>1, GiveUpReturns
<1>4. QED
    BY <1>2, <1>3

LEMMA CallStep ==
    ASSUME ExchangeInv, ExchangeInv', LastDemanded, [Next]_vars
    PROVE  [CallOf!Next]_(CallOf!callVars)
<1>1. CASE Spawn \/ BeginFindsDead \/ KernelDies \/ Demand
    BY <1>1, OuterCalls DEF CallOf!Next
<1>2. CASE (WorkerStep \/ WorkerStrays \/ WorkerDies) /\ UNCHANGED exchangeVars
    BY <1>2, WorkerCalls DEF CallOf!Next
<1>3. CASE KernelStep
    <2>1. CASE WriteSome
        BY <2>1, WriteSomeCall
    <2>2. CASE ReadChunk
        BY <2>2, ReadChunkCall DEF CallOf!Next
    <2>3. CASE ReadAnswer
        BY <2>3, ReadAnswerCall DEF CallOf!Next
    <2>4. CASE ReadNothing \/ CheckLast \/ (CheckAgain /\ Running)
        BY <2>4, MoveCall
    <2>5. CASE \/ WriteFindsDead \/ WriteInterrupted \/ ReadEnd \/ ReadInvalid \/ ReadForeign
               \/ CheckStopped \/ (CheckAgain /\ ~Running) \/ LastInterrupted
        BY <2>5, GiveUpCalls DEF CallOf!Next
    <2>6. QED
        BY <1>3, <2>1, <2>2, <2>3, <2>4, <2>5 DEF KernelStep
<1>4. CASE UNCHANGED vars
    <2>1. UNCHANGED <<worker, stdin, stdout, open, exchange, buffer, demand, requests>>
        BY <1>4 DEF vars, workerVars, exchangeVars
    <2>2. Stream' = Stream /\ Input' = Input /\ (Busy' <=> Busy)
        BY <2>1 DEF Stream, Input, Busy
    <2>3. CallPhase' = CallPhase
        BY <2>1, <2>2, PhaseKept
    <2>4. QED
        BY <2>1, <2>3 DEF CallOf!callVars
<1>5. CASE Begin \/ CancellationThrows
    BY <1>5, BeginCall, ThrowCall DEF CallOf!Next
<1>6. QED
    BY <1>1, <1>2, <1>3, <1>4, <1>5 DEF Next

(***************************************************************************)
(* execute keeps the promises of WorkerCall: over every way the pipes cut  *)
(* requests and answers, with a worker that dies, stalls or sends strays   *)
(* at any moment and a cancellation_requested that throws at any of its    *)
(* calls, only the answer to the computation on its own request makes an   *)
(* attempt succeed, a call that returns without one ends the worker, and a *)
(* worker that an exception or a stray has left soiled answers no later    *)
(* call.                                                                   *)
(***************************************************************************)
THEOREM CallRefinement == Spec => ImplementsCall
<1>1. Init => CallOf!Init /\ LastDemanded
    <2> SUFFICES ASSUME Init PROVE CallOf!Init /\ LastDemanded
        OBVIOUS
    <2>1. exchange = Idle /\ exchange \in ExchangeRows
        BY InitExchange DEF Init, ExchangeInv
    <2>2. exchange.pc = "idle" /\ exchange.outcome = "none"
        BY <2>1 DEF Idle
    <2>3. At("idle") /\ Running /\ open
        BY <2>2 DEF Init, At, Running, Fresh
    <2>4. Untouched /\ Stream = <<>>
        BY FreshFacts DEF Init, Untouched, Input, Stream, Fresh
    <2>5. CallPhase = "ready"
        BY <2>1, <2>3, <2>4, PhaseOf
    <2>6. QED
        BY <2>2, <2>5 DEF Init, CallOf!Init, LastDemanded, At
<1>2. ExchangeInv /\ LastDemanded /\ [Next]_vars => LastDemanded'
    BY LastDemandedNext
<1>3. ExchangeInv /\ ExchangeInv' /\ LastDemanded /\ [Next]_vars
        => [CallOf!Next]_(CallOf!callVars)
    BY CallStep
<1>4. QED
    BY <1>1, <1>2, <1>3, ExchangeSafety, PTL DEF Spec, ImplementsCall, CallOf!Spec
=============================================================================
