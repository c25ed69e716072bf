----------------------------- MODULE CallsProofs -----------------------------
(* Proofs about Calls, for inputs of any size: what the host encodes is read *)
(* back, each proper prefix of it is refused or asks for more, and the pass  *)
(* over the change indices is the step by step skip of SignTx.               *)
EXTENDS Calls, ParsersProofs, WellFoundedInduction

-----------------------------------------------------------------------------
(* Induction over a set of numbers, and definitions by recursion.           *)

Less == {e \in Nat \X Nat : e[1] < e[2]}

\* Less is the order of the numbers, as a relation.
LEMMA LessWellFounded == IsWellFoundedOn(Less, Nat)
<1>1. OpToRel(<, Nat) = Less
  BY DEF OpToRel, Less
<1> QED BY <1>1, NatLessThanWellFounded

\* A set that holds 0, and the successor of each of its members below n, holds
\* everything up to n.
LEMMA Induction ==
  ASSUME NEW n \in Nat, NEW T, 0 \in T, \A i \in 0..(n - 1) : i \in T => i + 1 \in T
  PROVE  \A i \in 0..n : i \in T
<1> DEFINE U == {i \in 0..n : i \notin T}
<1>1. SUFFICES ASSUME U # {} PROVE FALSE
  OBVIOUS
<1>2. PICK m \in U : \A k \in U : ~(<<k, m>> \in Less)
  <2>1. U \subseteq Nat
    OBVIOUS
  <2> HIDE DEF U
  <2> QED BY <1>1, <2>1, LessWellFounded, WFMin, Zenon
<1> DEFINE k == m - 1
<1>3. m \in 0..n /\ m # 0 /\ m \notin T
  OBVIOUS
<1>4. k \in 0..(n - 1) /\ k \in Nat /\ m \in Nat /\ k < m /\ k + 1 = m
  BY <1>3
<1> HIDE DEF k
<1>5. <<k, m>> \in Less
  BY <1>4 DEF Less
<1>6. k \in T
  BY <1>2, <1>4, <1>5
<1> QED BY <1>3, <1>4, <1>6

\* The same from 1 upwards, and downwards.
LEMMA Descent ==
  ASSUME NEW n \in Nat, NEW T, n \in T, \A i \in 0..(n - 1) : i + 1 \in T => i \in T
  PROVE  \A i \in 0..n : i \in T
<1> DEFINE U == {i \in 0..n : n - i \in T}
<1>1. 0 \in U
  OBVIOUS
<1>2. ASSUME NEW i \in 0..(n - 1), i \in U
      PROVE  i + 1 \in U
  <2> DEFINE k == n - (i + 1)
  <2>1. k \in 0..(n - 1) /\ k + 1 = n - i
    OBVIOUS
  <2>2. k + 1 \in T
    BY <1>2, <2>1
  <2>3. k \in T
    BY <2>1, <2>2
  <2> QED BY <2>3
<1>3. \A i \in 0..n : i \in U
  <2> HIDE DEF U
  <2> QED BY <1>1, <1>2, Induction
<1>4. ASSUME NEW i \in 0..n
      PROVE  i \in T
  <2>1. n - i \in 0..n /\ n - (n - i) = i
    OBVIOUS
  <2>2. n - i \in U
    BY <1>3, <2>1
  <2> QED BY <2>1, <2>2
<1> QED BY <1>4

\* A function that is defined by recursion from 0 to n exists, and has its type.
IsStep(Step, n, Type) == Step \in [(1..n) \X Type -> Type]
Recursive(f, n, Type, base, Step) ==
  f \in [0..n -> Type] /\ f[0] = base /\ \A i \in 1..n : f[i] = Step[<<i, f[i - 1]>>]

\* There is such a function for every step that keeps to the type.
LEMMA Recursion ==
  ASSUME NEW n \in Nat, NEW Type, NEW base, base \in Type, NEW Step, IsStep(Step, n, Type)
  PROVE  \E f : Recursive(f, n, Type, base, Step)
<1> USE DEF IsStep, Recursive
<1> DEFINE Upto(k, f) == f[0] = base /\ \A i \in 1..k : f[i] = Step[<<i, f[i - 1]>>]
           T == {k \in 0..n : \E f \in [0..k -> Type] : Upto(k, f)}
<1>1. 0 \in T
  <2> DEFINE f == [i \in 0..0 |-> base]
  <2>1. f \in [0..0 -> Type] /\ f[0] = base /\ 0 \in 0..n
    OBVIOUS
  <2>2. 1..0 = {}
    OBVIOUS
  <2>3. Upto(0, f)
    BY <2>1, <2>2
  <2> HIDE DEF f
  <2> QED BY <2>1, <2>3
<1>2. ASSUME NEW k \in 0..(n - 1), k \in T
      PROVE  k + 1 \in T
  <2>1. PICK f \in [0..k -> Type] : Upto(k, f)
    BY <1>2
  <2> DEFINE m == k + 1
             next == Step[<<m, f[k]>>]
             g == [i \in 0..m |-> IF i = m THEN next ELSE f[i]]
  <2>2. m \in 1..n /\ k \in 0..k /\ k = m - 1 /\ 0..k = (0..m) \ {m} /\ m # 0
    OBVIOUS
  <2>3. f[k] \in Type /\ next \in Type
    BY <2>1, <2>2
  <2> HIDE DEF next
  <2>4. g \in [0..m -> Type]
    BY <2>1, <2>2, <2>3
  <2>5. ASSUME NEW i \in 1..m
        PROVE  g[i] = Step[<<i, g[i - 1]>>]
    <3>1. CASE i = m
      <4>1. i - 1 \in 0..m /\ i - 1 # m /\ g[i - 1] = f[k] /\ g[i] = next
        BY <2>2, <3>1
      <4> QED BY <2>2, <3>1, <4>1 DEF next
    <3>2. CASE i # m
      <4>1. i \in 1..k /\ i - 1 \in 0..k /\ i - 1 # m /\ i \in 0..m /\ i - 1 \in 0..m
        BY <2>2, <3>2
      <4>2. g[i] = f[i] /\ g[i - 1] = f[i - 1]
        BY <3>2, <4>1
      <4>3. f[i] = Step[<<i, f[i - 1]>>]
        BY <2>1, <4>1
      <4> QED BY <4>2, <4>3
    <3> QED BY <3>1, <3>2
  <2>6. Upto(m, g)
    <3>1. 0 \in 0..m /\ 0 # m /\ g[0] = f[0] /\ f[0] = base
      BY <2>1, <2>2
    <3> HIDE DEF g
    <3> QED BY <2>5, <3>1
  <2>7. m \in 0..n
    OBVIOUS
  <2> QED BY <2>4, <2>6, <2>7
<1>3. n \in T
  <2> HIDE DEF T
  <2> QED BY <1>1, <1>2, Induction
<1> QED BY <1>3

-----------------------------------------------------------------------------
(* The input of a call is one of those given.                               *)

Called ==
  /\ input.kind = "buffer" =>
       input.buf \in Cursors /\ input.n \in Distances /\ input.out_len \in Distances
  /\ input.kind = "change" => input.change \in ChangeLists /\ input.rest \in Rests
  /\ input.kind = "output" => input.output \in Outputs
  /\ input.kind = "token" => input.token \in TokenData
  /\ input.kind = "skip" => input.review \in Reviews /\ input.change \in IndexLists

\* A call is made with an input of the constants.
LEMMA InputCalled == Spec => []Called
<1>1. Init => Called
  BY DEF Init, NoInput, Called
<1>2. Called /\ [Next]_input => Called'
  <2>1. SUFFICES ASSUME Called, Next PROVE Called'
    BY DEF Called
  <2>2. CASE CallBuffer
    BY <2>2 DEF CallBuffer, Called
  <2>3. CASE CallChange
    BY <2>3 DEF CallChange, Called
  <2>4. CASE CallOutput
    BY <2>4 DEF CallOutput, Called
  <2>5. CASE CallToken
    BY <2>5 DEF CallToken, Called
  <2>6. CASE CallAmount
    BY <2>6 DEF CallAmount, Called
  <2>7. CASE CallPath
    BY <2>7 DEF CallPath, Called
  <2>8. CASE CallAddress
    BY <2>8 DEF CallAddress, Called
  <2>9. CASE CallSkip
    BY <2>9 DEF CallSkip, Called
  <2>10. CASE Return
    BY <2>10 DEF Return, NoInput, Called
  <2> QED BY <2>1, <2>2, <2>3, <2>4, <2>5, <2>6, <2>7, <2>8, <2>9, <2>10 DEF Next, Call
<1> QED BY <1>1, <1>2, PTL DEF Spec

\* The cursor stays within every buffer, whatever is asked of it
\* (buffer.c:7-161).
THEOREM CursorStaysHolds == Spec => []CursorStays
<1>1. Called => CursorStays
  <2>1. SUFFICES ASSUME Called, input.kind = "buffer"
                 PROVE  CursorKept(input.buf, input.out_len, input.n)
    BY DEF CursorStays
  <2>2. input.buf \in Buffer /\ input.n \in Sizes /\ input.out_len \in Sizes
    BY <2>1, CursorsAssumption DEF Called
  <2> QED BY <2>2, CursorStaysEverywhere
<1> QED BY <1>1, InputCalled, PTL

-----------------------------------------------------------------------------
(* Reading forward what the bytes begin with.                               *)

\* Two ways to cut the same bytes at the same place are one.
LEMMA SameCut ==
  ASSUME NEW v \in Seq(Byte), NEW w \in Seq(Byte), NEW x \in Seq(Byte), NEW y \in Seq(Byte),
         v \o w = x \o y, Len(v) = Len(x)
  PROVE  v = x /\ w = y
<1> DEFINE n == Len(v)
           s == v \o w
<1>1. n \in Nat /\ Len(x) = n /\ Len(w) \in Nat /\ s = x \o y
  BY LenProperties
<1>2. \A i \in 1..(n + Len(w)) : s[i] = IF i <= n THEN v[i] ELSE w[i - n]
  BY ConcatProperties
<1>3. \A i \in 1..(n + Len(y)) : s[i] = IF i <= n THEN x[i] ELSE y[i - n]
  BY <1>1, ConcatProperties
<1>4. Len(s) = n + Len(w)
  BY ConcatProperties
<1>5. Len(s) = n + Len(y)
  BY <1>1, ConcatProperties
<1> HIDE DEF n, s
<1> DEFINE l == Len(w)
<1>6. Len(y) = l /\ l \in Nat
  <2>1. Len(y) \in Nat
    BY LenProperties
  <2> QED BY <1>1, <1>4, <1>5, <2>1
<1>7. Len(v) = n
  BY DEF n
<1> HIDE DEF l
<1>8. \A i \in 1..n : v[i] = x[i]
  BY <1>1, <1>2, <1>3, <1>6 DEF l
<1>9. ASSUME NEW i \in 1..l
      PROVE  w[i] = y[i]
  <2> DEFINE j == i + n
  <2>1. j \in 1..(n + l) /\ ~(j <= n) /\ j - n = i
    BY <1>1, <1>6
  <2> HIDE DEF j
  <2>2. s[j] = w[j - n] /\ s[j] = y[j - n]
    BY <1>2, <1>3, <1>6, <2>1 DEF l
  <2> QED BY <2>1, <2>2
<1>10. v = x
  BY <1>1, <1>7, <1>8, SeqEqual
<1>11. w = y
  BY <1>6, <1>9, SeqEqual DEF l
<1> QED BY <1>10, <1>11

\* What is left of a buffer is as long as the cursor says.
LEMMA LeftLen ==
  ASSUME NEW b \in Buffer
  PROVE  LeftBytes(b) \in Seq(Byte) /\ Len(LeftBytes(b)) = Left(b) /\ Left(b) \in Nat
<1> DEFINE m == b.offset + 1
           n == Size(b)
<1>1. /\ b.ptr \in Seq(Byte) /\ n = Len(b.ptr) /\ b.offset \in 0..n /\ n \in Nat
      /\ Left(b) = n - b.offset
  BY BufferFields DEF Sizes
<1>2. \A i \in m..n : b.ptr[i] \in Byte
  BY <1>1, ElementOfSeq
<1>3. m \in Int /\ n \in Int /\ (m <= n => n - m + 1 = Left(b)) /\ (~(m <= n) => Left(b) = 0)
  BY <1>1
<1> HIDE DEF m, n
<1>4. Len(SubSeq(b.ptr, m, n)) = IF m <= n THEN n - m + 1 ELSE 0
  BY <1>2, <1>3, SubSeqProperties
<1>5. Len(LeftBytes(b)) = Left(b)
  BY <1>3, <1>4 DEF LeftBytes, m, n
<1>6. Left(b) \in Nat
  BY <1>1
<1> QED BY <1>5, <1>6, LeftBytesType

\* What is left of a buffer, in one piece and in two.
At(b, s) == b \in Buffer /\ s \in Seq(Byte) /\ LeftBytes(b) = s
Ahead(b, v, w) == v \in Seq(Byte) /\ w \in Seq(Byte) /\ At(b, v \o w)

\* A read of as many bytes as a string has, when it is next.
LEMMA TakeForward ==
  ASSUME NEW b, NEW n, NEW v, NEW w, Ahead(b, v, w), Len(v) = n
  PROVE  Take(b, n).ok /\ Take(b, n).value = v /\ At(Take(b, n).buf, w)
<1> DEFINE r == Take(b, n)
<1>0. b \in Buffer /\ v \in Seq(Byte) /\ w \in Seq(Byte) /\ LeftBytes(b) = v \o w
  BY DEF Ahead, At
<1>1. n \in Nat /\ n <= Left(b)
  <2>1. n \in Nat /\ Len(w) \in Nat /\ Len(v \o w) = n + Len(w)
    BY <1>0, ConcatProperties, LenProperties
  <2> QED BY <1>0, <2>1, LeftLen
<1>2. Reads(b, r, n)
  BY <1>0, <1>1, TakeReads
<1>3. /\ r.ok /\ r.buf \in Buffer /\ r.value \in Seq(Byte) /\ Len(r.value) = n
      /\ v \o w = r.value \o LeftBytes(r.buf)
  BY <1>0, <1>2 DEF Reads
<1> HIDE DEF r
<1>4. LeftBytes(r.buf) \in Seq(Byte)
  BY <1>3, LeftBytesType
<1>5. r.value = v /\ LeftBytes(r.buf) = w
  BY <1>0, <1>3, <1>4, SameCut
<1> QED BY <1>0, <1>3, <1>5 DEF r, At

\* One byte.
LEMMA U8Forward ==
  ASSUME NEW b, NEW n \in Byte, NEW w, Ahead(b, <<n>>, w)
  PROVE  U8(b).ok /\ U8(b).value = <<n>> /\ U8(b).value[1] = n /\ At(U8(b).buf, w)
<1> DEFINE v == <<n>>
<1>1. v[1] = n /\ Len(v) = 1 /\ Ahead(b, v, w)
  OBVIOUS
<1>2. U8(b) = Take(b, 1)
  BY DEF U8, ReadInt
<1> HIDE DEF v
<1>3. Take(b, 1).ok /\ Take(b, 1).value = v /\ At(Take(b, 1).buf, w)
  BY <1>1, TakeForward
<1> QED BY <1>1, <1>2, <1>3 DEF v

\* A text with its length in front, if it is not too long.
LEMMA TextForward ==
  ASSUME NEW b, NEW s \in Seq(Byte), NEW w \in Seq(Byte), NEW max \in Nat,
         Len(s) \in Byte, At(b, <<Len(s)>> \o (s \o w))
  PROVE  /\ Text(b, max).ok <=> Len(s) <= max
         /\ Text(b, max).ok => Text(b, max).value = s /\ At(Text(b, max).buf, w)
<1> DEFINE n == Len(s)
           u == U8(b)
           t == Take(u.buf, n)
           r == Text(b, max)
<1>1. n \in Byte /\ n \in Nat /\ s \o w \in Seq(Byte) /\ <<n>> \in Seq(Byte)
  BY ConcatProperties, LenProperties
<1>2. Ahead(b, <<n>>, s \o w)
  BY <1>1 DEF Ahead
<1>3. u.ok /\ u.value[1] = n /\ At(u.buf, s \o w)
  BY <1>1, <1>2, U8Forward
<1>4. Ahead(u.buf, s, w)
  BY <1>3 DEF Ahead
<1>5. r = IF n > max THEN Fails(u.buf) ELSE t
  BY <1>3 DEF Text, buffer_read_bytes
<1> HIDE DEF u, r
<1>6. t.ok /\ t.value = s /\ At(t.buf, w)
  BY <1>4, TakeForward
<1>7. ~Fails(u.buf).ok
  BY DEF Fails
<1> HIDE DEF n, t
<1>8. (n > max) = ~(n <= max)
  BY <1>1
<1> QED BY <1>5, <1>6, <1>7, <1>8 DEF n, r

-----------------------------------------------------------------------------
(* Tokens.                                                                  *)

\* A token as a host can send it.
TokenFields(t) ==
  /\ t.version \in Byte /\ t.uid \in Seq(Byte) /\ t.symbol \in Seq(Byte) /\ t.name \in Seq(Byte)
  /\ Len(t.uid) = TOKEN_UID_LEN /\ Len(t.symbol) \in Byte /\ Len(t.name) \in Byte
  /\ t = [version |-> t.version, uid |-> t.uid, symbol |-> t.symbol, name |-> t.name]

Shown(t) == /\ Len(t.symbol) <= MAX_TOKEN_SYMBOL_LEN /\ Len(t.name) <= MAX_TOKEN_NAME_LEN
            /\ Printable(t.symbol) /\ Printable(t.name)

\* The encoding of a token is bytes, field after field.
LEMMA TokenFieldsAhead ==
  ASSUME NEW t, TokenFields(t), NEW w \in Seq(Byte)
  PROVE  /\ EncodeToken(t) \in Seq(Byte)
         /\ EncodeToken(t) \o w = <<t.version>> \o (t.uid \o (<<Len(t.symbol)>> \o (t.symbol \o
                                    (<<Len(t.name)>> \o (t.name \o w)))))
         /\ t.name \o w \in Seq(Byte)
         /\ <<Len(t.name)>> \o (t.name \o w) \in Seq(Byte)
         /\ t.symbol \o (<<Len(t.name)>> \o (t.name \o w)) \in Seq(Byte)
         /\ <<Len(t.symbol)>> \o (t.symbol \o (<<Len(t.name)>> \o (t.name \o w))) \in Seq(Byte)
         /\ t.uid \o (<<Len(t.symbol)>> \o (t.symbol \o (<<Len(t.name)>> \o (t.name \o w)))) \in Seq(Byte)
<1> DEFINE Strings == Seq(Byte)
           Cat(s, u) == s \o u
           s1 == <<t.version>>
           s2 == t.uid
           s3 == <<Len(t.symbol)>>
           s4 == t.symbol
           s5 == <<Len(t.name)>>
           s6 == t.name
<1>1. \A u1, u2, u3, u4, u5, u6, u :
        (/\ u1 \in Strings /\ u2 \in Strings /\ u3 \in Strings
         /\ u4 \in Strings /\ u5 \in Strings /\ u6 \in Strings /\ u \in Strings)
        => Cat(u1, Cat(u2, Cat(u3, Cat(u4, Cat(u5, Cat(u6, u))))))
             = Cat(Cat(u1, Cat(u2, Cat(u3, Cat(u4, Cat(u5, u6))))), u)
  BY ConcatSix, Zenon
<1>2. \A s, u : s \in Strings /\ u \in Strings => Cat(s, u) \in Strings
  BY ConcatThree, Zenon
<1>3. /\ s1 \in Strings /\ s2 \in Strings /\ s3 \in Strings
      /\ s4 \in Strings /\ s5 \in Strings /\ s6 \in Strings /\ w \in Strings
  BY DEF TokenFields
<1>4. EncodeToken(t) = Cat(s1, Cat(s2, Cat(s3, Cat(s4, Cat(s5, s6)))))
  BY DEF EncodeToken
<1> HIDE DEF Strings, Cat, s1, s2, s3, s4, s5, s6
<1>5. Cat(EncodeToken(t), w) = Cat(s1, Cat(s2, Cat(s3, Cat(s4, Cat(s5, Cat(s6, w))))))
  BY <1>1, <1>3, <1>4
<1>6. EncodeToken(t) \in Strings
  BY <1>2, <1>3, <1>4
<1>7. /\ Cat(s6, w) \in Strings /\ Cat(s5, Cat(s6, w)) \in Strings
      /\ Cat(s4, Cat(s5, Cat(s6, w))) \in Strings
      /\ Cat(s3, Cat(s4, Cat(s5, Cat(s6, w)))) \in Strings
      /\ Cat(s2, Cat(s3, Cat(s4, Cat(s5, Cat(s6, w))))) \in Strings
  BY <1>2, <1>3
<1> QED BY <1>5, <1>6, <1>7, Zenon DEF Strings, Cat, s1, s2, s3, s4, s5, s6

\* What the host encodes of a token is read back, if it fits the fields and can
\* be shown, and refused otherwise; the cursor is right behind it.
LEMMA TokenForward ==
  ASSUME NEW t, TokenFields(t), NEW b, NEW w \in Seq(Byte), At(b, EncodeToken(t) \o w)
  PROVE  /\ parse_token(b).ok <=> Shown(t)
         /\ parse_token(b).ok => parse_token(b).token = t /\ At(parse_token(b).buf, w)
<1> DEFINE version == U8(b)
           uid == buffer_read_bytes(version.buf, TOKEN_UID_LEN, TOKEN_UID_LEN)
           symbol == Text(uid.buf, MAX_TOKEN_SYMBOL_LEN)
           name == Text(symbol.buf, MAX_TOKEN_NAME_LEN)
           ok == version.ok /\ uid.ok /\ symbol.ok /\ name.ok
           v == version.value[1]
           p == Printable(symbol.value) /\ Printable(name.value)
           token == IF ok THEN [version |-> v, uid |-> uid.value,
                                symbol |-> symbol.value, name |-> name.value]
                    ELSE [version |-> 0, uid |-> <<>>, symbol |-> <<>>, name |-> <<>>]
           r == parse_token(b)
           w6 == t.name \o w
           w5 == <<Len(t.name)>> \o w6
           w4 == t.symbol \o w5
           w3 == <<Len(t.symbol)>> \o w4
           w2 == t.uid \o w3
<1>1. /\ EncodeToken(t) \o w = <<t.version>> \o w2
      /\ w6 \in Seq(Byte) /\ w5 \in Seq(Byte) /\ w4 \in Seq(Byte) /\ w3 \in Seq(Byte) /\ w2 \in Seq(Byte)
  BY TokenFieldsAhead
<1>2. /\ t.version \in Byte /\ t.uid \in Seq(Byte) /\ t.symbol \in Seq(Byte) /\ t.name \in Seq(Byte)
      /\ Len(t.uid) = TOKEN_UID_LEN /\ Len(t.symbol) \in Byte /\ Len(t.name) \in Byte
      /\ t = [version |-> t.version, uid |-> t.uid, symbol |-> t.symbol, name |-> t.name]
  BY DEF TokenFields
<1>3. r = [ok |-> ok /\ p, buf |-> name.buf, token |-> token]
  BY DEF parse_token
<1>4. version.ok /\ v = t.version /\ At(version.buf, w2)
  <2> HIDE DEF w2
  <2>1. <<t.version>> \in Seq(Byte)
    BY <1>2
  <2>2. Ahead(b, <<t.version>>, w2)
    BY <1>1, <2>1 DEF Ahead
  <2> QED BY <1>2, <2>2, U8Forward
<1> HIDE DEF version, v
<1>5. uid.ok /\ uid.value = t.uid /\ At(uid.buf, w3)
  <2>1. uid = Take(version.buf, TOKEN_UID_LEN)
    BY DEF buffer_read_bytes, TOKEN_UID_LEN
  <2> HIDE DEF uid, w3
  <2>2. Ahead(version.buf, t.uid, w3)
    BY <1>1, <1>2, <1>4 DEF Ahead
  <2> QED BY <1>2, <2>1, <2>2, TakeForward
<1> HIDE DEF uid
<1>6. /\ symbol.ok <=> Len(t.symbol) <= MAX_TOKEN_SYMBOL_LEN
      /\ symbol.ok => symbol.value = t.symbol /\ At(symbol.buf, w5)
  <2>1. At(uid.buf, <<Len(t.symbol)>> \o (t.symbol \o w5)) /\ MAX_TOKEN_SYMBOL_LEN \in Nat
    BY <1>5 DEF MAX_TOKEN_SYMBOL_LEN
  <2> HIDE DEF w5
  <2> QED BY <1>1, <1>2, <2>1, TextForward
<1> HIDE DEF symbol
<1>7. symbol.ok =>
      /\ name.ok <=> Len(t.name) <= MAX_TOKEN_NAME_LEN
      /\ name.ok => name.value = t.name /\ At(name.buf, w)
  <2>1. symbol.ok => At(symbol.buf, <<Len(t.name)>> \o (t.name \o w)) /\ MAX_TOKEN_NAME_LEN \in Nat
    BY <1>6 DEF MAX_TOKEN_NAME_LEN
  <2> QED BY <1>1, <1>2, <2>1, TextForward
<1> HIDE DEF name, r
<1>8. r.ok = (ok /\ p) /\ r.token = token /\ r.buf = name.buf
  <2> HIDE DEF ok, p, token
  <2> QED BY <1>3
<1>9. ok => /\ symbol.value = t.symbol /\ name.value = t.name /\ At(name.buf, w)
            /\ p = (Printable(t.symbol) /\ Printable(t.name))
  BY <1>6, <1>7
<1>10. ok <=> Len(t.symbol) <= MAX_TOKEN_SYMBOL_LEN /\ Len(t.name) <= MAX_TOKEN_NAME_LEN
  BY <1>4, <1>5, <1>6, <1>7
<1>11. ok => token = t
  <2>1. ok => token = [version |-> v, uid |-> uid.value, symbol |-> symbol.value, name |-> name.value]
    OBVIOUS
  <2> QED BY <1>2, <1>4, <1>5, <1>9, <2>1
<1> HIDE DEF ok, p, token
<1>12. r.ok <=> Shown(t)
  BY <1>8, <1>9, <1>10 DEF Shown
<1>13. r.ok => r.token = t /\ At(r.buf, w)
  BY <1>8, <1>9, <1>11
<1> QED BY <1>12, <1>13 DEF r

\* A buffer of its own for some bytes.
LEMMA FreshAt ==
  ASSUME NEW s \in Seq(Byte), Len(s) < SizeMod
  PROVE  At(Fresh(s), s)
<1>1. <<>> \in Seq(Byte) /\ s \o <<>> = s
  BY ConcatEmptySeq
<1>2. Fresh(s) \in Buffer
  BY <1>1, FreshType
<1>3. LeftBytes(Fresh(s)) = SubSeq(s, 0 + 1, Len(s))
  BY DEF LeftBytes, Fresh, Size
<1>4. SubSeq(s, 1, Len(s)) = s
  BY SubSeqFull
<1> QED BY <1>2, <1>3, <1>4 DEF At

\* A proper prefix, and what it lacks.
LEMMA Prefix ==
  ASSUME NEW s \in Seq(Byte), NEW i \in 0..(Len(s) - 1)
  PROVE  LET p == SubSeq(s, 1, i)
             q == SubSeq(s, i + 1, Len(s))
         IN /\ p \in Seq(Byte) /\ q \in Seq(Byte) /\ Len(p) = i /\ q # <<>> /\ s = p \o q
            /\ Len(p) < Len(s)
<1> DEFINE n == Len(s)
           p == SubSeq(s, 1, i)
           q == SubSeq(s, i + 1, n)
<1>1. n \in Nat /\ i \in 0..(n - 1)
  BY LenProperties
<1>2. \A k \in 1..n : s[k] \in Byte
  BY ElementOfSeq
<1>3. SubSeq(s, 1, n) = s
  BY SubSeqFull
<1>4. SubSeq(s, 1, i) \o SubSeq(s, i + 1, n) = SubSeq(s, 1, n)
  <2>1. 1 \in 1..(n + 1) /\ i \in (1 - 1)..n /\ n \in i..n
    BY <1>1
  <2> QED BY <2>1, ConcatAdjacentSubSeq
<1> HIDE DEF n
<1>5. p \in Seq(Byte) /\ Len(p) = i
  <2>1. (1 <= i => i - 1 + 1 = i) /\ (~(1 <= i) => i = 0) /\ i \in Int
    BY <1>1
  <2>2. \A k \in 1..i : s[k] \in Byte
    BY <1>1, <1>2
  <2> QED BY <2>1, <2>2, SubSeqProperties
<1>6. q \in Seq(Byte) /\ Len(q) = n - i
  <2> DEFINE m == i + 1
  <2>1. m <= n /\ (n - m) + 1 = n - i /\ m \in Int /\ n \in Int
    BY <1>1
  <2>2. \A k \in m..n : s[k] \in Byte
    BY <1>1, <1>2
  <2> HIDE DEF m
  <2>3. SubSeq(s, m, n) \in Seq(Byte) /\ Len(SubSeq(s, m, n)) = (n - m) + 1
    BY <2>1, <2>2, SubSeqProperties
  <2> QED BY <2>1, <2>3 DEF m
<1>7. q # <<>>
  BY <1>1, <1>6
<1>8. i < n
  BY <1>1
<1> QED BY <1>3, <1>4, <1>5, <1>6, <1>7, <1>8 DEF n

\* The fields of a token that was read.
LEMMA ReadTokenFields ==
  ASSUME NEW b \in Buffer, parse_token(b).ok
  PROVE  TokenFields(parse_token(b).token)
<1> DEFINE t == parse_token(b).token
<1>1. /\ t.version \in Byte /\ t.uid \in Seq(Byte) /\ Len(t.uid) = TOKEN_UID_LEN
      /\ t.symbol \in Seq(Byte) /\ Len(t.symbol) <= 5
      /\ t.name \in Seq(Byte) /\ Len(t.name) <= 30
  BY TokenReadBack DEF MAX_TOKEN_SYMBOL_LEN, MAX_TOKEN_NAME_LEN
<1>2. t = [version |-> t.version, uid |-> t.uid, symbol |-> t.symbol, name |-> t.name]
  BY DEF parse_token
<1>3. ASSUME NEW s \in Seq(Byte), Len(s) <= 30 PROVE Len(s) \in Byte
  <2> DEFINE l == Len(s)
  <2>1. l \in Nat /\ l <= 30
    BY <1>3, LenProperties
  <2> HIDE DEF l
  <2>2. l \in Byte
    BY <2>1 DEF Byte
  <2> QED BY <2>2 DEF l
<1> HIDE DEF t
<1>4. Len(t.symbol) <= 30
  <2>1. Len(t.symbol) \in Nat
    BY <1>1, LenProperties
  <2> QED BY <1>1, <2>1
<1>5. Len(t.symbol) \in Byte /\ Len(t.name) \in Byte
  BY <1>1, <1>3, <1>4
<1>6. TokenFields(t)
  BY <1>1, <1>2, <1>5 DEF TokenFields
<1> QED BY <1>6 DEF t

\* A part of a token is never taken for a token.
LEMMA TokenPrefix ==
  ASSUME NEW t, TokenFields(t), Len(EncodeToken(t)) < SizeMod,
         NEW i \in 0..(Len(EncodeToken(t)) - 1)
  PROVE  ~parse_token(Fresh(SubSeq(EncodeToken(t), 1, i))).ok
<1> DEFINE code == EncodeToken(t)
           p == SubSeq(code, 1, i)
           q == SubSeq(code, i + 1, Len(code))
           r == parse_token(Fresh(p))
           x == LeftBytes(r.buf)
<1>1. SUFFICES ASSUME r.ok PROVE FALSE
  OBVIOUS
<1>2. code \in Seq(Byte) /\ code = code \o <<>> /\ <<>> \in Seq(Byte)
  <2>1. <<>> \in Seq(Byte)
    OBVIOUS
  <2>2. code \in Seq(Byte)
    BY <2>1, TokenFieldsAhead
  <2> QED BY <2>1, <2>2, ConcatEmptySeq
<1>3. Len(code) < SizeMod /\ i \in 0..(Len(code) - 1)
  OBVIOUS
<1> HIDE DEF code
<1>4. /\ p \in Seq(Byte) /\ q \in Seq(Byte) /\ Len(p) = i /\ q # <<>> /\ code = p \o q
      /\ Len(p) < Len(code)
  BY <1>2, <1>3, Prefix
<1> HIDE DEF p, q
<1>5. Len(p) < SizeMod
  <2>1. Len(p) \in Nat /\ Len(code) \in Nat
    BY <1>2, <1>4, LenProperties
  <2> QED BY <1>3, <1>4, <2>1, SizeModAssumption
<1>6. At(Fresh(p), p) /\ At(Fresh(code), code)
  BY <1>2, <1>3, <1>4, <1>5, FreshAt
<1>7. Fresh(p) \in Buffer /\ LeftBytes(Fresh(p)) = p
  BY <1>6 DEF At
<1>8. p = EncodeToken(r.token) \o x /\ r.buf \in Buffer /\ TokenFields(r.token) /\ Shown(r.token)
  BY <1>1, <1>7, TokenReadBack, ReadTokenFields DEF Shown
<1>9. x \in Seq(Byte)
  BY <1>8, LeftBytesType
<1> HIDE DEF r, x
<1> DEFINE e == EncodeToken(r.token)
<1>10. e \in Seq(Byte)
  BY <1>8, <1>9, TokenFieldsAhead
<1>11. code = e \o (x \o q) /\ x \o q \in Seq(Byte)
  <2>1. (e \o x) \o q = e \o (x \o q)
    BY <1>4, <1>9, <1>10, ConcatThree, ZenonT(20)
  <2>2. x \o q \in Seq(Byte)
    BY <1>4, <1>9, ConcatProperties
  <2> QED BY <1>4, <1>8, <2>1, <2>2
<1> DEFINE full == parse_token(Fresh(code))
<1>12. full.ok /\ full.token = r.token /\ At(full.buf, x \o q)
  BY <1>6, <1>8, <1>11, TokenForward
<1>13. At(full.buf, <<>>)
  <2>1. At(Fresh(code), EncodeToken(t) \o <<>>)
    BY <1>2, <1>6 DEF code
  <2> QED BY <1>2, <1>12, <2>1, TokenForward
<1>14. x \o q = <<>>
  BY <1>12, <1>13 DEF At
<1> QED BY <1>4, <1>9, <1>14, ConcatEqualIffEmpty

\* Every token of the constants is read as it was written, and no part of it is.
LEMMA TokenReads == Called => TokenRead
<1>1. SUFFICES ASSUME Called, input.kind = "token" PROVE TokenRead
  BY DEF TokenRead
<1> DEFINE t == input.token
           code == EncodeToken(t)
           more == <<9, 9>>
           r == parse_token(Fresh(code \o more))
           n == Len(code)
<1>2. TokenFields(t) /\ n + 2 < SizeMod
  <2>1. t \in TokenData
    BY <1>1 DEF Called
  <2> QED BY <2>1, TokensAssumption DEF TokenFields
<1> HIDE DEF t
<1>3. code \in Seq(Byte) /\ more \in Seq(Byte) /\ Len(more) = 2 /\ n \in Nat
  <2>1. more \in Seq(Byte) /\ Len(more) = 2
    BY DEF Byte
  <2>2. code \in Seq(Byte)
    BY <1>2, <2>1, TokenFieldsAhead
  <2> QED BY <2>1, <2>2, LenProperties
<1> HIDE DEF code, more
<1>4. code \o more \in Seq(Byte) /\ Len(code \o more) = n + 2
  BY <1>3, ConcatProperties
<1> HIDE DEF n
<1>5. Len(code \o more) < SizeMod /\ n < SizeMod
  BY <1>2, <1>3, <1>4, SizeModAssumption
<1>6. At(Fresh(code \o more), EncodeToken(t) \o more)
  BY <1>4, <1>5, FreshAt DEF code
<1>7. /\ r.ok <=> Shown(t)
      /\ r.ok => r.token = t /\ At(r.buf, more)
  BY <1>2, <1>3, <1>6, TokenForward
<1>8. \A i \in 0..(Len(EncodeToken(t)) - 1) : ~parse_token(Fresh(SubSeq(EncodeToken(t), 1, i))).ok
  BY <1>2, <1>5, TokenPrefix DEF n, code
<1>9. /\ r.ok <=> /\ Len(t.symbol) <= 5 /\ Len(t.name) <= 30
                 /\ Printable(t.symbol) /\ Printable(t.name)
      /\ r.ok => r.token = t /\ LeftBytes(r.buf) = <<9, 9>>
  BY <1>7 DEF Shown, At, more, MAX_TOKEN_SYMBOL_LEN, MAX_TOKEN_NAME_LEN
<1> QED BY <1>8, <1>9 DEF TokenRead, t, code, r, more

-----------------------------------------------------------------------------
(* Amounts.                                                                 *)

\* The number of two bytes.
LEMMA NumberOfTwo ==
  ASSUME NEW s \in Seq(Byte), Len(s) = 2
  PROVE  Number(s) = 256 * s[1] + s[2] /\ s[1] \in Byte /\ s[2] \in Byte
<1> DEFINE n == Len(s)
           Def(f) == f = [i \in 0..n |-> IF i = 0 THEN 0 ELSE 256 * f[i - 1] + s[i]]
           Step == [p \in (1..n) \X Nat |-> 256 * p[2] + s[p[1]]]
           c == CHOOSE f : Def(f)
<1>1. n \in Nat /\ n = 2 /\ s[1] \in Byte /\ s[2] \in Byte /\ \A i \in 1..n : s[i] \in Nat
  <2>1. \A i \in 1..n : s[i] \in Byte
    BY ElementOfSeq
  <2>2. n = 2
    OBVIOUS
  <2> HIDE DEF n
  <2>3. 1 \in 1..n /\ 2 \in 1..n /\ n \in Nat
    BY <2>2
  <2>4. s[1] \in Byte /\ s[2] \in Byte
    BY <2>1, <2>3
  <2>5. \A i \in 1..n : s[i] \in Nat
    <3>1. Byte \subseteq Nat
      BY DEF Byte
    <3> QED BY <2>1, <3>1
  <2> QED BY <2>2, <2>3, <2>4, <2>5
<1>2. Number(s) = c[n]
  BY DEF Number
<1> HIDE DEF n
<1>3. Step \in [(1..n) \X Nat -> Nat]
  <2>1. \A p \in (1..n) \X Nat : 256 * p[2] + s[p[1]] \in Nat
    BY <1>1
  <2> QED BY <2>1
<1>4. \A i \in 1..n, m \in Nat : Step[<<i, m>>] = 256 * m + s[i]
  OBVIOUS
<1> HIDE DEF Step
<1>5. PICK f \in [0..n -> Nat] : f[0] = 0 /\ \A i \in 1..n : f[i] = Step[<<i, f[i - 1]>>]
  <2>1. IsStep(Step, n, Nat)
    BY <1>3 DEF IsStep
  <2>2. \E f : Recursive(f, n, Nat, 0, Step)
    BY <1>1, <2>1, Recursion
  <2> QED BY <2>2 DEF Recursive
<1>6. Def(f)
  <2>1. ASSUME NEW i \in 0..n
        PROVE  f[i] = IF i = 0 THEN 0 ELSE 256 * f[i - 1] + s[i]
    <3>1. i # 0 => i \in 1..n /\ i - 1 \in 0..n
      BY <1>1
    <3>2. i # 0 => f[i - 1] \in Nat
      BY <3>1
    <3> QED BY <1>4, <1>5, <3>1, <3>2
  <2>2. f = [i \in 0..n |-> f[i]]
    OBVIOUS
  <2> QED BY <2>1, <2>2
<1>7. Def(c)
  BY <1>6
<1>8. \A i \in 0..n : c[i] = IF i = 0 THEN 0 ELSE 256 * c[i - 1] + s[i]
  BY <1>7
<1> HIDE DEF c
<1>9. c[0] = 0
  BY <1>1, <1>8
<1>10. c[1] = 256 * c[0] + s[1]
  <2>1. 1 \in 0..n /\ 1 # 0 /\ 1 - 1 = 0
    BY <1>1
  <2> QED BY <1>8, <2>1
<1>11. c[2] = 256 * c[1] + s[2]
  <2>1. 2 \in 0..n /\ 2 # 0 /\ 2 - 1 = 1
    BY <1>1
  <2> QED BY <1>8, <2>1
<1>12. c[2] = 256 * s[1] + s[2]
  BY <1>1, <1>9, <1>10, <1>11 DEF Byte
<1> QED BY <1>1, <1>2, <1>12

\* The carry of a negation reaches as far as the bytes are zeros.
Carry(n, i) == IF \A j \in i..Len(n) : n[j] = 0 THEN 1 ELSE 0

\* The carry into a byte, from the one into the byte behind it.
LEMMA CarryStep ==
  ASSUME NEW n \in Seq(Byte), NEW i \in 1..(Len(n) + 1)
  PROVE  /\ Carry(n, i) \in {0, 1}
         /\ Carry(n, i) = IF i > Len(n) THEN 1 ELSE IF Carry(n, i + 1) = 1 /\ n[i] = 0 THEN 1 ELSE 0
<1>1. Len(n) \in Nat
  BY LenProperties
<1> DEFINE l == Len(n)
<1>2. CASE i > l
  <2>1. \A j \in i..l : FALSE
    BY <1>1, <1>2
  <2> QED BY <1>2, <2>1 DEF Carry
<1>3. CASE ~(i > l)
  <2>1. i..l = {i} \cup ((i + 1)..l)
    BY <1>1, <1>3
  <2> QED BY <1>3, <2>1 DEF Carry
<1> QED BY <1>2, <1>3

\* The negated number, byte by byte.
LEMMA NegatedIs ==
  ASSUME NEW n \in Seq(Byte)
  PROVE  /\ Negated(n) \in Seq(Byte) /\ Len(Negated(n)) = Len(n)
         /\ \A i \in 1..Len(n) : Negated(n)[i] = ((255 - n[i]) + Carry(n, i + 1)) % 256
<1> DEFINE l == Len(n)
           Def(f) == f = [i \in 1..(l + 1) |->
                            IF i > l THEN 1 ELSE IF f[i + 1] = 1 /\ n[i] = 0 THEN 1 ELSE 0]
           g == [i \in 1..(l + 1) |-> Carry(n, i)]
           c == CHOOSE f : Def(f)
<1>1. l \in Nat /\ \A i \in 1..l : n[i] \in Byte
  BY LenProperties, ElementOfSeq
<1>2. Negated(n) = [i \in 1..l |-> (255 - n[i] + c[i + 1]) % 256]
  BY DEF Negated
<1> HIDE DEF l
<1>3. Def(g)
  <2>1. ASSUME NEW i \in 1..(l + 1)
        PROVE  Carry(n, i) = IF i > l THEN 1 ELSE IF g[i + 1] = 1 /\ n[i] = 0 THEN 1 ELSE 0
    <3>1. ~(i > l) => i + 1 \in 1..(l + 1)
      BY <1>1
    <3>2. ~(i > l) => g[i + 1] = Carry(n, i + 1)
      BY <3>1
    <3>3. Carry(n, i) = IF i > l THEN 1 ELSE IF Carry(n, i + 1) = 1 /\ n[i] = 0 THEN 1 ELSE 0
      BY CarryStep DEF l
    <3> QED BY <3>2, <3>3
  <2> QED BY <2>1
<1>4. Def(c)
  BY <1>3
<1>5. \A i \in 1..(l + 1) : c[i] = IF i > l THEN 1 ELSE IF c[i + 1] = 1 /\ n[i] = 0 THEN 1 ELSE 0
  BY <1>4
<1> HIDE DEF c, g
<1> DEFINE T == {i \in 0..l : c[i + 1] = Carry(n, i + 1)}
<1>6. l \in T
  <2>1. l + 1 \in 1..(l + 1) /\ l + 1 > l /\ l \in 0..l
    BY <1>1
  <2>2. c[l + 1] = 1
    BY <1>5, <2>1
  <2>3. Carry(n, l + 1) = 1
    BY <2>1, CarryStep DEF l
  <2> QED BY <2>1, <2>2, <2>3
<1>7. ASSUME NEW i \in 0..(l - 1), i + 1 \in T
      PROVE  i \in T
  <2> DEFINE k == i + 1
  <2>1. k \in 1..(l + 1) /\ ~(k > l) /\ i \in 0..l
    BY <1>1
  <2>2. c[k + 1] = Carry(n, k + 1)
    BY <1>7
  <2> HIDE DEF k
  <2>3. c[k] = IF c[k + 1] = 1 /\ n[k] = 0 THEN 1 ELSE 0
    BY <1>5, <2>1
  <2>4. Carry(n, k) = IF Carry(n, k + 1) = 1 /\ n[k] = 0 THEN 1 ELSE 0
    BY <2>1, CarryStep DEF l
  <2>5. c[k] = Carry(n, k)
    BY <2>2, <2>3, <2>4
  <2> QED BY <2>1, <2>5 DEF k
<1>8. \A i \in 0..l : i \in T
  <2> HIDE DEF T
  <2> QED BY <1>1, <1>6, <1>7, Descent
<1>9. \A i \in 1..l : c[i + 1] = Carry(n, i + 1) /\ Carry(n, i + 1) \in {0, 1}
  <2>1. SUFFICES ASSUME NEW i \in 1..l
                 PROVE  c[i + 1] = Carry(n, i + 1) /\ Carry(n, i + 1) \in {0, 1}
    OBVIOUS
  <2>2. i \in 0..l /\ i + 1 \in 1..(l + 1)
    BY <1>1
  <2> QED BY <1>8, <2>2, CarryStep DEF l
<1> DEFINE e(i) == ((255 - n[i]) + Carry(n, i + 1)) % 256
<1>10. ASSUME NEW i \in 1..l PROVE e(i) \in Byte
  <2> DEFINE k == Carry(n, i + 1)
             v == n[i]
  <2>1. k \in {0, 1} /\ v \in 0..255
    BY <1>1, <1>9 DEF Byte
  <2> HIDE DEF k, v
  <2>2. ((255 - v) + k) % 256 \in 0..255
    BY <2>1
  <2> QED BY <2>2 DEF k, v, Byte
<1>11. Negated(n) = [i \in 1..l |-> e(i)]
  BY <1>2, <1>9
<1> HIDE DEF e
<1>12. Negated(n) \in Seq(Byte) /\ Len(Negated(n)) = l /\ \A i \in 1..l : Negated(n)[i] = e(i)
  BY <1>1, <1>10, <1>11, IsASeq
<1> QED BY <1>12 DEF e, l

\* Two negations undo each other.
LEMMA NegatedTwice ==
  ASSUME NEW n \in Seq(Byte)
  PROVE  Negated(Negated(n)) = n
<1> DEFINE l == Len(n)
           m == Negated(n)
           T == {i \in 0..l : Carry(m, i + 1) = Carry(n, i + 1)}
<1>1. l \in Nat /\ \A i \in 1..l : n[i] \in 0..255
  BY LenProperties, ElementOfSeq DEF Byte
<1>2. m \in Seq(Byte) /\ Len(m) = l /\ \A i \in 1..l : m[i] = ((255 - n[i]) + Carry(n, i + 1)) % 256
  BY NegatedIs
<1>3. /\ Len(Negated(m)) = l /\ Negated(m) \in Seq(Byte)
      /\ \A i \in 1..l : Negated(m)[i] = ((255 - m[i]) + Carry(m, i + 1)) % 256
  BY <1>2, NegatedIs
<1>4. \A i \in 1..(l + 1) :
        /\ Carry(n, i) \in {0, 1}
        /\ Carry(n, i) = IF i > l THEN 1 ELSE IF Carry(n, i + 1) = 1 /\ n[i] = 0 THEN 1 ELSE 0
        /\ Carry(m, i) = IF i > l THEN 1 ELSE IF Carry(m, i + 1) = 1 /\ m[i] = 0 THEN 1 ELSE 0
  BY <1>2, CarryStep
<1> HIDE DEF l, m
<1>5. l \in T
  <2>1. l + 1 \in 1..(l + 1) /\ l + 1 > l /\ l \in 0..l
    BY <1>1
  <2> QED BY <1>4, <2>1
<1>6. ASSUME NEW i \in 0..(l - 1), i + 1 \in T
      PROVE  i \in T
  <2> DEFINE k == i + 1
             c == Carry(n, k + 1)
             x == n[k]
             y == m[k]
  <2>1. k \in 1..(l + 1) /\ k \in 1..l /\ ~(k > l) /\ i \in 0..l /\ k + 1 \in 1..(l + 1)
    BY <1>1
  <2>2. Carry(m, k + 1) = c
    BY <1>6
  <2> HIDE DEF k
  <2>3. c \in {0, 1} /\ x \in 0..255 /\ y = ((255 - x) + c) % 256
    BY <1>1, <1>2, <1>4, <2>1
  <2>4. /\ Carry(n, k) = IF c = 1 /\ x = 0 THEN 1 ELSE 0
        /\ Carry(m, k) = IF c = 1 /\ y = 0 THEN 1 ELSE 0
    BY <1>4, <2>1, <2>2
  <2> HIDE DEF c, x, y
  <2>5. c = 1 => (x = 0 <=> y = 0)
    BY <2>3
  <2>6. Carry(m, k) = Carry(n, k)
    BY <2>4, <2>5
  <2> QED BY <2>1, <2>6 DEF k
<1>7. \A i \in 0..l : i \in T
  <2> HIDE DEF T
  <2> QED BY <1>1, <1>5, <1>6, Descent
<1>8. ASSUME NEW i \in 1..l
      PROVE  Negated(m)[i] = n[i]
  <2> DEFINE c == Carry(n, i + 1)
             x == n[i]
             y == m[i]
  <2>1. i \in 0..l /\ i + 1 \in 1..(l + 1)
    BY <1>1
  <2>2. Carry(m, i + 1) = c
    BY <1>7, <2>1
  <2>3. Negated(m)[i] = ((255 - y) + c) % 256
    BY <1>3, <2>2
  <2>4. c \in {0, 1} /\ x \in 0..255 /\ y = ((255 - x) + c) % 256
    BY <1>1, <1>2, <1>4, <2>1
  <2> HIDE DEF c, x, y
  <2>5. ((255 - y) + c) % 256 = x
    BY <2>4
  <2> QED BY <2>3, <2>5 DEF x
<1>9. Negated(m) = n
  BY <1>1, <1>3, <1>8, SeqEqual DEF l
<1> QED BY <1>9 DEF m

\* An amount as an output can hold it: eight bytes, at most 2^63.
ValueFields(n) == /\ n \in Seq(Byte) /\ Len(n) = 8
                  /\ n[1] < 128 \/ n = <<128, 0, 0, 0, 0, 0, 0, 0>>

\* The first bit of an encoded amount tells its length, and how it is decoded.
LEMMA ValueDecodes ==
  ASSUME NEW n, ValueFields(n)
  PROVE  LET v == EncodeValue(n)
         IN /\ v \in Seq(Byte) /\ v[1] \in Byte
            /\ Len(v) = IF v[1] >= 128 THEN 8 ELSE 4
            /\ n = IF v[1] >= 128 THEN Negated(v) ELSE Widened(v)
<1> DEFINE v == EncodeValue(n)
           short == (\A i \in 1..4 : n[i] = 0) /\ n[5] < 128
<1>1. n \in Seq(Byte) /\ Len(n) = 8 /\ \A i \in 1..8 : n[i] \in Byte
  BY ElementOfSeq DEF ValueFields
<1>2. v = IF short THEN SubSeq(n, 5, 8) ELSE Negated(n)
  BY DEF EncodeValue
<1> HIDE DEF v
<1>3. CASE short
  <2>1. v \in Seq(Byte) /\ Len(v) = 4 /\ \A i \in 1..4 : v[i] = n[i + 4]
    <3> DEFINE x == SubSeq(n, 5, 8)
    <3>1. \A i \in 5..8 : n[i] \in Byte
      BY <1>1
    <3>2. x \in Seq(Byte) /\ Len(x) = 4 /\ \A i \in 1..(8 - 5 + 1) : x[i] = n[5 + i - 1]
      BY <3>1, SubSeqProperties
    <3> HIDE DEF x
    <3>3. ASSUME NEW i \in 1..4 PROVE x[i] = n[i + 4]
      <4>1. i \in 1..(8 - 5 + 1) /\ 5 + i - 1 = i + 4
        OBVIOUS
      <4> QED BY <3>2, <4>1
    <3> QED BY <1>2, <1>3, <3>2, <3>3 DEF x
  <2>2. v[1] = n[5] /\ v[1] < 128 /\ v[1] \in Byte
    BY <1>1, <1>3, <2>1
  <2> DEFINE zeros == <<0, 0, 0, 0>>
             w == zeros \o v
  <2>3. zeros \in Seq(Byte) /\ Len(zeros) = 4 /\ \A i \in 1..4 : zeros[i] = 0
    BY DEF Byte
  <2>4. Widened(v) = w
    BY DEF Widened
  <2> HIDE DEF zeros
  <2>5. /\ w \in Seq(Byte) /\ Len(w) = 4 + 4
        /\ \A i \in 1..(4 + 4) : w[i] = IF i <= 4 THEN zeros[i] ELSE v[i - 4]
    <3>1. /\ w \in Seq(Byte) /\ Len(w) = Len(zeros) + Len(v)
          /\ \A i \in 1..(Len(zeros) + Len(v)) :
               w[i] = IF i <= Len(zeros) THEN zeros[i] ELSE v[i - Len(zeros)]
      BY <2>1, <2>3, ConcatProperties
    <3> QED BY <2>1, <2>3, <3>1
  <2> HIDE DEF w
  <2>6. ASSUME NEW i \in 1..8 PROVE w[i] = n[i]
    <3>1. CASE i <= 4
      <4>1. i \in 1..4
        BY <3>1
      <4> QED BY <1>3, <2>3, <2>5, <3>1, <4>1
    <3>2. CASE ~(i <= 4)
      <4>1. i - 4 \in 1..4 /\ (i - 4) + 4 = i
        BY <3>2
      <4> QED BY <2>1, <2>5, <3>2, <4>1
    <3> QED BY <3>1, <3>2
  <2>7. w = n
    BY <1>1, <2>5, <2>6, SeqEqual
  <2>8. ~(v[1] >= 128)
    BY <2>2 DEF Byte
  <2> QED BY <2>1, <2>2, <2>4, <2>7, <2>8 DEF v
<1>4. CASE ~short
  <2>1. /\ v \in Seq(Byte) /\ Len(v) = 8 /\ v[1] = ((255 - n[1]) + Carry(n, 2)) % 256
    <3>1. 1 \in 1..8 /\ 1 + 1 = 2
      OBVIOUS
    <3> QED BY <1>1, <1>2, <1>4, <3>1, NegatedIs
  <2>2. Carry(n, 2) \in {0, 1} /\ (Carry(n, 2) = 1 => \A i \in 2..8 : n[i] = 0)
    <3>1. 2 \in 1..(Len(n) + 1)
      BY <1>1
    <3> QED BY <1>1, <3>1, CarryStep DEF Carry
  <2>3. n[1] \in 0..128 /\ (n[1] = 128 => \A i \in 2..8 : n[i] = 0)
    <3> DEFINE x == n[1]
    <3>1. CASE n[1] < 128
      <4>1. x \in 0..255 /\ x < 128
        BY <1>1, <3>1 DEF Byte
      <4> HIDE DEF x
      <4>2. x \in 0..128 /\ x # 128
        BY <4>1
      <4> QED BY <4>2 DEF x
    <3>2. CASE n = <<128, 0, 0, 0, 0, 0, 0, 0>>
      BY <3>2
    <3> QED BY <3>1, <3>2 DEF ValueFields
  <2>4. ~(n[1] = 0 /\ Carry(n, 2) = 1)
    BY <1>4, <2>2
  <2>5. n[1] = 128 => Carry(n, 2) = 1
    BY <1>1, <2>3 DEF Carry
  <2> DEFINE c == Carry(n, 2)
             x == n[1]
  <2>6. v[1] >= 128 /\ v[1] \in 0..255
    <3> HIDE DEF c, x
    <3>1. c \in {0, 1} /\ x \in 0..128 /\ ~(x = 0 /\ c = 1) /\ (x = 128 => c = 1)
      BY <2>2, <2>3, <2>4, <2>5 DEF c, x
    <3> DEFINE y == ((255 - x) + c) % 256
    <3>2. y >= 128 /\ y \in 0..255
      BY <3>1
    <3>3. v[1] = y
      BY <2>1 DEF c, x
    <3> HIDE DEF y
    <3> QED BY <3>2, <3>3
  <2>7. n = Negated(v)
    BY <1>1, <1>2, <1>4, NegatedTwice
  <2> QED BY <2>1, <2>6, <2>7 DEF v, Byte
<1> QED BY <1>3, <1>4

-----------------------------------------------------------------------------
(* Outputs.                                                                 *)

\* A buffer for some bytes, read up to a place.
Placed(s, k) == [ptr |-> s, offset |-> k]
Fits(s) == s \in Seq(Byte) /\ Len(s) < SizeMod

\* A read at a place in the bytes.
LEMMA TakePlaced ==
  ASSUME NEW s, Fits(s), NEW k \in 0..Len(s), NEW n \in Nat
  PROVE  Take(Placed(s, k), n) =
           IF k + n <= Len(s)
           THEN [ok |-> TRUE, buf |-> Placed(s, k + n), value |-> SubSeq(s, k + 1, k + n)]
           ELSE Fails(Placed(s, k))
<1> DEFINE b == Placed(s, k)
           l == Len(s)
<1>1. s \in Seq(Byte) /\ l \in Nat /\ l < SizeMod /\ SizeMod \in Nat
  BY LenProperties, SizeModAssumption DEF Fits
<1>2. b.ptr = s /\ b.offset = k /\ k \in Nat /\ k <= l
  BY <1>1 DEF Placed
<1>3. b \in Buffer
  BY <1>1, <1>2 DEF Buffer, Size, Placed
<1>4. Left(b) = l - k
  BY <1>2 DEF Left, Size
<1>5. Passed(b, n) = Placed(s, k + n)
  BY DEF Passed, Placed
<1> HIDE DEF b, l
<1>6. CASE k + n <= l
  <2>1. n \in Sizes /\ n <= Left(b)
    BY <1>1, <1>2, <1>4, <1>6 DEF Sizes
  <2>2. Take(b, n) = [ok |-> TRUE, buf |-> Passed(b, n),
                      value |-> SubSeq(b.ptr, b.offset + 1, b.offset + n)]
    BY <1>3, <2>1, TakeIs
  <2> QED BY <1>2, <1>5, <1>6, <2>2 DEF b, l
<1>7. CASE ~(k + n <= l)
  <2>1. ~(n <= Left(b))
    BY <1>1, <1>2, <1>4, <1>7
  <2>2. Take(b, n) = Fails(b)
    BY <1>3, <2>1, TakeReads
  <2> QED BY <1>7, <2>2 DEF b, l
<1> QED BY <1>6, <1>7

Width(s) == IF s[1] >= 128 THEN 8 ELSE 4
Decoded(s, v) == IF s[1] >= 128 THEN Negated(v) ELSE Widened(v)
Framed(x) == SubSeq(x, 1, 3) = P2pkhHead /\ SubSeq(x, 24, 25) = P2pkhTail

\* An output by the places of its parts: what is decided of it, and from which
\* byte on.
LEMMA OutputByPlace ==
  ASSUME NEW s, Fits(s), NEW w, w = Width(s)
  PROVE  parse_output(s) =
           IF Len(s) < w + 3 THEN [sw |-> "READY"]
           ELSE IF Number(SubSeq(s, w + 2, w + 3)) # P2PKH_LEN THEN [sw |-> "PARSING_FAIL"]
           ELSE IF Len(s) < w + 28 THEN [sw |-> "READY"]
           ELSE IF Framed(SubSeq(s, w + 4, w + 28))
                THEN [sw |-> OK, value |-> Decoded(s, SubSeq(s, 1, w)),
                      token_data |-> SubSeq(s, w + 1, w + 1)[1],
                      hash |-> SubSeq(SubSeq(s, w + 4, w + 28), 4, 23), size |-> w + 28]
                ELSE [sw |-> "PARSING_FAIL"]
<1> DEFINE n == Len(s)
           taken == Take(Placed(s, 0), w)
           value == parse_output_value(Fresh(s))
           token_data == U8(value.buf)
           script_len == U16(token_data.buf)
           script == Take(script_len.buf, P2PKH_LEN)
           Whole == value.ok /\ token_data.ok /\ script_len.ok
           Sized == Number(script_len.value) = P2PKH_LEN
           output == [sw |-> OK, value |-> value.value, token_data |-> token_data.value[1],
                      hash |-> SubSeq(script.value, 4, 23), size |-> script.buf.offset]
<1>1. n \in Nat /\ w \in {4, 8} /\ Fresh(s) = Placed(s, 0)
  BY LenProperties DEF Fits, Width, Fresh, Placed
<1>2. parse_output(s) =
        IF ~Whole THEN [sw |-> "READY"]
        ELSE IF ~Sized THEN [sw |-> "PARSING_FAIL"]
        ELSE IF ~script.ok THEN [sw |-> "READY"]
        ELSE IF Framed(script.value) THEN output ELSE [sw |-> "PARSING_FAIL"]
  BY DEF parse_output, Framed
<1>3. value = IF ~taken.ok THEN taken ELSE [taken EXCEPT !.value = Decoded(s, taken.value)]
  BY <1>1 DEF parse_output_value, ReadInt, Width, Decoded, Placed
<1>4. \A b : U8(b) = Take(b, 1) /\ U16(b) = Take(b, 2)
  BY DEF U8, U16, ReadInt
<1>5. \A k \in 0..n, m \in Nat :
        Take(Placed(s, k), m) =
          IF k + m <= n THEN [ok |-> TRUE, buf |-> Placed(s, k + m), value |-> SubSeq(s, k + 1, k + m)]
                        ELSE Fails(Placed(s, k))
  BY TakePlaced
<1>6. \A b : ~Fails(b).ok
  BY DEF Fails
<1> HIDE DEF n
<1>7. IF w <= n THEN /\ value.ok /\ value.buf = Placed(s, w)
                     /\ value.value = Decoded(s, SubSeq(s, 1, w))
                ELSE ~value.ok
  <2>1. taken = IF w <= n THEN [ok |-> TRUE, buf |-> Placed(s, w), value |-> SubSeq(s, 1, w)]
                          ELSE Fails(Placed(s, 0))
    <3>1. 0 \in 0..n /\ w \in Nat /\ 0 + w = w /\ 0 + 1 = 1
      BY <1>1
    <3> QED BY <1>5, <3>1
  <2> HIDE DEF taken, value
  <2>2. CASE w <= n
    BY <1>3, <2>1, <2>2
  <2>3. CASE ~(w <= n)
    BY <1>3, <1>6, <2>1, <2>3
  <2> QED BY <2>2, <2>3
<1> HIDE DEF value
<1>8. w <= n => IF w + 1 <= n THEN /\ token_data.ok /\ token_data.buf = Placed(s, w + 1)
                                   /\ token_data.value = SubSeq(s, w + 1, w + 1)
                              ELSE ~token_data.ok
  <2>1. SUFFICES ASSUME w <= n
                 PROVE  IF w + 1 <= n THEN /\ token_data.ok /\ token_data.buf = Placed(s, w + 1)
                                           /\ token_data.value = SubSeq(s, w + 1, w + 1)
                                      ELSE ~token_data.ok
    OBVIOUS
  <2>2. w \in 0..n /\ 1 \in Nat
    BY <1>1, <2>1
  <2>3. token_data = IF w + 1 <= n
                     THEN [ok |-> TRUE, buf |-> Placed(s, w + 1), value |-> SubSeq(s, w + 1, w + 1)]
                     ELSE Fails(Placed(s, w))
    BY <1>4, <1>5, <1>7, <2>1, <2>2
  <2> HIDE DEF token_data
  <2> QED BY <1>6, <2>3
<1> HIDE DEF token_data
<1>9. w + 1 <= n => IF w + 3 <= n THEN /\ script_len.ok /\ script_len.buf = Placed(s, w + 3)
                                       /\ script_len.value = SubSeq(s, w + 2, w + 3)
                                  ELSE ~script_len.ok
  <2> DEFINE k == w + 1
  <2>1. SUFFICES ASSUME k <= n
                 PROVE  IF w + 3 <= n THEN /\ script_len.ok /\ script_len.buf = Placed(s, w + 3)
                                           /\ script_len.value = SubSeq(s, w + 2, w + 3)
                                      ELSE ~script_len.ok
    OBVIOUS
  <2>2. k \in 0..n /\ 2 \in Nat /\ k + 2 = w + 3 /\ k + 1 = w + 2
    BY <1>1, <2>1
  <2>3. token_data.buf = Placed(s, k)
    BY <1>1, <1>8, <2>1
  <2> HIDE DEF k
  <2>4. script_len = IF w + 3 <= n
                     THEN [ok |-> TRUE, buf |-> Placed(s, w + 3), value |-> SubSeq(s, w + 2, w + 3)]
                     ELSE Fails(Placed(s, k))
    BY <1>4, <1>5, <2>2, <2>3
  <2> HIDE DEF script_len
  <2> QED BY <1>6, <2>4
<1> HIDE DEF script_len
<1>10. w + 3 <= n => IF w + 28 <= n THEN /\ script.ok /\ script.buf.offset = w + 28
                                         /\ script.value = SubSeq(s, w + 4, w + 28)
                                    ELSE ~script.ok
  <2> DEFINE k == w + 3
  <2>1. SUFFICES ASSUME k <= n
                 PROVE  IF w + 28 <= n THEN /\ script.ok /\ script.buf.offset = w + 28
                                            /\ script.value = SubSeq(s, w + 4, w + 28)
                                       ELSE ~script.ok
    OBVIOUS
  <2>2. k \in 0..n /\ 25 \in Nat /\ k + 25 = w + 28 /\ k + 1 = w + 4
    BY <1>1, <2>1
  <2>3. script_len.buf = Placed(s, k)
    BY <1>1, <1>9, <2>1
  <2> HIDE DEF k
  <2>4. script = IF w + 28 <= n
                 THEN [ok |-> TRUE, buf |-> Placed(s, w + 28), value |-> SubSeq(s, w + 4, w + 28)]
                 ELSE Fails(Placed(s, k))
    BY <1>5, <2>2, <2>3 DEF P2PKH_LEN
  <2>5. Placed(s, w + 28).offset = w + 28
    BY DEF Placed
  <2> HIDE DEF script
  <2> QED BY <1>6, <2>4, <2>5
<1> HIDE DEF script
<1>11. Whole <=> w + 3 <= n
  BY <1>1, <1>7, <1>8, <1>9
<1>12. (n < w + 3) = ~(w + 3 <= n) /\ (n < w + 28) = ~(w + 28 <= n)
  BY <1>1
<1>13. CASE ~(w + 3 <= n)
  BY <1>2, <1>11, <1>12, <1>13 DEF n
<1>14. CASE w + 3 <= n
  <2>1. w <= n /\ w + 1 <= n
    BY <1>1, <1>14
  <2>2. /\ value.value = Decoded(s, SubSeq(s, 1, w))
        /\ token_data.value = SubSeq(s, w + 1, w + 1)
        /\ script_len.value = SubSeq(s, w + 2, w + 3)
    BY <1>7, <1>8, <1>9, <1>14, <2>1
  <2>3. CASE ~(w + 28 <= n)
    BY <1>2, <1>10, <1>11, <1>12, <1>14, <2>2, <2>3 DEF n
  <2>4. CASE w + 28 <= n
    <3>1. script.ok /\ script.buf.offset = w + 28 /\ script.value = SubSeq(s, w + 4, w + 28)
      BY <1>10, <1>14, <2>4
    <3> QED BY <1>2, <1>11, <1>12, <1>14, <2>2, <2>4, <3>1 DEF n
  <2> QED BY <2>3, <2>4
<1> QED BY <1>13, <1>14

\* Bytes, as many as n.
String(s, n) == s \in Seq(Byte) /\ Len(s) = n

\* Two strings in a row.
LEMMA Joined ==
  ASSUME NEW s, NEW t, NEW m, NEW n, String(s, m), String(t, n)
  PROVE  String(s \o t, m + n)
BY ConcatProperties DEF String

\* The middle one of three parts, by its place.
Between(a, b, m, n) == m = Len(a) + 1 /\ n = Len(a) + Len(b)

\* It is what is found there.
LEMMA MiddlePart ==
  ASSUME NEW a \in Seq(Byte), NEW b \in Seq(Byte), NEW c \in Seq(Byte),
         NEW m, NEW n, Between(a, b, m, n)
  PROVE  SubSeq(a \o (b \o c), m, n) = b
<1> DEFINE k == Len(a)
           l == Len(b)
           w == a \o b
           y == SubSeq(w, m, n)
<1>1. k \in Nat /\ l \in Nat /\ w \in Seq(Byte) /\ Len(w) = k + l
  BY LenProperties, ConcatProperties
<1>2. \A i \in 1..(k + l) : w[i] = IF i <= k THEN a[i] ELSE b[i - k]
  BY ConcatProperties
<1>3. a \o (b \o c) = w \o c
  BY ConcatThree, ZenonT(20)
<1>4. m = k + 1 /\ n = k + l
  BY DEF Between
<1>5. m \in Nat \ {0} /\ n \in 0..Len(w)
  <2> HIDE DEF k, l, w
  <2> QED BY <1>1, <1>4
<1>6. SubSeq(w \o c, m, n) = y
  <2> HIDE DEF w
  <2> QED BY <1>1, <1>5, GrownSubSeq
<1>7. y = b
  <2>1. \A i \in m..n : w[i] \in Byte
    <3>1. m..n \subseteq 1..Len(w)
      <4> HIDE DEF k, l, w
      <4> QED BY <1>1, <1>4
    <3> HIDE DEF w
    <3> QED BY <1>1, <3>1, ElementOfSeq
  <2> HIDE DEF w, k, l
  <2>2. Len(y) = IF m <= n THEN n - m + 1 ELSE 0
    BY <1>1, <1>4, <2>1, SubSeqProperties
  <2>3. y \in Seq(Byte) /\ \A i \in 1..(n - m + 1) : y[i] = w[m + i - 1]
    BY <1>1, <1>4, <2>1, SubSeqProperties
  <2>4. Len(y) = l
    BY <1>1, <1>4, <2>2
  <2>5. ASSUME NEW i \in 1..l PROVE y[i] = b[i]
    <3> DEFINE j == m + i - 1
    <3>1. i \in 1..(n - m + 1) /\ j \in 1..(k + l) /\ ~(j <= k) /\ j - k = i
      BY <1>1, <1>4
    <3> HIDE DEF j
    <3>2. y[i] = w[j] /\ w[j] = b[j - k]
      BY <1>2, <2>3, <3>1 DEF j
    <3> QED BY <3>1, <3>2
  <2>6. Len(b) = l
    BY DEF l
  <2> QED BY <2>3, <2>4, <2>5, <2>6, SeqEqual
<1> QED BY <1>3, <1>6, <1>7

\* An output as a host can send it.
OutputFields(o) ==
  /\ ValueFields(o.value) /\ o.token_data \in Byte
  /\ o.len \in Seq(Byte) /\ Len(o.len) = 2
  /\ o.script \in Seq(Byte) /\ Len(o.script) = P2PKH_LEN

\* Where the parts of an encoded output are.
LEMMA OutputPlaces ==
  ASSUME NEW o, OutputFields(o), NEW w, w = Len(EncodeValue(o.value)), NEW t \in Seq(Byte)
  PROVE  LET code == EncodeOutput(o)
             all == code \o t
         IN /\ code \in Seq(Byte) /\ Len(code) = w + 28 /\ all \in Seq(Byte)
            /\ all[1] = EncodeValue(o.value)[1]
            /\ SubSeq(all, 1, w) = EncodeValue(o.value)
            /\ SubSeq(all, w + 1, w + 1) = <<o.token_data>>
            /\ SubSeq(all, w + 2, w + 3) = o.len
            /\ SubSeq(all, w + 4, w + 28) = o.script
<1> DEFINE v == EncodeValue(o.value)
           d == <<o.token_data>>
           l == o.len
           x == o.script
           code == v \o (d \o (l \o x))
           all == code \o t
<1>1. v \in Seq(Byte) /\ Len(v) = w /\ w \in {4, 8}
  <2>1. ValueFields(o.value)
    BY DEF OutputFields
  <2> QED BY <2>1, ValueDecodes
<1>2. /\ d \in Seq(Byte) /\ Len(d) = 1 /\ l \in Seq(Byte) /\ Len(l) = 2
      /\ x \in Seq(Byte) /\ Len(x) = 25
  BY DEF OutputFields, P2PKH_LEN
<1>3. EncodeOutput(o) = code
  BY DEF EncodeOutput
<1> HIDE DEF v, d, l, x
<1> DEFINE c == x \o t
           lc == l \o c
           dlc == d \o lc
           lx == l \o x
           dlx == d \o lx
           vd == v \o d
           vdl == vd \o l
<1>s. String(v, w) /\ String(d, 1) /\ String(l, 2) /\ String(x, 25)
  BY <1>1, <1>2 DEF String
<1>4. String(lx, 2 + 25) /\ lx \in Seq(Byte)
  <2>1. String(lx, 2 + 25)
    BY <1>s, Joined
  <2> QED BY <2>1 DEF String
<1>5. String(dlx, 1 + (2 + 25)) /\ dlx \in Seq(Byte)
  <2> HIDE DEF lx
  <2>1. String(dlx, 1 + (2 + 25))
    BY <1>s, <1>4, Joined
  <2> QED BY <2>1 DEF String
<1>6. code \in Seq(Byte) /\ Len(code) = w + 28
  <2> HIDE DEF dlx
  <2>1. String(v \o dlx, w + (1 + (2 + 25)))
    BY <1>s, <1>5, Joined
  <2> QED BY <1>1, <2>1 DEF String, dlx
<1>7. c \in Seq(Byte) /\ vd \in Seq(Byte) /\ String(vd, w + 1)
  <2>1. String(t, Len(t))
    BY DEF String
  <2>2. String(c, 25 + Len(t)) /\ String(vd, w + 1)
    BY <1>s, <2>1, Joined
  <2> QED BY <2>2 DEF String
<1>8. lc \in Seq(Byte) /\ vdl \in Seq(Byte) /\ Len(vdl) = w + 3
  <2> HIDE DEF c, vd
  <2>1. lc \in Seq(Byte)
    BY <1>2, <1>7, ConcatProperties
  <2>2. String(vdl, (w + 1) + 2)
    BY <1>s, <1>7, Joined
  <2> QED BY <1>1, <2>1, <2>2 DEF String
<1>9. dlc \in Seq(Byte) /\ lx \o t = lc /\ dlx \o t = dlc
  <2>1. lx \o t = lc
    BY <1>2, ConcatThree, ZenonT(20)
  <2>2. d \o (lx \o t) = dlx \o t
    <3> HIDE DEF lx
    <3> QED BY <1>2, <1>4, ConcatThree, SMTT(60)
  <2>3. dlc \in Seq(Byte)
    <3> HIDE DEF lc
    <3> QED BY <1>2, <1>8, ConcatProperties
  <2> QED BY <2>1, <2>2, <2>3
<1>10. all = v \o dlc
  <2> HIDE DEF dlx
  <2>1. all = v \o (dlx \o t)
    BY <1>1, <1>5, ConcatThree, ZenonT(20) DEF dlx
  <2> QED BY <1>9, <2>1
<1>11. all = v \o (d \o lc) /\ all = vd \o (l \o c) /\ all = vdl \o (x \o t)
  <2>1. v \o (d \o lc) = vd \o lc
    <3> HIDE DEF lc
    <3>1. v \in Seq(Byte) /\ d \in Seq(Byte) /\ lc \in Seq(Byte)
      BY <1>1, <1>2, <1>8
    <3> QED BY <3>1, ConcatThree, ZenonT(20)
  <2>2. vd \o (l \o c) = vdl \o c
    <3> HIDE DEF vd, c
    <3> QED BY <1>2, <1>7, ConcatThree, SMTT(60)
  <2> QED BY <1>10, <2>1, <2>2
<1>12. all \in Seq(Byte)
  <2> HIDE DEF code
  <2> QED BY <1>6, ConcatProperties
<1> HIDE DEF all, c, lc, dlc, vd, vdl, code
<1>13. SubSeq(all, 1, w) = v /\ all[1] = v[1]
  <2>1. 1 \in Nat \ {0} /\ w \in 0..Len(v)
    BY <1>1
  <2>2. SubSeq(v \o dlc, 1, w) = SubSeq(v, 1, w)
    BY <1>1, <1>9, <2>1, GrownSubSeq
  <2>3. SubSeq(v, 1, w) = v
    BY <1>1, SubSeqFull
  <2>4. (v \o dlc)[1] = v[1]
    BY <1>1, <1>9, ConcatProperties
  <2> QED BY <1>10, <2>2, <2>3, <2>4
<1>14. SubSeq(all, w + 1, w + 1) = d
  <2>1. Between(v, d, w + 1, w + 1)
    BY <1>1, <1>2 DEF Between
  <2>2. SubSeq(v \o (d \o lc), w + 1, w + 1) = d
    <3>1. v \in Seq(Byte) /\ d \in Seq(Byte) /\ lc \in Seq(Byte)
      BY <1>1, <1>2, <1>8
    <3> QED BY <2>1, <3>1, MiddlePart
  <2> QED BY <1>11, <2>2
<1>15. SubSeq(all, w + 2, w + 3) = l
  <2>1. Between(vd, l, w + 2, w + 3)
    BY <1>1, <1>2, <1>7 DEF Between, String
  <2>2. SubSeq(vd \o (l \o c), w + 2, w + 3) = l
    BY <1>2, <1>7, <2>1, MiddlePart
  <2> QED BY <1>11, <2>2
<1>16. SubSeq(all, w + 4, w + 28) = x
  <2>1. Between(vdl, x, w + 4, w + 28)
    BY <1>1, <1>2, <1>8 DEF Between
  <2>2. SubSeq(vdl \o (x \o t), w + 4, w + 28) = x
    <3>1. vdl \in Seq(Byte) /\ x \in Seq(Byte)
      BY <1>2, <1>8
    <3> QED BY <2>1, <3>1, MiddlePart
  <2> QED BY <1>11, <2>2
<1> QED BY <1>3, <1>6, <1>12, <1>13, <1>14, <1>15, <1>16 DEF all, v, d, l, x

\* The script of an output pays to a key hash exactly when it is framed so.
LEMMA FramedIs ==
  ASSUME NEW x, String(x, 25)
  PROVE  Framed(x) <=> x = Script(SubSeq(x, 4, 23))
<1> DEFINE a == SubSeq(x, 1, 3)
           h == SubSeq(x, 4, 23)
           z == SubSeq(x, 24, 25)
           head == P2pkhHead
           tail == P2pkhTail
<1>1. x \in Seq(Byte) /\ Len(x) = 25 /\ \A i \in 1..25 : x[i] \in Byte
  BY ElementOfSeq DEF String
<1>2. String(a, 3)
  <2>1. (\A i \in 1..3 : x[i] \in Byte) /\ 3 - 1 + 1 = 3
    BY <1>1
  <2> QED BY <2>1, SubSeqProperties DEF String
<1>3. String(h, 20)
  <2>1. (\A i \in 4..23 : x[i] \in Byte) /\ 23 - 4 + 1 = 20
    BY <1>1
  <2> QED BY <2>1, SubSeqProperties DEF String
<1>4. String(z, 2)
  <2>1. (\A i \in 24..25 : x[i] \in Byte) /\ 25 - 24 + 1 = 2
    BY <1>1
  <2> QED BY <2>1, SubSeqProperties DEF String
<1>5. x = (a \o h) \o z
  <2>1. a \o SubSeq(x, 3 + 1, 23) = SubSeq(x, 1, 23)
    BY <1>1, ConcatAdjacentSubSeq
  <2>2. SubSeq(x, 1, 23) \o SubSeq(x, 23 + 1, 25) = SubSeq(x, 1, 25)
    BY <1>1, ConcatAdjacentSubSeq
  <2>3. SubSeq(x, 1, 25) = x
    BY <1>1, SubSeqFull
  <2>4. 3 + 1 = 4 /\ 23 + 1 = 24
    OBVIOUS
  <2> QED BY <2>1, <2>2, <2>3, <2>4
<1>6. String(head, 3) /\ String(tail, 2)
  BY DEF P2pkhHead, P2pkhTail, OP_DUP, OP_HASH160, PUBKEY_HASH_LEN, OP_EQUALVERIFY, OP_CHECKSIG,
         String, Byte
<1>7. Framed(x) = (a = head /\ z = tail)
  BY DEF Framed
<1>8. Script(h) = (head \o h) \o tail
  BY DEF Script
<1> HIDE DEF a, h, z, head, tail
<1>9. x = Script(h) => a = head /\ z = tail
  <2>1. String(a \o h, 3 + 20) /\ String(head \o h, 3 + 20)
    BY <1>2, <1>3, <1>6, Joined
  <2> DEFINE p == a \o h
             q == head \o h
  <2>2. p \in Seq(Byte) /\ q \in Seq(Byte) /\ Len(p) = Len(q)
    BY <2>1 DEF String
  <2>3. (x = Script(h)) = (p \o z = q \o tail)
    BY <1>5, <1>8
  <2> HIDE DEF p, q
  <2>4. p \o z = q \o tail => p = q /\ z = tail
    BY <1>4, <1>6, <2>2, SameCut DEF String
  <2>5. p = q => a = head
    <3>1. a \in Seq(Byte) /\ h \in Seq(Byte) /\ head \in Seq(Byte) /\ Len(a) = Len(head)
      BY <1>2, <1>3, <1>6 DEF String
    <3>2. a \o h = head \o h => a = head
      BY <3>1, SameCut
    <3> QED BY <3>2 DEF p, q
  <2> QED BY <2>3, <2>4, <2>5
<1> QED BY <1>5, <1>7, <1>8, <1>9 DEF h

\* The length of a script is 25 in one encoding only.
LEMMA LengthIs ==
  ASSUME NEW l, String(l, 2)
  PROVE  Number(l) = P2PKH_LEN <=> l = <<0, 25>>
<1> DEFINE m == <<0, 25>>
<1>1. l \in Seq(Byte) /\ Len(l) = 2
  BY DEF String
<1>2. Number(l) = 256 * l[1] + l[2] /\ l[1] \in Byte /\ l[2] \in Byte
  BY <1>1, NumberOfTwo
<1>3. m \in Seq(Byte) /\ Len(m) = 2 /\ m[1] = 0 /\ m[2] = 25
  BY DEF Byte
<1> HIDE DEF m
<1>4. Number(m) = 25
  <2>1. Number(m) = 256 * m[1] + m[2]
    BY <1>3, NumberOfTwo
  <2> QED BY <1>3, <2>1
<1>5. Number(l) = 25 => l[1] = 0 /\ l[2] = 25
  <2> DEFINE x == l[1]
             y == l[2]
  <2>1. Number(l) = 256 * x + y /\ x \in 0..255 /\ y \in 0..255
    BY <1>2 DEF Byte
  <2> HIDE DEF x, y
  <2>2. Number(l) = 25 => x = 0 /\ y = 25
    BY <2>1
  <2> QED BY <2>2 DEF x, y
<1>6. (l[1] = 0 /\ l[2] = 25) => l = m
  <2>1. SUFFICES ASSUME l[1] = 0, l[2] = 25 PROVE l = m
    OBVIOUS
  <2>2. \A i \in 1..2 : l[i] = m[i]
    <3>1. \A i \in 1..2 : i = 1 \/ i = 2
      OBVIOUS
    <3> QED BY <1>3, <2>1, <3>1
  <2> QED BY <1>1, <1>3, <2>2, SeqEqual
<1> QED BY <1>4, <1>5, <1>6 DEF m, P2PKH_LEN

\* What is decided of an output when so many bytes of it, and of what follows
\* it, have arrived.
LEMMA OutputDecided ==
  ASSUME NEW o, OutputFields(o), NEW t \in Seq(Byte), NEW s, Fits(s), NEW q \in Seq(Byte),
         EncodeOutput(o) \o t = s \o q, Len(s) >= 1
  PROVE  LET head == Len(EncodeOutput(o)) - P2PKH_LEN
             paysHash == o.script = Script(SubSeq(o.script, 4, 23))
         IN parse_output(s) =
              IF Len(s) < head THEN [sw |-> "READY"]
              ELSE IF o.len # <<0, 25>> THEN [sw |-> "PARSING_FAIL"]
              ELSE IF Len(s) < head + P2PKH_LEN THEN [sw |-> "READY"]
              ELSE IF paysHash
                   THEN [sw |-> OK, value |-> o.value, token_data |-> o.token_data,
                         hash |-> SubSeq(o.script, 4, 23), size |-> head + P2PKH_LEN]
                   ELSE [sw |-> "PARSING_FAIL"]
<1> DEFINE n == Len(s)
           v == EncodeValue(o.value)
           w == Len(v)
           code == EncodeOutput(o)
           all == code \o t
           head == Len(code) - P2PKH_LEN
<1>1. /\ v \in Seq(Byte) /\ v[1] \in Byte /\ w = Width(v) /\ w \in {4, 8}
      /\ o.value = Decoded(v, v)
  <2>1. ValueFields(o.value)
    BY DEF OutputFields
  <2> QED BY <2>1, ValueDecodes DEF Width, Decoded
<1>2. /\ code \in Seq(Byte) /\ Len(code) = w + 28 /\ all \in Seq(Byte)
      /\ all[1] = v[1] /\ SubSeq(all, 1, w) = v /\ SubSeq(all, w + 1, w + 1) = <<o.token_data>>
      /\ SubSeq(all, w + 2, w + 3) = o.len /\ SubSeq(all, w + 4, w + 28) = o.script
  BY OutputPlaces
<1>3. head = w + 3 /\ head + P2PKH_LEN = w + 28
  <2> DEFINE k == Len(code)
  <2>1. k = w + 28 /\ w \in {4, 8} /\ head = k - 25
    BY <1>1, <1>2 DEF P2PKH_LEN
  <2> HIDE DEF k, w, head
  <2> QED BY <2>1 DEF P2PKH_LEN
<1>4. String(o.len, 2) /\ String(o.script, 25)
  BY DEF OutputFields, String, P2PKH_LEN
<1> HIDE DEF v, w, code, head
<1>5. n \in Nat /\ s \in Seq(Byte) /\ all = s \o q /\ n >= 1
  BY LenProperties DEF Fits, code
<1> HIDE DEF all
<1>6. all[1] = s[1]
  <2>1. 1 \in 1..Len(s)
    BY <1>5
  <2> QED BY <1>5, <2>1, ConcatProperties
<1>7. w = Width(s) /\ o.value = Decoded(s, v)
  BY <1>1, <1>2, <1>6 DEF Width, Decoded
<1>8. \A m \in Nat \ {0}, k \in 0..n : SubSeq(all, m, k) = SubSeq(s, m, k)
  BY <1>5, GrownSubSeq
<1>9. w + 3 <= n => SubSeq(s, w + 2, w + 3) = o.len
  <2>1. w + 3 <= n => w + 2 \in Nat \ {0} /\ w + 3 \in 0..n
    BY <1>1, <1>5
  <2> QED BY <1>2, <1>8, <2>1
<1>10. w + 28 <= n => /\ SubSeq(s, 1, w) = v /\ SubSeq(s, w + 1, w + 1) = <<o.token_data>>
                      /\ SubSeq(s, w + 4, w + 28) = o.script
  <2>1. SUFFICES ASSUME w + 28 <= n
                 PROVE  /\ SubSeq(s, 1, w) = v /\ SubSeq(s, w + 1, w + 1) = <<o.token_data>>
                        /\ SubSeq(s, w + 4, w + 28) = o.script
    OBVIOUS
  <2>2. /\ 1 \in Nat \ {0} /\ w \in 0..n /\ w + 1 \in Nat \ {0} /\ w + 1 \in 0..n
        /\ w + 4 \in Nat \ {0} /\ w + 28 \in 0..n
    BY <1>1, <1>5, <2>1
  <2> QED BY <1>2, <1>8, <2>2
<1>11. parse_output(s) =
         IF n < w + 3 THEN [sw |-> "READY"]
         ELSE IF Number(SubSeq(s, w + 2, w + 3)) # P2PKH_LEN THEN [sw |-> "PARSING_FAIL"]
         ELSE IF n < w + 28 THEN [sw |-> "READY"]
         ELSE IF Framed(SubSeq(s, w + 4, w + 28))
              THEN [sw |-> OK, value |-> Decoded(s, SubSeq(s, 1, w)),
                    token_data |-> SubSeq(s, w + 1, w + 1)[1],
                    hash |-> SubSeq(SubSeq(s, w + 4, w + 28), 4, 23), size |-> w + 28]
              ELSE [sw |-> "PARSING_FAIL"]
  BY <1>7, OutputByPlace
<1>12. (Number(o.len) # P2PKH_LEN) = (o.len # <<0, 25>>)
  BY <1>4, LengthIs
<1>13. Framed(o.script) <=> o.script = Script(SubSeq(o.script, 4, 23))
  BY <1>4, FramedIs
<1>14. <<o.token_data>>[1] = o.token_data
  OBVIOUS
<1>15. CASE n < w + 3
  BY <1>3, <1>11, <1>15 DEF n, head, code
<1>16. CASE ~(n < w + 3) /\ n < w + 28
  <2>1. w + 3 <= n
    BY <1>1, <1>5, <1>16
  <2> QED BY <1>3, <1>9, <1>11, <1>12, <1>16, <2>1 DEF n, head, code
<1>17. CASE ~(n < w + 3) /\ ~(n < w + 28)
  <2>1. w + 3 <= n /\ w + 28 <= n
    BY <1>1, <1>5, <1>17
  <2> QED BY <1>3, <1>7, <1>9, <1>10, <1>11, <1>12, <1>13, <1>14, <1>17, <2>1 DEF n, head, code
<1> QED BY <1>15, <1>16, <1>17

\* Every output of the constants is decided when its last byte is there, and
\* decoded as it was written.
LEMMA OutputReads == Called => OutputRead
<1>1. SUFFICES ASSUME Called, input.kind = "output" PROVE OutputRead
  BY DEF OutputRead
<1> DEFINE o == input.output
           code == EncodeOutput(o)
           more == <<1, 2, 3>>
           all == code \o more
           l == Len(code)
           head == l - P2PKH_LEN
           paysHash == o.script = Script(SubSeq(o.script, 4, 23))
           Sw(n) == parse_output(SubSeq(all, 1, n)).sw
           Read == [sw |-> OK, value |-> o.value, token_data |-> o.token_data,
                         hash |-> SubSeq(o.script, 4, 23), size |-> l]
<1>2. OutputFields(o) /\ l + 3 < SizeMod
  <2>1. o \in Outputs
    BY <1>1 DEF Called
  <2> QED BY <2>1, OutputsAssumption DEF OutputFields, ValueFields
<1> HIDE DEF o
<1>3. more \in Seq(Byte) /\ Len(more) = 3
  BY DEF Byte
<1> HIDE DEF more
<1>4. code \in Seq(Byte) /\ l \in {32, 36} /\ all \in Seq(Byte) /\ Len(all) = l + 3
  <2> DEFINE w == Len(EncodeValue(o.value))
  <2>1. w \in {4, 8}
    BY <1>2, ValueDecodes DEF OutputFields
  <2> HIDE DEF w
  <2>2. code \in Seq(Byte) /\ l = w + 28
    BY <1>2, <1>3, OutputPlaces DEF w
  <2>3. all \in Seq(Byte) /\ Len(all) = l + 3
    <3>1. String(code, l) /\ String(more, 3)
      BY <1>3, <2>2 DEF String
    <3> HIDE DEF code, l
    <3>2. String(all, l + 3)
      BY <3>1, Joined
    <3> QED BY <3>2 DEF String
  <2> HIDE DEF l, all, code
  <2> QED BY <2>1, <2>2, <2>3
<1>5. head \in {7, 11} /\ head + P2PKH_LEN = l
  <2> HIDE DEF l
  <2> QED BY <1>4 DEF P2PKH_LEN
<1>6. ASSUME NEW s, NEW q \in Seq(Byte), s \in Seq(Byte), all = s \o q, Len(s) >= 1, Len(s) <= l + 3
      PROVE  parse_output(s) =
               IF Len(s) < head THEN [sw |-> "READY"]
               ELSE IF o.len # <<0, 25>> THEN [sw |-> "PARSING_FAIL"]
               ELSE IF Len(s) < l THEN [sw |-> "READY"]
               ELSE IF paysHash THEN Read ELSE [sw |-> "PARSING_FAIL"]
  <2>1. Fits(s)
    <3> DEFINE k == Len(s)
    <3>1. k \in Nat /\ k <= l + 3 /\ l + 3 < SizeMod
      BY <1>2, <1>6, LenProperties
    <3> HIDE DEF k, l
    <3>2. k < SizeMod
      BY <1>4, <3>1, SizeModAssumption
    <3> QED BY <1>6, <3>2 DEF Fits, k
  <2>2. parse_output(s) =
          IF Len(s) < head THEN [sw |-> "READY"]
          ELSE IF o.len # <<0, 25>> THEN [sw |-> "PARSING_FAIL"]
          ELSE IF Len(s) < head + P2PKH_LEN THEN [sw |-> "READY"]
          ELSE IF paysHash
               THEN [sw |-> OK, value |-> o.value, token_data |-> o.token_data,
                     hash |-> SubSeq(o.script, 4, 23), size |-> head + P2PKH_LEN]
               ELSE [sw |-> "PARSING_FAIL"]
    BY <1>2, <1>3, <1>6, <2>1, OutputDecided
  <2> HIDE DEF head, l
  <2> QED BY <1>5, <2>2
<1>7. ASSUME NEW n \in 1..(l + 3)
      PROVE  Sw(n) = IF n < head THEN "READY"
                     ELSE IF o.len # <<0, 25>> THEN "PARSING_FAIL"
                     ELSE IF n < l THEN "READY"
                     ELSE IF paysHash THEN OK ELSE "PARSING_FAIL"
  <2> DEFINE s == SubSeq(all, 1, n)
             q == SubSeq(all, n + 1, Len(all))
  <2>1. s \in Seq(Byte) /\ q \in Seq(Byte) /\ all = s \o q /\ Len(s) = n
    <3> HIDE DEF all, l
    <3>1. CASE n < Len(all)
      <4>1. n \in 0..(Len(all) - 1)
        BY <1>4, <3>1
      <4> QED BY <1>4, <4>1, Prefix
    <3>2. CASE ~(n < Len(all))
      <4>1. n = Len(all) /\ n \in Int /\ ~(n + 1 <= n)
        BY <1>4, <3>2
      <4>2. s = all
        BY <1>4, <4>1, SubSeqFull
      <4>3. q = <<>> /\ all \o <<>> = all
        BY <1>4, <4>1, SubSeqEmpty, ConcatEmptySeq
      <4>4. <<>> \in Seq(Byte)
        OBVIOUS
      <4> QED BY <1>4, <4>1, <4>2, <4>3, <4>4
    <3> QED BY <3>1, <3>2
  <2> HIDE DEF s, q
  <2>2. n >= 1 /\ n <= l + 3
    <3> HIDE DEF l
    <3> QED BY <1>4
  <2>3. parse_output(s) =
               IF n < head THEN [sw |-> "READY"]
               ELSE IF o.len # <<0, 25>> THEN [sw |-> "PARSING_FAIL"]
               ELSE IF n < l THEN [sw |-> "READY"]
               ELSE IF paysHash THEN Read ELSE [sw |-> "PARSING_FAIL"]
    <3> HIDE DEF all, l, head, paysHash, Read
    <3> QED BY <1>6, <2>1, <2>2
  <2>4. Read.sw = OK
    OBVIOUS
  <2> HIDE DEF Read, head, l, paysHash
  <2> QED BY <2>3, <2>4 DEF s
<1>8. o.len = <<0, 25>> /\ paysHash => parse_output(all) = Read
  <2>1. all = all \o <<>> /\ <<>> \in Seq(Byte)
    BY <1>4, ConcatEmptySeq
  <2>2. Len(all) >= 1 /\ Len(all) <= l + 3 /\ ~(Len(all) < head) /\ ~(Len(all) < l)
    <3> HIDE DEF all, l, head
    <3> QED BY <1>4, <1>5
  <2> HIDE DEF all, l, head, paysHash, Read
  <2> QED BY <1>4, <1>6, <2>1, <2>2
<1> DEFINE wellFormed == o.len = <<0, 25>> /\ paysHash
<1>9. \A n \in 1..(head - 1) : Sw(n) = "READY"
  <2> HIDE DEF Sw, head, l, paysHash
  <2>1. \A n \in 1..(head - 1) : n \in 1..(l + 3) /\ n < head
    BY <1>4, <1>5 DEF P2PKH_LEN
  <2> QED BY <1>7, <2>1
<1>10. \A n \in head..(l - 1) : Sw(n) = IF o.len = <<0, 25>> THEN "READY" ELSE "PARSING_FAIL"
  <2> HIDE DEF Sw, head, l, paysHash
  <2>1. \A n \in head..(l - 1) : n \in 1..(l + 3) /\ ~(n < head) /\ n < l
    BY <1>4, <1>5 DEF P2PKH_LEN
  <2> QED BY <1>7, <2>1
<1>11. \A n \in l..(l + 3) : Sw(n) = IF wellFormed THEN "OK" ELSE "PARSING_FAIL"
  <2> HIDE DEF Sw, head, l, paysHash
  <2>1. \A n \in l..(l + 3) : n \in 1..(l + 3) /\ ~(n < head) /\ ~(n < l)
    BY <1>4, <1>5 DEF P2PKH_LEN
  <2> QED BY <1>7, <2>1 DEF OK
<1> QED BY <1>8, <1>9, <1>10, <1>11 DEF OutputRead, o, code, more, all, l, head, paysHash, Sw, Read, OK

\* Outputs and tokens of any bytes are read as the host wrote them, and never
\* from a part of them (deserialize.c:41-89, token_parser.c:8-42).
THEOREM ElementsReadHolds == Spec => []ElementsRead
<1>1. Called => ElementsRead
  BY OutputReads, TokenReads DEF ElementsRead
<1> QED BY <1>1, InputCalled, PTL

-----------------------------------------------------------------------------
(* The sort of the change indices.                                          *)

\* Numbers in a range of places have a least one.
LEMMA LeastOf ==
  ASSUME NEW S, S \subseteq Nat, S # {}
  PROVE  \E m \in S : \A k \in S : m <= k
<1>1. PICK m \in S : \A k \in S : ~(<<k, m>> \in Less)
  BY LessWellFounded, WFMin, Zenon
<1>2. ASSUME NEW k \in S PROVE m <= k
  <2>1. k \in Nat /\ m \in Nat
    BY <1>1
  <2>2. k < m => <<k, m>> \in Less
    BY <2>1 DEF Less
  <2> QED BY <1>1, <2>1, <2>2
<1> QED BY <1>1, <1>2

\* Lists of n numbers, which are those of R.
Values(x, n) == {x[k] : k \in 1..n}
Lists(n, R) == {x \in [1..n -> Nat] : Values(x, n) = R}

\* The first of the least elements from place i on.
FirstLeast(x, n, i, m) == /\ m \in i..n
                          /\ \A k \in i..n : x[m] <= x[k]
                          /\ \A k \in i..(m - 1) : x[k] > x[m]

\* There is one, and it is what a step of the sort looks for.
LEMMA FirstLeastExists ==
  ASSUME NEW n \in Nat, NEW x \in [1..n -> Nat], NEW i \in 1..n
  PROVE  \E m : FirstLeast(x, n, i, m)
<1> DEFINE V == {x[k] : k \in i..n}
<1>1. V \subseteq Nat /\ x[i] \in V
  OBVIOUS
<1>2. PICK v \in V : \A u \in V : v <= u
  <2>1. V # {}
    BY <1>1
  <2> HIDE DEF V
  <2> QED BY <1>1, <2>1, LeastOf
<1> DEFINE K == {k \in i..n : x[k] = v}
<1>3. K \subseteq Nat /\ K # {}
  BY <1>2
<1>4. PICK m \in K : \A k \in K : m <= k
  <2> HIDE DEF K
  <2> QED BY <1>3, LeastOf
<1>5. m \in i..n /\ x[m] = v
  BY <1>4
<1>6. \A k \in i..n : x[m] <= x[k]
  BY <1>2, <1>5
<1>7. ASSUME NEW k \in i..(m - 1) PROVE x[k] > x[m]
  <2>1. k \in i..n /\ k < m /\ k \in 1..n /\ m \in Nat /\ m \in 1..n
    BY <1>5
  <2>2. x[k] # v
    <3>1. SUFFICES ASSUME x[k] = v PROVE FALSE
      OBVIOUS
    <3>2. m <= k
      BY <1>4, <2>1, <3>1
    <3> QED BY <2>1, <3>2
  <2>3. x[m] <= x[k] /\ x[m] \in Nat /\ x[k] \in Nat
    BY <1>6, <2>1
  <2> QED BY <1>5, <2>2, <2>3
<1> QED BY <1>5, <1>6, <1>7 DEF FirstLeast

\* A step of the sort exchanges two elements: the least from place i on comes
\* to place i.
Exchanged(x, y, n, R, i) ==
  /\ y \in Lists(n, R)
  /\ \A k \in 1..(i - 1) : y[k] = x[k]
  /\ \A k \in i..n : y[i] <= y[k] /\ \E j \in i..n : y[k] = x[j]

\* A step of the sort puts the least of the numbers from i on at place i, and
\* keeps the numbers (display.c:236-246).
LEMMA SortStepIs ==
  ASSUME NEW n \in Nat, NEW R, NEW x \in Lists(n, R), NEW i \in 1..n
  PROVE  Exchanged(x, SortStep(x, i), n, R, i)
<1> DEFINE m == CHOOSE m : FirstLeast(x, n, i, m)
           y == SortStep(x, i)
<1>1. x \in [1..n -> Nat] /\ Values(x, n) = R
  BY DEF Lists
<1>2. Len(x) = n
  BY <1>1, IsASeq
<1>3. y = [x EXCEPT ![i] = x[m], ![m] = x[i]]
  <2> DEFINE k == CHOOSE l \in i..Len(x) : /\ \A j \in i..Len(x) : x[l] <= x[j]
                                           /\ \A j \in i..(l - 1) : x[j] > x[l]
  <2>1. k = m
    BY <1>2 DEF FirstLeast
  <2>2. y = [x EXCEPT ![i] = x[k], ![k] = x[i]]
    BY DEF SortStep
  <2> HIDE DEF k, m, y
  <2> QED BY <2>1, <2>2
<1>4. FirstLeast(x, n, i, m)
  BY <1>1, FirstLeastExists
<1> HIDE DEF m, y
<1>5. m \in i..n /\ m \in 1..n /\ \A k \in i..n : x[m] <= x[k]
  BY <1>4 DEF FirstLeast
<1>6. /\ y \in [1..n -> Nat] /\ y[i] = x[m] /\ y[m] = x[i]
      /\ \A k \in 1..n : k # i /\ k # m => y[k] = x[k]
  BY <1>1, <1>3, <1>5
<1>7. \A k \in 1..n : \E j \in 1..n : x[j] = y[k]
  <2>1. ASSUME NEW k \in 1..n PROVE \E j \in 1..n : x[j] = y[k]
    <3>1. CASE k = i
      BY <1>5, <1>6, <3>1
    <3>2. CASE k = m
      BY <1>6, <3>2
    <3>3. CASE k # i /\ k # m
      BY <1>6, <3>3
    <3> QED BY <3>1, <3>2, <3>3
  <2> QED BY <2>1
<1>8. \A k \in 1..n : \E j \in 1..n : y[j] = x[k]
  <2>1. ASSUME NEW k \in 1..n PROVE \E j \in 1..n : y[j] = x[k]
    <3>1. CASE k = i
      BY <1>5, <1>6, <3>1
    <3>2. CASE k = m
      BY <1>6, <3>2
    <3>3. CASE k # i /\ k # m
      BY <1>6, <3>3
    <3> QED BY <3>1, <3>2, <3>3
  <2> QED BY <2>1
<1>9. y \in Lists(n, R)
  <2>1. Values(y, n) = Values(x, n)
    <3>1. ASSUME NEW v \in Values(y, n) PROVE v \in Values(x, n)
      <4>1. PICK k \in 1..n : v = y[k]
        BY DEF Values
      <4>2. PICK j \in 1..n : x[j] = y[k]
        BY <1>7
      <4> QED BY <4>1, <4>2 DEF Values
    <3>2. ASSUME NEW v \in Values(x, n) PROVE v \in Values(y, n)
      <4>1. PICK k \in 1..n : v = x[k]
        BY DEF Values
      <4>2. PICK j \in 1..n : y[j] = x[k]
        BY <1>8
      <4> QED BY <4>1, <4>2 DEF Values
    <3> QED BY <3>1, <3>2
  <2> QED BY <1>1, <1>6, <2>1 DEF Lists
<1>10. \A k \in 1..(i - 1) : y[k] = x[k]
  <2>1. \A k \in 1..(i - 1) : k \in 1..n /\ k # i /\ k # m
    BY <1>5
  <2> QED BY <1>6, <2>1
<1>11. ASSUME NEW k \in i..n PROVE y[i] <= y[k] /\ \E j \in i..n : y[k] = x[j]
  <2>1. k \in 1..n /\ i \in i..n
    OBVIOUS
  <2>2. \E j \in i..n : y[k] = x[j]
    <3>1. CASE k = i
      BY <1>5, <1>6, <3>1
    <3>2. CASE k = m
      BY <1>6, <2>1, <3>2
    <3>3. CASE k # i /\ k # m
      BY <1>6, <2>1, <3>3
    <3> QED BY <3>1, <3>2, <3>3
  <2> QED BY <1>5, <1>6, <2>2
<1> QED BY <1>9, <1>10, <1>11 DEF y, Exchanged

\* The sort returns the same numbers, each no less than those before it.
LEMMA SortSorts ==
  ASSUME NEW n \in Nat, n # 0, NEW R, NEW list \in Lists(n, R)
  PROVE  LET s == inplace_selection_sort(list)
         IN s \in Lists(n, R) /\ \A a \in 1..n, b \in 1..n : a < b => s[a] <= s[b]
<1> DEFINE l == n - 1
           Type == Lists(n, R)
           Def(f) == f = [i \in 0..l |-> IF i = 0 THEN list ELSE SortStep(f[i - 1], i)]
           Step == [p \in (1..l) \X Type |-> SortStep(p[2], p[1])]
           c == CHOOSE f : Def(f)
<1>1. l \in Nat /\ l + 1 = n /\ \A i \in 1..l : i \in 1..n
  OBVIOUS
<1>2. inplace_selection_sort(list) = c[l]
  <2>1. Len(list) = n
    BY IsASeq DEF Lists
  <2> QED BY <2>1 DEF inplace_selection_sort
<1> HIDE DEF l
<1>3. IsStep(Step, l, Type)
  <2>1. \A i \in 1..l, x \in Type : SortStep(x, i) \in Type
    BY <1>1, SortStepIs DEF Exchanged
  <2> HIDE DEF Type
  <2>2. \A p \in (1..l) \X Type : SortStep(p[2], p[1]) \in Type
    BY <2>1
  <2> QED BY <2>2 DEF IsStep
<1>4. \A i \in 1..l, x \in Type : Step[<<i, x>>] = SortStep(x, i)
  OBVIOUS
<1> HIDE DEF Step
<1>5. PICK f \in [0..l -> Type] : f[0] = list /\ \A i \in 1..l : f[i] = Step[<<i, f[i - 1]>>]
  <2> HIDE DEF Type
  <2>1. list \in Type
    BY DEF Type
  <2>2. \E f : Recursive(f, l, Type, list, Step)
    BY <1>1, <1>3, <2>1, Recursion
  <2> QED BY <2>2 DEF Recursive
<1> HIDE DEF Type
<1>6. Def(f)
  <2>1. ASSUME NEW i \in 0..l
        PROVE  f[i] = IF i = 0 THEN list ELSE SortStep(f[i - 1], i)
    <3>1. i # 0 => i \in 1..l /\ i - 1 \in 0..l
      BY <1>1
    <3>2. i # 0 => f[i - 1] \in Type
      BY <3>1
    <3> QED BY <1>4, <1>5, <3>1, <3>2
  <2>2. f = [i \in 0..l |-> f[i]]
    OBVIOUS
  <2> QED BY <2>1, <2>2
<1>7. Def(c)
  BY <1>6
<1>8. \A i \in 0..l : c[i] = IF i = 0 THEN list ELSE SortStep(c[i - 1], i)
  BY <1>7
<1> HIDE DEF c
<1> DEFINE T == {i \in 0..l : /\ c[i] \in Type
                              /\ \A a \in 1..i, b \in 1..n : a < b => c[i][a] <= c[i][b]}
<1>9. 0 \in T
  <2>1. 0 \in 0..l /\ 1..0 = {}
    BY <1>1
  <2>2. c[0] = list
    BY <1>8, <2>1
  <2> QED BY <2>1, <2>2 DEF Type
<1>10. ASSUME NEW i \in 0..(l - 1), i \in T
       PROVE  i + 1 \in T
  <2> DEFINE m == i + 1
             x == c[i]
             y == c[m]
  <2>1. m \in 0..l /\ m \in 1..n /\ m # 0 /\ m - 1 = i /\ 1..(m - 1) = 1..i
    BY <1>1
  <2>2. y = SortStep(x, m)
    BY <1>8, <2>1
  <2>3. x \in Lists(n, R) /\ \A a \in 1..i, b \in 1..n : a < b => x[a] <= x[b]
    BY <1>10 DEF Type
  <2> HIDE DEF m, x, y
  <2>4. /\ y \in Lists(n, R)
        /\ \A k \in 1..i : y[k] = x[k]
        /\ \A k \in m..n : y[m] <= y[k] /\ \E j \in m..n : y[k] = x[j]
    <3>1. m \in 1..n /\ x \in Lists(n, R)
      BY <2>1, <2>3
    <3>2. Exchanged(x, y, n, R, m)
      BY <2>2, <3>1, SortStepIs
    <3> QED BY <2>1, <3>2 DEF Exchanged
  <2>5. ASSUME NEW a \in 1..m, NEW b \in 1..n, a < b
        PROVE  y[a] <= y[b]
    <3>1. CASE a = m
      <4>1. b \in m..n
        BY <2>1, <2>5, <3>1
      <4> QED BY <2>4, <3>1, <4>1
    <3>2. CASE a # m
      <4>1. a \in 1..i
        BY <2>1, <3>2
      <4>2. CASE b < m
        <5>1. b \in 1..i
          BY <2>1, <4>2
        <5> QED BY <2>3, <2>4, <2>5, <4>1, <5>1
      <4>3. CASE ~(b < m)
        <5>1. b \in m..n
          BY <2>1, <4>3
        <5>2. PICK j \in m..n : y[b] = x[j]
          BY <2>4, <5>1
        <5>3. j \in 1..n /\ a < j
          BY <2>1, <4>1, <5>2
        <5> QED BY <2>3, <2>4, <4>1, <5>2, <5>3
      <4> QED BY <4>2, <4>3
    <3> QED BY <3>1, <3>2
  <2>6. m \in T
    BY <2>1, <2>4, <2>5 DEF y, Type
  <2> QED BY <2>6 DEF m
<1>11. l \in T
  <2>1. \A i \in 0..l : i \in T
    <3> HIDE DEF T
    <3> QED BY <1>1, <1>9, <1>10, Induction
  <2> QED BY <1>1, <2>1
<1>12. ASSUME NEW a \in 1..n, NEW b \in 1..n, a < b
       PROVE  c[l][a] <= c[l][b]
  <2>1. a \in 1..l
    BY <1>1, <1>12
  <2> QED BY <1>11, <1>12, <2>1
<1> QED BY <1>2, <1>11, <1>12 DEF Type

-----------------------------------------------------------------------------
(* The pass over the sorted indices.                                        *)

Counters == [display_index : Byte, confirmed_outputs : Byte, buffer_output_len : Byte,
             outputs_len : Byte, next : {"none", "confirm", "more"}]

Elements(list) == {list[k] : k \in DOMAIN list}

\* A review k outputs further, and where it ends or comes to no change.
Moved(r, k) == [r EXCEPT !.display_index = @ + k, !.confirmed_outputs = @ + k]
Ending(r) == check_output_index_state(r).next # "none"
Stopping(r, C) == Ending(r) \/ r.confirmed_outputs \notin C

\* The check of the position changes nothing until the review ends.
LEMMA CheckIs ==
  ASSUME NEW r \in Counters
  PROVE  /\ check_output_index_state(r) \in Counters
         /\ r.next = "none" /\ ~Ending(r) => check_output_index_state(r) = r
         /\ Ending(r) \/ check_output_index_state(r) = r
<1> DEFINE x == [r EXCEPT !.next = "confirm"]
           y == [r EXCEPT !.next = "more", !.buffer_output_len = 0, !.display_index = 0]
           c == check_output_index_state(r)
<1>1. x \in Counters /\ x.next = "confirm"
  BY DEF Counters
<1>zero. 0 \in Byte
  BY DEF Byte
<1>more. y \in Counters /\ y.next = "more"
  BY <1>zero DEF Counters
<1>2. c = IF r.confirmed_outputs = r.outputs_len THEN x
          ELSE IF r.display_index = r.buffer_output_len THEN y ELSE r
  BY DEF check_output_index_state
<1> HIDE DEF x, y, c
<1>3. c \in Counters
  BY <1>1, <1>more, <1>2
<1>4. c.next # "none" \/ c = r
  BY <1>1, <1>more, <1>2
<1> QED BY <1>3, <1>4 DEF c, Ending

\* Both counters are moved on by one.
LEMMA AdvanceIs ==
  ASSUME NEW r \in Counters
  PROVE  /\ Advance(r) \in Counters /\ Advance(r).next = r.next
         /\ r.display_index + 1 \in Byte /\ r.confirmed_outputs + 1 \in Byte => Advance(r) = Moved(r, 1)
<1> DEFINE d == r.display_index
           c == r.confirmed_outputs
<1>1. d \in 0..255 /\ c \in 0..255
  BY DEF Counters, Byte
<1>2. Incr(d) = (d + 1) % 256 /\ Incr(c) = (c + 1) % 256
  BY DEF Incr
<1>3. Advance(r) = [r EXCEPT !.display_index = Incr(d), !.confirmed_outputs = Incr(c)]
  BY DEF Advance
<1>4. Moved(r, 1) = [r EXCEPT !.display_index = d + 1, !.confirmed_outputs = c + 1]
  BY DEF Moved
<1> HIDE DEF d, c
<1>5. Incr(d) \in Byte /\ Incr(c) \in Byte
  BY <1>1, <1>2 DEF Byte
<1>6. Advance(r) \in Counters /\ Advance(r).next = r.next
  BY <1>3, <1>5 DEF Counters
<1>7. d + 1 \in Byte /\ c + 1 \in Byte => Incr(d) = d + 1 /\ Incr(c) = c + 1
  BY <1>1, <1>2 DEF Byte
<1> QED BY <1>3, <1>4, <1>6, <1>7 DEF d, c

\* The counters after moving on by k, and then by some more.
LEMMA MovedIs ==
  ASSUME NEW r \in Counters, NEW k \in Nat
  PROVE  /\ Moved(r, k).next = r.next /\ Moved(r, 0) = r
         /\ Moved(r, k).display_index = r.display_index + k
         /\ Moved(r, k).confirmed_outputs = r.confirmed_outputs + k
         /\ r.display_index + k \in Byte /\ r.confirmed_outputs + k \in Byte => Moved(r, k) \in Counters
         /\ \A m \in Nat : Moved(Moved(r, k), m) = Moved(r, k + m)
<1> DEFINE d == r.display_index
           c == r.confirmed_outputs
           M(x, y) == [r EXCEPT !.display_index = x, !.confirmed_outputs = y]
<1>1. d \in Nat /\ c \in Nat
  BY DEF Counters, Byte
<1>2. \A m \in Nat : Moved(r, m) = M(d + m, c + m)
  BY DEF Moved
<1>3. \A x, y : /\ M(x, y).next = r.next /\ M(x, y).display_index = x
                /\ M(x, y).confirmed_outputs = y
                /\ x \in Byte /\ y \in Byte => M(x, y) \in Counters
  BY DEF Counters
<1>4. M(d, c) = r
  BY DEF Counters
<1>5. \A x, y, m : Moved(M(x, y), m) = M(x + m, y + m)
  BY DEF Counters, Moved
<1> HIDE DEF d, c, M
<1>6. Moved(r, 0) = r
  <2>1. 0 \in Nat /\ d + 0 = d /\ c + 0 = c
    BY <1>1
  <2> QED BY <1>2, <1>4, <2>1
<1>7. ASSUME NEW m \in Nat PROVE Moved(Moved(r, k), m) = Moved(r, k + m)
  <2> DEFINE x == d + k
             y == c + k
  <2>3. Moved(M(x, y), m) = M(x + m, y + m)
    BY <1>5
  <2>4. k + m \in Nat /\ d + (k + m) = x + m /\ c + (k + m) = y + m
    BY <1>1 DEF x, y
  <2>5. Moved(r, k + m) = M(d + (k + m), c + (k + m)) /\ Moved(r, k) = M(x, y)
    BY <1>2, <2>4 DEF x, y
  <2> QED BY <2>3, <2>4, <2>5
<1>8. Moved(r, k) = M(d + k, c + k)
  BY <1>2
<1> QED BY <1>3, <1>6, <1>7, <1>8 DEF d, c

\* Where the pass stands after some of the indices: before the first change, or
\* k outputs further, all of them change, and the last of them looked at.
Passing(p, r, C, seen, k) ==
  /\ p = check_output_index_state(Moved(r, k))
  /\ \A m \in 0..(k - 1) : r.confirmed_outputs + m \in C
  /\ \A m \in 1..(k - 1) : ~Ending(Moved(r, m))
  /\ p.next = "none" => r.confirmed_outputs + k \notin seen

\* One index more.
LEMMA PassStep ==
  ASSUME NEW C, C \subseteq 0..254, NEW seen, NEW x \in C, \A y \in seen : y <= x, seen \subseteq C,
         NEW r \in Counters, r.next = "none", NEW i \in Nat,
         r.confirmed_outputs \in C => r.display_index + (i + 1) \in Byte,
         NEW p, \/ p = r /\ r.confirmed_outputs \notin seen
                \/ \E k \in 1..i : Passing(p, r, C, seen, k)
  PROVE  LET q == IF p.next = "none" /\ p.confirmed_outputs = x
                  THEN check_output_index_state(Advance(p)) ELSE p
         IN \/ q = r /\ r.confirmed_outputs \notin seen \cup {x}
            \/ \E k \in 1..(i + 1) : Passing(q, r, C, seen \cup {x}, k)
<1> DEFINE q == IF p.next = "none" /\ p.confirmed_outputs = x
                THEN check_output_index_state(Advance(p)) ELSE p
           d == r.display_index
           c == r.confirmed_outputs
           after == seen \cup {x}
<1>1. d \in Nat /\ c \in Nat /\ (c \in C => d + (i + 1) \in 0..255) /\ x \in 0..254
  BY DEF Counters, Byte
<1>2. \A k \in Nat : /\ Moved(r, k).next = "none" /\ Moved(r, k).confirmed_outputs = c + k
                     /\ d + k \in Byte /\ c + k \in Byte => Moved(r, k) \in Counters
                     /\ Moved(r, k).display_index = d + k
                     /\ Moved(Moved(r, k), 1) = Moved(r, k + 1)
  <2>1. ASSUME NEW k \in Nat
        PROVE  /\ Moved(r, k).next = "none" /\ Moved(r, k).confirmed_outputs = c + k
               /\ d + k \in Byte /\ c + k \in Byte => Moved(r, k) \in Counters
               /\ Moved(r, k).display_index = d + k
    BY MovedIs
  <2>2. ASSUME NEW k \in Nat PROVE Moved(Moved(r, k), 1) = Moved(r, k + 1)
    <3>1. 1 \in Nat
      OBVIOUS
    <3> QED BY <3>1, MovedIs
  <2> QED BY <2>1, <2>2
<1>3. Moved(r, 0) = r /\ 0 \in Nat
  <2>1. 0 \in Nat
    OBVIOUS
  <2> QED BY <2>1, MovedIs
<1> HIDE DEF d, c
<1>4. ASSUME NEW k \in 0..i, p = Moved(r, k), c + k = x,
             \A m \in 0..(k - 1) : c + m \in C, \A m \in 1..k : ~Ending(Moved(r, m))
      PROVE  \E j \in 1..(i + 1) : Passing(q, r, C, after, j)
  <2> DEFINE j == k + 1
  <2>0. c \in C
    <3>1. CASE k = 0
      BY <1>1, <1>4, <3>1
    <3>2. CASE k # 0
      <4>1. 0 \in 0..(k - 1) /\ c + 0 = c
        BY <1>1, <3>2
      <4> QED BY <1>4, <4>1
    <3> QED BY <3>1, <3>2
  <2>1. /\ k \in Nat /\ j \in Nat /\ j \in 1..(i + 1) /\ d + k \in Byte /\ c + k \in Byte
        /\ (d + k) + 1 \in Byte /\ (c + k) + 1 \in Byte /\ j - 1 = k /\ c + j > x
    BY <1>1, <1>4, <2>0 DEF Byte
  <2>2. p \in Counters /\ p.next = "none" /\ p.confirmed_outputs = c + k /\ p.display_index = d + k
    BY <1>2, <1>4, <2>1
  <2>3. Advance(p) = Moved(r, j)
    BY <1>2, <1>4, <2>1, <2>2, AdvanceIs
  <2>4. q = check_output_index_state(Moved(r, j))
    BY <1>4, <2>2, <2>3
  <2>5. \A m \in 0..(j - 1) : c + m \in C
    <3>1. \A m \in 0..(j - 1) : m \in 0..(k - 1) \/ m = k
      BY <2>1
    <3> QED BY <1>4, <3>1
  <2>6. \A m \in 1..(j - 1) : ~Ending(Moved(r, m))
    BY <1>4, <2>1
  <2>7. c + j \notin after
    <3>1. \A y \in after : y <= x
      BY <1>1
    <3>2. ~(c + j <= x)
      BY <1>1, <2>1
    <3> QED BY <3>1, <3>2
  <2> HIDE DEF q, j, after
  <2>8. Passing(q, r, C, after, j)
    BY <2>4, <2>5, <2>6, <2>7 DEF Passing, c
  <2> QED BY <2>1, <2>8
<1>5. CASE p = r /\ c \notin seen
  <2>1. CASE c = x
    <3>1. 0 \in 0..i /\ p = Moved(r, 0) /\ c + 0 = x /\ 0..(0 - 1) = {} /\ 1..0 = {}
      BY <1>1, <1>3, <1>5, <2>1
    <3>2. \E j \in 1..(i + 1) : Passing(q, r, C, after, j)
      <4> HIDE DEF q, after, c
      <4> QED BY <1>4, <3>1
    <3> QED BY <3>2
  <2>2. CASE c # x
    <3>1. q = r /\ c \notin after
      BY <1>5, <2>2 DEF c
    <3> QED BY <3>1 DEF c
  <2> QED BY <2>1, <2>2
<1>6. CASE \E k \in 1..i : Passing(p, r, C, seen, k)
  <2>1. PICK k \in 1..i : Passing(p, r, C, seen, k)
    BY <1>6
  <2> DEFINE at == Moved(r, k)
  <2>2. /\ p = check_output_index_state(at)
        /\ p.next = "none" => c + k \notin seen
        /\ \A m \in 0..(k - 1) : c + m \in C
        /\ \A m \in 1..(k - 1) : ~Ending(Moved(r, m))
    BY <2>1 DEF Passing, c
  <2>3. k \in Nat /\ k \in 0..i /\ k \in 1..(i + 1) /\ d + k \in Byte /\ c + k \in Byte
    <3>1. c + (k - 1) \in C /\ k - 1 \in 0..(k - 1)
      BY <2>2
    <3>2. c + (k - 1) \in 0..254
      BY <3>1
    <3>3. 0 \in 0..(k - 1) /\ c + 0 = c
      BY <1>1
    <3>4. c \in C
      BY <2>2, <3>3
    <3> QED BY <1>1, <3>2, <3>4 DEF Byte
  <2>4. at \in Counters /\ at.next = "none" /\ at.confirmed_outputs = c + k
    BY <1>2, <2>3
  <2> HIDE DEF at
  <2>5. p.next = "none" => p = at /\ ~Ending(at)
    BY <2>2, <2>4, CheckIs DEF Ending
  <2>6. CASE p.next = "none" /\ c + k = x
    <3>1. \A m \in 1..k : m \in 1..(k - 1) \/ m = k
      BY <2>3
    <3>2. \A m \in 1..k : ~Ending(Moved(r, m))
      BY <2>2, <2>5, <2>6, <3>1 DEF at
    <3>3. p = Moved(r, k)
      BY <2>5, <2>6 DEF at
    <3>4. \E j \in 1..(i + 1) : Passing(q, r, C, after, j)
      <4> HIDE DEF q, after
      <4> QED BY <1>4, <2>2, <2>3, <2>6, <3>2, <3>3
    <3> QED BY <3>4
  <2>7. CASE ~(p.next = "none" /\ c + k = x)
    <3>1. q = p
      BY <2>4, <2>5, <2>7
    <3>2. p.next = "none" => c + k \notin after
      BY <2>2, <2>7
    <3> HIDE DEF q, after
    <3>3. Passing(q, r, C, after, k)
      BY <2>2, <3>1, <3>2 DEF Passing, at, c
    <3> QED BY <2>3, <3>3 DEF after, q
  <2> QED BY <2>6, <2>7
<1> QED BY <1>5, <1>6 DEF c

\* What the pass leads to: nothing if the review is not at a change, and
\* otherwise the next place where it has to stop.
LEMMA SkipIs ==
  ASSUME NEW list \in Seq(0..254), NEW r \in Counters, r.next = "none",
         r.confirmed_outputs \in Elements(list) => r.display_index + Len(list) \in Byte
  PROVE  LET p == skip_change_outputs(r, list)
             C == Elements(list)
         IN \/ p = r /\ r.confirmed_outputs \notin C
            \/ \E k \in 1..Len(list) : Passing(p, r, C, C, k)
<1> DEFINE n == Len(list)
           C == Elements(list)
           s == inplace_selection_sort(list)
           Next1(p, x) == IF p.next = "none" /\ p.confirmed_outputs = x
                          THEN check_output_index_state(Advance(p)) ELSE p
           Def(f) == f = [i \in 0..n |-> IF i = 0 THEN r ELSE Next1(f[i - 1], s[i])]
           Step == [e \in (1..n) \X Counters |-> Next1(e[2], s[e[1]])]
           c == CHOOSE f : Def(f)
           seen(i) == {s[j] : j \in 1..i}
           Stands(p, i) == \/ p = r /\ r.confirmed_outputs \notin seen(i)
                           \/ \E k \in 1..i : Passing(p, r, C, seen(i), k)
<1>1. n \in Nat /\ list \in [1..n -> 0..254] /\ DOMAIN list = 1..n /\ C \subseteq 0..254
  <2>1. n \in Nat /\ list \in [1..n -> 0..254]
    BY LenProperties
  <2> HIDE DEF n
  <2>2. DOMAIN list = 1..n
    BY <2>1
  <2>3. \A j \in 1..n : list[j] \in 0..254
    BY <2>1
  <2>4. C \subseteq 0..254
    BY <2>2, <2>3, Zenon DEF Elements
  <2> QED BY <2>1, <2>2, <2>4
<1>2. n # 0 => s \in Lists(n, C) /\ \A a \in 1..n, b \in 1..n : a < b => s[a] <= s[b]
  <2>1. list \in Lists(n, C)
    <3>1. Values(list, n) = C
      BY <1>1 DEF Values, Elements
    <3> HIDE DEF n, C
    <3>2. list \in [1..n -> Nat]
      <4>1. 0..254 \subseteq Nat
        OBVIOUS
      <4>2. \A S, U : S \subseteq U => [1..n -> S] \subseteq [1..n -> U]
        OBVIOUS
      <4> QED BY <1>1, <4>1, <4>2, Zenon
    <3> QED BY <3>1, <3>2 DEF Lists
  <2> QED BY <1>1, <2>1, SortSorts
<1>3. skip_change_outputs(r, list) = c[n]
  BY DEF skip_change_outputs
<1> HIDE DEF n, C, s
<1>4. \A i \in 1..n : s[i] \in C /\ seen(n) = C
  <2>1. SUFFICES ASSUME NEW i \in 1..n PROVE s[i] \in C /\ seen(n) = C
    OBVIOUS
  <2>2. n # 0
    BY <1>1, <2>1
  <2>3. Values(s, n) = C
    BY <1>2, <2>2 DEF Lists
  <2> QED BY <2>1, <2>3 DEF Values
<1>5. \A p \in Counters : \A x : Next1(p, x) \in Counters
  BY CheckIs, AdvanceIs
<1> HIDE DEF Next1
<1>6. IsStep(Step, n, Counters)
  BY <1>5 DEF IsStep
<1>7. \A i \in 1..n, p \in Counters : Step[<<i, p>>] = Next1(p, s[i])
  OBVIOUS
<1> HIDE DEF Step
<1>8. PICK f \in [0..n -> Counters] : f[0] = r /\ \A i \in 1..n : f[i] = Step[<<i, f[i - 1]>>]
  <2>1. \E f : Recursive(f, n, Counters, r, Step)
    BY <1>1, <1>6, Recursion
  <2> QED BY <2>1 DEF Recursive
<1>9. Def(f)
  <2>1. ASSUME NEW i \in 0..n
        PROVE  f[i] = IF i = 0 THEN r ELSE Next1(f[i - 1], s[i])
    <3>1. i # 0 => i \in 1..n /\ i - 1 \in 0..n
      BY <1>1
    <3>2. i # 0 => f[i - 1] \in Counters
      BY <3>1
    <3> QED BY <1>7, <1>8, <3>1, <3>2
  <2>2. f = [i \in 0..n |-> f[i]]
    OBVIOUS
  <2> QED BY <2>1, <2>2
<1>10. Def(c)
  BY <1>9
<1>11. \A i \in 0..n : c[i] = IF i = 0 THEN r ELSE Next1(c[i - 1], s[i])
  BY <1>10
<1> HIDE DEF c
<1> DEFINE T == {i \in 0..n : Stands(c[i], i)}
<1>12. 0 \in T
  <2>1. 0 \in 0..n /\ 1..0 = {}
    BY <1>1
  <2>2. c[0] = r /\ seen(0) = {}
    BY <1>11, <2>1
  <2> QED BY <2>1, <2>2
<1>13. ASSUME NEW i \in 0..(n - 1), i \in T
       PROVE  i + 1 \in T
  <2> DEFINE m == i + 1
             p == c[i]
             x == s[m]
             before == seen(i)
  <2>1. m \in 0..n /\ m \in 1..n /\ m # 0 /\ m - 1 = i /\ i \in Nat /\ n # 0
    BY <1>1
  <2>2. c[m] = Next1(p, x)
    BY <1>11, <2>1
  <2>3. x \in C /\ before \subseteq C
    <3>1. \A j \in 1..i : j \in 1..n
      BY <1>1
    <3> QED BY <1>4, <2>1, <3>1
  <2>4. \A y \in before : y <= x
    <3>1. \A j \in 1..i : j \in 1..n /\ j < m
      BY <1>1
    <3>2. \A j \in 1..i : s[j] <= s[m]
      BY <1>2, <2>1, <3>1
    <3> QED BY <3>2
  <2>5. seen(m) = before \cup {x}
    <3>1. 1..m = (1..i) \cup {m}
      BY <1>1
    <3> HIDE DEF m
    <3> QED BY <3>1
  <2>6. r.confirmed_outputs \in C => r.display_index + (i + 1) \in Byte
    <3> DEFINE d == r.display_index
    <3>0. SUFFICES ASSUME r.confirmed_outputs \in C PROVE d + (i + 1) \in Byte
      OBVIOUS
    <3>1. d \in 0..255 /\ d + n \in 0..255
      BY <3>0 DEF Counters, Byte, n, C
    <3> HIDE DEF d
    <3>2. d + (i + 1) \in 0..255
      BY <1>1, <3>1
    <3> QED BY <3>2 DEF d, Byte
  <2>7. Stands(p, i)
    BY <1>13
  <2> HIDE DEF p, x
  <2>8. \/ p = r /\ r.confirmed_outputs \notin before
        \/ \E k \in 1..i : Passing(p, r, C, before, k)
    BY <2>7
  <2> HIDE DEF before
  <2>9. \/ Next1(p, x) = r /\ r.confirmed_outputs \notin before \cup {x}
        \/ \E k \in 1..(i + 1) : Passing(Next1(p, x), r, C, before \cup {x}, k)
    BY <1>1, <2>1, <2>3, <2>4, <2>6, <2>8, PassStep DEF Next1
  <2>10. Stands(c[m], m)
    BY <2>2, <2>5, <2>9
  <2> QED BY <2>1, <2>10
<1>14. Stands(c[n], n)
  <2>1. \A i \in 0..n : i \in T
    <3> HIDE DEF T
    <3> QED BY <1>1, <1>12, <1>13, Induction
  <2>2. n \in 0..n
    BY <1>1
  <2> QED BY <2>1, <2>2
<1>15. seen(n) = C
  <2>1. CASE n = 0
    <3>1. C = {} /\ 1..n = {}
      BY <1>1, <2>1 DEF C, Elements
    <3> QED BY <3>1
  <2>2. CASE n # 0
    <3>1. 1 \in 1..n
      BY <1>1, <2>2
    <3> QED BY <1>4, <3>1
  <2> QED BY <2>1, <2>2
<1> HIDE DEF seen
<1> QED BY <1>3, <1>14, <1>15 DEF n, C

\* The first place, from a review on, where it has to stop.
Settles(r, list, k) ==
  /\ Ending(Moved(r, k)) \/ Moved(r, k).confirmed_outputs \notin Elements(list)
  /\ \A m \in 0..(k - 1) :
       ~Ending(Moved(r, m)) /\ Moved(r, m).confirmed_outputs \in Elements(list)
Settlement(r, list) ==
  LET k == CHOOSE n \in 0..Len(list) : Settles(r, list, n)
  IN check_output_index_state(Moved(r, k))

\* Where the steps of SignTx settle is there, and is the only one.
LEMMA SettlementIs ==
  ASSUME NEW S, NEW list \in Seq(S), NEW r, NEW k \in 0..Len(list), Settles(r, list, k)
  PROVE  Settlement(r, list) = check_output_index_state(Moved(r, k))
<1> DEFINE j == CHOOSE n \in 0..Len(list) : Settles(r, list, n)
<1>1. j \in 0..Len(list) /\ Settles(r, list, j)
  OBVIOUS
<1>2. Settlement(r, list) = check_output_index_state(Moved(r, j))
  BY DEF Settlement
<1> HIDE DEF j
<1>3. j \in Nat /\ k \in Nat
  BY <1>1, LenProperties
<1>4. ~(j < k)
  <2>1. j < k => j \in 0..(k - 1)
    BY <1>3
  <2> QED BY <1>1, <2>1 DEF Settles
<1>5. ~(k < j)
  <2>1. k < j => k \in 0..(j - 1)
    BY <1>3
  <2> QED BY <1>1, <2>1 DEF Settles
<1>6. j = k
  BY <1>3, <1>4, <1>5
<1> QED BY <1>2, <1>6

\* Before an output is shown, the review settles; and so it does after one was
\* confirmed, from the next output on, or from the one behind it when the next
\* is change: that one is passed whether or not the review ends before it.
LEMMA PassSettles ==
  ASSUME NEW list \in Seq(0..254), NEW r \in Counters, r.next = "none",
         r.confirmed_outputs \in Elements(list) => r.display_index + Len(list) \in Byte
  PROVE  LET isChange == r.confirmed_outputs \in Elements(list)
             p == skip_change_outputs(r, list)
         IN /\ prepare_display_output(r, list) = Settlement(r, list)
            /\ p = IF isChange THEN Settlement(Advance(r), list) ELSE r
            /\ p \in Counters
            /\ isChange /\ p.next = "none" =>
                 p.confirmed_outputs \notin Elements(list) /\ ~Ending(p)
<1> DEFINE n == Len(list)
           C == Elements(list)
           c == r.confirmed_outputs
           d == r.display_index
           p == skip_change_outputs(r, list)
           q == prepare_display_output(r, list)
<1>1. n \in Nat /\ c \in 0..255 /\ d \in 0..255
  BY LenProperties DEF Counters, Byte
<1>2. \/ p = r /\ c \notin C
      \/ \E k \in 1..n : Passing(p, r, C, C, k)
  BY SkipIs
<1>3. q = IF Ending(r) THEN check_output_index_state(r) ELSE p
  <2>1. ~Ending(r) => check_output_index_state(r) = r
    BY CheckIs
  <2> QED BY <2>1 DEF prepare_display_output, Ending
<1>4. Moved(r, 0) = r /\ \A k \in Nat : Moved(r, k).confirmed_outputs = c + k
  <2>1. 0 \in Nat
    OBVIOUS
  <2> QED BY <2>1, MovedIs
<1>5. C \subseteq 0..254
  <2>1. DOMAIN list = 1..n
    BY <1>1
  <2>2. \A j \in 1..n : list[j] \in 0..254
    BY ElementOfSeq
  <2> QED BY <2>1, <2>2, Zenon DEF Elements
<1>6. c \in C => d + n \in 0..255
  BY DEF Byte
<1> HIDE DEF n, c, d, C, p, q
<1>7. ASSUME Ending(r) \/ c \notin C
      PROVE  Settlement(r, list) = check_output_index_state(r)
  <2>1. 0 \in 0..n /\ 0..(0 - 1) = {}
    BY <1>1
  <2>2. Settles(r, list, 0)
    BY <1>4, <1>7, <2>1 DEF Settles, C, c
  <2> QED BY <1>4, <2>1, <2>2, SettlementIs DEF n
<1>8. CASE p = r /\ c \notin C
  <2>1. q = Settlement(r, list)
    BY <1>3, <1>7, <1>8, CheckIs
  <2> QED BY <1>8, <2>1 DEF n, c, C, p, q
<1>9. CASE \E k \in 1..n : Passing(p, r, C, C, k)
  <2>1. PICK k \in 1..n : Passing(p, r, C, C, k)
    BY <1>9
  <2>2. /\ p = check_output_index_state(Moved(r, k))
        /\ \A m \in 0..(k - 1) : c + m \in C
        /\ \A m \in 1..(k - 1) : ~Ending(Moved(r, m))
        /\ p.next = "none" => c + k \notin C
    BY <2>1 DEF Passing, c
  <2>3. c \in C
    <3>1. 0 \in 0..(k - 1) /\ c + 0 = c
      BY <1>1
    <3> QED BY <2>2, <3>1
  <2> DEFINE j == k - 1
             a == Advance(r)
  <2>4. /\ k \in Nat /\ k \in 0..n /\ j \in Nat /\ j \in 0..n /\ 1 + j = k
        /\ c + k \in 0..255 /\ d + k \in 0..255 /\ c + 1 \in 0..255 /\ d + 1 \in 0..255
    <3>1. j \in 0..(k - 1)
      BY <1>1
    <3>2. c + j \in 0..254
      BY <1>5, <2>2, <3>1
    <3> QED BY <1>1, <1>6, <2>3, <3>2
  <2> HIDE DEF j
  <2>5. Moved(r, k) \in Counters
    BY <2>4, MovedIs DEF c, d, Byte
  <2>6. /\ p \in Counters
        /\ p.next = "none" => p = Moved(r, k) /\ ~Ending(p)
    BY <2>2, <2>5, CheckIs DEF Ending
  <2>7. Ending(Moved(r, k)) \/ c + k \notin C
    BY <2>2 DEF Ending
  <2>8. a = Moved(r, 1)
    BY <2>4, AdvanceIs DEF c, d, Byte
  <2>9. \A m \in Nat : Moved(a, m) = Moved(r, 1 + m)
    <3>1. 1 \in Nat
      OBVIOUS
    <3> QED BY <2>8, <3>1, MovedIs
  <2>10. p = Settlement(a, list)
    <3>1. Ending(Moved(a, j)) \/ Moved(a, j).confirmed_outputs \notin C
      BY <1>4, <2>4, <2>7, <2>9
    <3>2. ASSUME NEW m \in 0..(j - 1)
          PROVE  ~Ending(Moved(a, m)) /\ Moved(a, m).confirmed_outputs \in C
      <4>1. m \in Nat /\ 1 + m \in Nat /\ 1 + m \in 1..(k - 1) /\ 1 + m \in 0..(k - 1)
        BY <2>4
      <4> QED BY <1>4, <2>2, <2>9, <4>1
    <3> HIDE DEF a
    <3>3. Settles(a, list, j)
      BY <3>1, <3>2 DEF Settles, C
    <3>4. Settlement(a, list) = check_output_index_state(Moved(a, j))
      BY <2>4, <3>3, SettlementIs DEF n
    <3> QED BY <2>2, <2>4, <2>9, <3>4
  <2>11. q = Settlement(r, list)
    <3>1. CASE Ending(r)
      BY <1>3, <1>7, <3>1
    <3>2. CASE ~Ending(r)
      <4>1. ASSUME NEW m \in 0..(k - 1)
            PROVE  ~Ending(Moved(r, m)) /\ Moved(r, m).confirmed_outputs \in C
        <5>1. m \in Nat /\ (m = 0 \/ m \in 1..(k - 1))
          BY <2>4
        <5> QED BY <1>4, <2>2, <3>2, <5>1
      <4>2. Ending(Moved(r, k)) \/ Moved(r, k).confirmed_outputs \notin C
        BY <1>4, <2>4, <2>7
      <4>3. Settles(r, list, k)
        BY <4>1, <4>2 DEF Settles, C
      <4>4. Settlement(r, list) = check_output_index_state(Moved(r, k))
        BY <2>4, <4>3, SettlementIs DEF n
      <4> QED BY <1>3, <2>2, <3>2, <4>4
    <3> QED BY <3>1, <3>2
  <2>12. p.next = "none" => p.confirmed_outputs \notin C
    BY <1>4, <2>2, <2>4, <2>6
  <2> QED BY <2>3, <2>6, <2>10, <2>11, <2>12 DEF n, c, C, p, q
<1> QED BY <1>2, <1>8, <1>9

\* The pass of every call is the run of the steps.
LEMMA PassIsRun == Called => SkipIsRun
<1>1. SUFFICES ASSUME Called, input.kind = "skip" PROVE SkipIsRun
  BY DEF SkipIsRun
<1> DEFINE r == input.review
           list == input.change
           n == Len(list)
           C == Elements(list)
           next == Advance(r)
           p == skip_change_outputs(next, list)
           u == ui_confirm_output(r, list)
<1>2. /\ list \in Seq(0..254) /\ r \in Counters /\ r.next = "none"
      /\ r.display_index + n + 2 \in Byte /\ n \in Nat /\ r.display_index \in 0..255
  <2>1. list \in IndexLists /\ r \in Reviews
    BY <1>1 DEF Called
  <2>2. list \in Seq(0..254) /\ r.display_index + n + 2 \in Byte
    BY <2>1, ReviewsAssumption
  <2>3. r \in [display_index : Byte, confirmed_outputs : Byte,
               buffer_output_len : Byte, outputs_len : Byte, next : {"none"}]
    BY <2>1, ReviewsAssumption
  <2>4. r \in Counters /\ r.next = "none" /\ r.display_index \in 0..255
    BY <2>3 DEF Counters, Byte
  <2> QED BY <2>2, <2>4, LenProperties
<1> HIDE DEF r, list
<1>3. /\ next \in Counters /\ next.next = "none"
      /\ r.display_index + n \in Byte /\ next.display_index + n \in Byte
  <2>1. next \in Counters /\ next.next = "none"
    BY <1>2, AdvanceIs
  <2> DEFINE d == r.display_index
  <2>2. next.display_index = Incr(d)
    BY <1>2 DEF Advance, Counters
  <2>3. Incr(d) = (d + 1) % 256
    BY DEF Incr
  <2>4. d \in 0..255 /\ d + n + 2 \in 0..255 /\ n \in Nat
    BY <1>2 DEF Byte
  <2> HIDE DEF d, n, next
  <2>5. d + n \in 0..255 /\ ((d + 1) % 256) + n \in 0..255
    BY <2>4
  <2> QED BY <2>1, <2>2, <2>3, <2>5 DEF d, Byte
<1>4. prepare_display_output(r, list) = Settlement(r, list)
  BY <1>2, <1>3, PassSettles
<1> HIDE DEF next
<1>5. /\ prepare_display_output(next, list) = Settlement(next, list)
      /\ p = IF next.confirmed_outputs \in C THEN Settlement(Advance(next), list) ELSE next
      /\ p \in Counters
      /\ (next.confirmed_outputs \in C /\ p.next = "none") =>
           p.confirmed_outputs \notin C /\ ~Ending(p)
  BY <1>2, <1>3, PassSettles
<1>6. u = IF p.next # "none" THEN p ELSE prepare_display_output(p, list)
  BY DEF ui_confirm_output, next
<1> HIDE DEF p, u, C
<1>7. u = Settlement(IF next.confirmed_outputs \in C THEN Advance(next) ELSE next, list)
  <2>1. CASE next.confirmed_outputs \in C /\ p.next # "none"
    BY <1>5, <1>6, <2>1
  <2>2. CASE next.confirmed_outputs \in C /\ p.next = "none"
    <3>1. p \in Counters /\ p.confirmed_outputs \notin C /\ ~Ending(p)
      BY <1>5, <2>2
    <3>2. skip_change_outputs(p, list) = p
      BY <1>2, <2>2, <3>1, PassSettles DEF C
    <3>3. check_output_index_state(p) = p
      BY <2>2, <3>1, CheckIs
    <3>4. prepare_display_output(p, list) = p
      BY <2>2, <3>2, <3>3 DEF prepare_display_output
    <3> QED BY <1>5, <1>6, <2>2, <3>4
  <2>3. CASE next.confirmed_outputs \notin C
    BY <1>3, <1>5, <1>6, <2>3
  <2> QED BY <2>1, <2>2, <2>3
<1> QED BY <1>4, <1>7
        DEF SkipIsRun, Settlement, Settles, Ending, Moved, Elements, C, u, next, r, list

\* The pass over the sorted copy of the change indices is the skip of SignTx,
\* for any indices, in any order, repeated or of no output (display.c:233-348).
THEOREM SkipIsRunHolds == Spec => []SkipIsRun
<1> QED BY PassIsRun, InputCalled, PTL

-----------------------------------------------------------------------------
(* Parts in a row.                                                          *)

\* What the first parts make, one part after the other.
Flattening(g, parts, n) ==
  /\ g \in [0..n -> Seq(Byte)] /\ g[0] = <<>>
  /\ \A i \in 1..n : g[i] = g[i - 1] \o parts[i]

\* There is such a function for every number of parts.
LEMMA FlatteningExists ==
  ASSUME NEW n \in Nat, NEW parts \in [1..n -> Seq(Byte)]
  PROVE  \E g : Flattening(g, parts, n)
<1> DEFINE Type == Seq(Byte)
           base == <<>>
           Step == [e \in (1..n) \X Type |-> e[2] \o parts[e[1]]]
<1>1. base \in Type
  OBVIOUS
<1>2. \A i \in 1..n, s \in Type : Step[<<i, s>>] = s \o parts[i]
  OBVIOUS
<1>3. IsStep(Step, n, Type)
  <2>1. \A i \in 1..n, s \in Type : s \o parts[i] \in Type
    BY ConcatProperties
  <2> HIDE DEF Type
  <2>2. \A e \in (1..n) \X Type : e[2] \o parts[e[1]] \in Type
    BY <2>1
  <2> QED BY <2>2 DEF IsStep
<1> HIDE DEF Type, base, Step
<1>4. PICK f : Recursive(f, n, Type, base, Step)
  BY <1>1, <1>3, Recursion
<1>5. f \in [0..n -> Type] /\ f[0] = base /\ \A i \in 1..n : f[i] = Step[<<i, f[i - 1]>>]
  BY <1>4 DEF Recursive
<1>6. ASSUME NEW i \in 1..n PROVE f[i] = f[i - 1] \o parts[i]
  <2>1. i - 1 \in 0..n
    OBVIOUS
  <2>2. f[i - 1] \in Type
    BY <1>5, <2>1
  <2> QED BY <1>2, <1>5, <2>2
<1>7. Flattening(f, parts, n)
  BY <1>5, <1>6 DEF Flattening, Type, base
<1> QED BY <1>7

\* It is what the parts are flattened to, for the first m of them.
LEMMA FlattenIs ==
  ASSUME NEW n \in Nat, NEW parts \in [1..n -> Seq(Byte)], NEW g, Flattening(g, parts, n),
         NEW m \in 0..n, NEW s \in [1..m -> Seq(Byte)], \A i \in 1..m : s[i] = parts[i]
  PROVE  FlattenSeq(s) = g[m]
<1>1. s \in Seq(Seq(Byte)) /\ Len(s) = m /\ m \in Nat
  BY IsASeq
<1>2. /\ g \in [0..n -> Seq(Byte)] /\ g[0] = <<>>
      /\ \A i \in 1..n : g[i] = g[i - 1] \o parts[i]
  BY DEF Flattening
<1>3. CASE m = 0
  <2>1. FlattenSeq(s) = s
    BY <1>1, <1>3 DEF FlattenSeq
  <2>2. s = <<>>
    BY <1>1, <1>3, EmptySeq
  <2> QED BY <1>2, <1>3, <2>1, <2>2
<1>4. CASE m # 0
  <2> DEFINE Def(f) == f = [i \in 1..m |-> IF i = 1 THEN s[i] ELSE f[i - 1] \o s[i]]
             h == [i \in 1..m |-> g[i]]
             c == CHOOSE f : Def(f)
  <2>1. FlattenSeq(s) = c[m]
    BY <1>1, <1>4 DEF FlattenSeq
  <2>2. ASSUME NEW i \in 1..m
        PROVE  g[i] = IF i = 1 THEN s[i] ELSE h[i - 1] \o s[i]
    <3>1. i \in 1..n /\ s[i] = parts[i]
      BY <1>1
    <3>2. g[i] = g[i - 1] \o s[i] /\ s[i] \in Seq(Byte)
      BY <1>2, <3>1
    <3>3. i = 1 => g[i] = s[i]
      <4>1. <<>> \o s[i] = s[i]
        BY <3>2, ConcatEmptySeq
      <4>2. i = 1 => i - 1 = 0
        OBVIOUS
      <4>3. i = 1 => g[i - 1] = <<>>
        BY <1>2, <4>2
      <4> QED BY <3>2, <4>1, <4>3
    <3>4. i # 1 => h[i - 1] = g[i - 1]
      OBVIOUS
    <3> QED BY <3>2, <3>3, <3>4
  <2>3. Def(h)
    BY <2>2
  <2>4. Def(c)
    BY <2>3
  <2>5. \A i \in 1..m : c[i] = IF i = 1 THEN s[i] ELSE c[i - 1] \o s[i]
    BY <2>4
  <2> HIDE DEF c
  <2> DEFINE T == {0} \cup {i \in 1..m : c[i] = g[i]}
  <2>6. ASSUME NEW i \in 0..(m - 1), i \in T
        PROVE  i + 1 \in T
    <3> DEFINE k == i + 1
    <3>1. k \in 1..m /\ k - 1 = i
      BY <1>1
    <3>2. g[k] = IF k = 1 THEN s[k] ELSE g[i] \o s[k]
      <4>1. k # 1 => h[k - 1] = g[i]
        BY <3>1
      <4> QED BY <2>2, <3>1, <4>1
    <3>3. c[k] = IF k = 1 THEN s[k] ELSE c[i] \o s[k]
      BY <2>5, <3>1
    <3>4. k # 1 => c[i] = g[i]
      BY <2>6, <3>1
    <3>5. c[k] = g[k]
      BY <3>2, <3>3, <3>4
    <3> QED BY <3>1, <3>5
  <2>7. \A i \in 0..m : i \in T
    <3> HIDE DEF T
    <3>1. 0 \in T
      BY DEF T
    <3> QED BY <1>1, <2>6, <3>1, Induction
  <2>8. m \in T /\ m # 0
    BY <1>1, <1>4, <2>7
  <2> QED BY <2>1, <2>8
<1> QED BY <1>3, <1>4

\* And for all of them.
LEMMA FlattenAll ==
  ASSUME NEW n \in Nat, NEW parts \in [1..n -> Seq(Byte)], NEW g, Flattening(g, parts, n)
  PROVE  FlattenSeq(parts) = g[n]
<1>1. n \in 0..n /\ \A i \in 1..n : parts[i] = parts[i]
  OBVIOUS
<1> QED BY <1>1, FlattenIs

\* The first parts are what all of them begin with.
LEMMA FlatteningPrefix ==
  ASSUME NEW n \in Nat, NEW parts \in [1..n -> Seq(Byte)], NEW g, Flattening(g, parts, n),
         NEW i \in 0..n
  PROVE  \E t \in Seq(Byte) : g[n] = g[i] \o t
<1> DEFINE T == {j \in 0..n : \E t \in Seq(Byte) : g[n] = g[j] \o t}
<1>1. /\ g \in [0..n -> Seq(Byte)] /\ g[0] = <<>>
      /\ \A j \in 1..n : g[j] = g[j - 1] \o parts[j]
  BY DEF Flattening
<1>2. n \in T
  <2>1. n \in 0..n /\ <<>> \in Seq(Byte)
    OBVIOUS
  <2>2. g[n] = g[n] \o <<>>
    BY <1>1, <2>1, ConcatEmptySeq
  <2> QED BY <2>1, <2>2
<1>3. ASSUME NEW j \in 0..(n - 1), j + 1 \in T
      PROVE  j \in T
  <2> DEFINE k == j + 1
  <2>1. k \in 1..n /\ k - 1 = j /\ j \in 0..n
    OBVIOUS
  <2>2. PICK t \in Seq(Byte) : g[n] = g[k] \o t
    BY <1>3
  <2> HIDE DEF k
  <2>3. g[k] = g[j] \o parts[k] /\ g[j] \in Seq(Byte) /\ parts[k] \in Seq(Byte)
    BY <1>1, <2>1
  <2>4. (g[j] \o parts[k]) \o t = g[j] \o (parts[k] \o t) /\ parts[k] \o t \in Seq(Byte)
    <3>1. g[j] \in Seq(Byte) /\ parts[k] \in Seq(Byte)
      BY <2>3
    <3>2. g[j] \o (parts[k] \o t) = (g[j] \o parts[k]) \o t
      BY <3>1, ConcatThree, ZenonT(20)
    <3> QED BY <3>1, <3>2, ConcatProperties
  <2>5. g[n] = g[j] \o (parts[k] \o t)
    BY <2>2, <2>3, <2>4
  <2> QED BY <2>1, <2>4, <2>5
<1>4. \A j \in 0..n : j \in T
  <2> HIDE DEF T
  <2> QED BY <1>2, <1>3, Descent
<1> QED BY <1>4

-----------------------------------------------------------------------------
(* Paths in a buffer.                                                       *)

\* A function on 1..n is a sequence of length n.
LEMMA ListOf ==
  ASSUME NEW n \in Nat, NEW S, NEW f \in [1..n -> S]
  PROVE  f \in Seq(S) /\ Len(f) = n
<1>1. f \in Seq(S)
  BY SeqDef
<1>2. Len(f) \in Nat /\ DOMAIN f = 1..Len(f)
  BY <1>1, LenProperties
<1> QED BY <1>1, <1>2

\* The levels that a byte of length is followed by, if they are all there.
LevelsIn(s) == [i \in 1..s[1] |-> SubSeq(s, 4 * i - 2, 4 * i + 1)]
PathIn(s) == Len(s) >= 1 /\ s[1] <= MAX_BIP32_PATH /\ 4 * s[1] + 1 <= Len(s)
PathOk(s) == PathIn(s) /\ Accepted(LevelsIn(s))

\* The levels are bytes, and as many as the first byte says.
LEMMA LevelsType ==
  ASSUME NEW s \in Seq(Byte), PathIn(s)
  PROVE  s[1] \in 0..5 /\ LevelsIn(s) \in Seq(Seq(Byte)) /\ Len(LevelsIn(s)) = s[1]
<1> DEFINE k == s[1]
<1>1. k \in 0..5 /\ k \in Nat /\ 4 * k + 1 <= Len(s) /\ Len(s) \in Nat
  <2>1. Len(s) \in Nat /\ 1 \in 1..Len(s)
    BY LenProperties DEF PathIn
  <2>2. k \in Byte
    BY <2>1, ElementOfSeq
  <2>3. k <= 5 /\ 4 * k + 1 <= Len(s)
    BY DEF PathIn, MAX_BIP32_PATH
  <2> DEFINE l == Len(s)
  <2> HIDE DEF k, l
  <2>4. k \in 0..5 /\ k \in Nat
    BY <2>2, <2>3 DEF Byte
  <2> QED BY <2>1, <2>3, <2>4
<1> HIDE DEF k
<1>2. ASSUME NEW i \in 1..k
      PROVE  SubSeq(s, 4 * i - 2, 4 * i + 1) \in Seq(Byte)
  <2> DEFINE m == 4 * i - 2
             n == 4 * i + 1
  <2>1. m \in Int /\ n \in Int /\ m..n \subseteq 1..Len(s)
    BY <1>1
  <2> HIDE DEF m, n
  <2>2. \A j \in m..n : s[j] \in Byte
    BY <2>1, ElementOfSeq
  <2>3. SubSeq(s, m, n) \in Seq(Byte)
    BY <2>1, <2>2, SubSeqProperties
  <2> QED BY <2>3 DEF m, n
<1>3. LevelsIn(s) \in [1..k -> Seq(Byte)]
  BY <1>2 DEF LevelsIn, k
<1>4. LevelsIn(s) \in Seq(Seq(Byte)) /\ Len(LevelsIn(s)) = k
  BY <1>1, <1>3, ListOf
<1> QED BY <1>1, <1>4 DEF k

\* Bytes with a length in front, as a path (bip32.c:10-44).
LEMMA PathReadIs ==
  ASSUME NEW s \in Seq(Byte)
  PROVE  bip32_path_read(s) = IF PathIn(s)
                              THEN [ok |-> Accepted(LevelsIn(s)), path |-> LevelsIn(s)]
                              ELSE [ok |-> FALSE, path |-> <<>>]
<1>1. Len(s) \in Nat
  BY LenProperties
<1>2. CASE PathIn(s)
  <2>1. s[1] \in 0..5
    BY <1>1, <1>2, LevelsType
  <2>2. ~(Len(s) < 1) /\ ~(s[1] > MAX_BIP32_PATH) /\ ~(4 * s[1] + 1 > Len(s))
    <3> DEFINE l == Len(s)
    <3>1. l \in Nat /\ l >= 1 /\ 4 * s[1] + 1 <= l /\ s[1] <= 5
      BY <1>1, <1>2, <2>1 DEF PathIn, MAX_BIP32_PATH
    <3> HIDE DEF l
    <3>2. ~(l < 1) /\ ~(s[1] > 5) /\ ~(4 * s[1] + 1 > l)
      BY <2>1, <3>1
    <3> QED BY <3>2 DEF l, MAX_BIP32_PATH
  <2> QED BY <1>2, <2>2 DEF bip32_path_read, LevelsIn
<1>3. CASE ~PathIn(s)
  <2>1. Len(s) < 1 \/ s[1] > MAX_BIP32_PATH \/ 4 * s[1] + 1 > Len(s)
    <3>1. CASE Len(s) >= 1
      <4>1. s[1] \in Byte
        <5>1. 1 \in 1..Len(s)
          BY <1>1, <3>1
        <5> QED BY <1>1, <5>1, ElementOfSeq
      <4> DEFINE l == Len(s)
                 x == s[1]
      <4>2. l \in Nat /\ x \in Byte
        BY <1>1, <4>1
      <4>3. ~(x <= 5) \/ ~(4 * x + 1 <= l)
        BY <1>3, <3>1 DEF PathIn, MAX_BIP32_PATH
      <4> HIDE DEF l, x
      <4>4. x > 5 \/ 4 * x + 1 > l
        BY <4>2, <4>3 DEF Byte
      <4> QED BY <4>4 DEF l, x, MAX_BIP32_PATH
    <3>2. CASE ~(Len(s) >= 1)
      BY <1>1, <3>2
    <3> QED BY <3>1, <3>2
  <2> QED BY <1>3, <2>1 DEF bip32_path_read
<1> QED BY <1>2, <1>3

\* What reading a path returns.
LEMMA PathIs ==
  ASSUME NEW b \in Buffer, NEW s, s = LeftBytes(b)
  PROVE  LET r == buffer_read_bip32_path(b)
             taken == Take(b, 4 * s[1] + 1)
         IN /\ PathOk(s) => taken.ok /\ r.ok /\ r.value = LevelsIn(s) /\ r.buf = taken.buf
            /\ ~PathOk(s) => r = Fails(b)
<1> DEFINE k == s[1]
           n == 4 * k + 1
           t == 1 + 4 * k
           q == bip32_path_read(s)
           path == LevelsIn(s)
           r == buffer_read_bip32_path(b)
           taken == Take(b, n)
<1>1. s \in Seq(Byte) /\ Len(s) = Left(b) /\ Left(b) \in Nat
  BY LeftLen
<1>2. q = IF PathIn(s) THEN [ok |-> Accepted(path), path |-> path] ELSE [ok |-> FALSE, path |-> <<>>]
  BY <1>1, PathReadIs
<1>3. r = IF ~q.ok THEN Fails(b) ELSE [buffer_seek_cur(b, 1 + 4 * Len(q.path)) EXCEPT !.value = q.path]
  BY DEF buffer_read_bip32_path
<1>4. CASE PathOk(s)
  <2>1. PathIn(s) /\ Accepted(path)
    BY <1>4 DEF PathOk
  <2>2. k \in 0..5 /\ Len(path) = k /\ 4 * k + 1 <= Len(s)
    BY <1>1, <2>1, LevelsType DEF PathIn
  <2>3. q.ok /\ q.path = path
    BY <1>2, <2>1
  <2> HIDE DEF q, path
  <2>4. r = [buffer_seek_cur(b, t) EXCEPT !.value = path]
    BY <1>3, <2>2, <2>3
  <2>5. t = n /\ n \in Nat /\ n <= Left(b)
    BY <1>1, <2>2
  <2> HIDE DEF k, n, t
  <2>6. /\ taken = [buffer_seek_cur(b, n) EXCEPT !.value = SubSeq(b.ptr, b.offset + 1, b.offset + n)]
        /\ Reads(b, taken, n)
    BY <1>1, <2>5, TakeReads DEF Take, buffer_can_read
  <2>7. n \in Sizes
    BY <2>5, BufferFields, SizeModAssumption DEF Sizes
  <2>8. buffer_seek_cur(b, n) = Seek(b, b.offset + n)
    BY <2>5, <2>7, SeekCurIs
  <2>9. taken.ok /\ r.ok /\ r.value = path /\ r.buf = taken.buf
    BY <2>4, <2>5, <2>6, <2>8 DEF Seek
  <2> QED BY <1>4, <2>9 DEF n, k, path
<1>5. CASE ~PathOk(s)
  <2>1. ~q.ok
    BY <1>2, <1>5 DEF PathOk
  <2> QED BY <1>3, <1>5, <2>1
<1> QED BY <1>4, <1>5

\* The bytes of a path, and where those of a level are.
LEMMA PathBytes ==
  ASSUME NEW p \in Seq(Levels)
  PROVE  /\ BytesOf(p) \in Seq(Byte) /\ Len(BytesOf(p)) = 4 * Len(p)
         /\ \A i \in 1..Len(p) : \E a \in Seq(Byte), c \in Seq(Byte) :
              BytesOf(p) = a \o (p[i] \o c) /\ Len(a) = 4 * (i - 1)
<1> DEFINE n == Len(p)
<1>1. n \in Nat /\ p \in [1..n -> Levels] /\ \A i \in 1..n : p[i] \in Seq(Byte) /\ Len(p[i]) = 4
  <2>1. n \in Nat /\ \A i \in 1..n : p[i] \in Levels
    BY LenProperties, ElementOfSeq
  <2>2. p \in [1..n -> Levels]
    BY LenProperties
  <2> QED BY <2>1, <2>2 DEF Levels
<1> HIDE DEF n
<1>2. p \in [1..n -> Seq(Byte)]
  BY <1>1
<1>3. PICK g : Flattening(g, p, n)
  BY <1>1, <1>2, FlatteningExists
<1>4. /\ g \in [0..n -> Seq(Byte)] /\ g[0] = <<>>
      /\ \A i \in 1..n : g[i] = g[i - 1] \o p[i]
  BY <1>3 DEF Flattening
<1>5. BytesOf(p) = g[n]
  BY <1>1, <1>2, <1>3, FlattenAll DEF BytesOf
<1>6. \A i \in 0..n : Len(g[i]) = 4 * i
  <2> DEFINE T == {i \in 0..n : Len(g[i]) = 4 * i}
  <2>1. 0 \in T
    BY <1>1, <1>4
  <2>2. ASSUME NEW i \in 0..(n - 1), i \in T
        PROVE  i + 1 \in T
    <3> DEFINE j == i + 1
    <3>1. j \in 1..n /\ j - 1 = i /\ j \in 0..n /\ 4 * j = 4 * i + 4
      BY <1>1
    <3>2. Len(g[i]) = 4 * i /\ i \in 0..n
      BY <2>2
    <3> HIDE DEF j
    <3>3. g[j] = g[i] \o p[j] /\ g[i] \in Seq(Byte) /\ p[j] \in Seq(Byte) /\ Len(p[j]) = 4
      BY <1>1, <1>4, <3>1, <3>2
    <3>4. Len(g[j]) = 4 * i + 4
      <4>1. String(g[i], 4 * i) /\ String(p[j], 4)
        BY <3>2, <3>3 DEF String
      <4>2. String(g[i] \o p[j], 4 * i + 4)
        BY <4>1, Joined
      <4> QED BY <3>3, <4>2 DEF String
    <3>5. j \in T
      BY <3>1, <3>4
    <3> QED BY <3>5 DEF j
  <2>3. \A i \in 0..n : i \in T
    <3> HIDE DEF T
    <3> QED BY <1>1, <2>1, <2>2, Induction
  <2> QED BY <2>3
<1>7. ASSUME NEW i \in 1..n
      PROVE  \E a \in Seq(Byte), c \in Seq(Byte) :
               BytesOf(p) = a \o (p[i] \o c) /\ Len(a) = 4 * (i - 1)
  <2> DEFINE j == i - 1
  <2>1. i \in 0..n /\ j \in 0..n
    BY <1>1
  <2>2. PICK c \in Seq(Byte) : g[n] = g[i] \o c
    BY <1>1, <1>2, <1>3, <2>1, FlatteningPrefix
  <2>3. g[i] = g[j] \o p[i] /\ g[j] \in Seq(Byte) /\ p[i] \in Seq(Byte) /\ Len(g[j]) = 4 * j
    BY <1>1, <1>4, <1>6, <2>1
  <2> HIDE DEF j
  <2>4. (g[j] \o p[i]) \o c = g[j] \o (p[i] \o c)
    BY <2>3, ConcatThree, ZenonT(20)
  <2>5. BytesOf(p) = g[j] \o (p[i] \o c)
    BY <1>5, <2>2, <2>3, <2>4
  <2> QED BY <2>3, <2>5 DEF j
<1>8. n \in 0..n /\ Len(g[n]) = 4 * n /\ g[n] \in Seq(Byte)
  BY <1>1, <1>4, <1>6
<1> QED BY <1>5, <1>7, <1>8 DEF n

\* A path behind its length is read as it was written.
LEMMA PathWritten ==
  ASSUME NEW p \in Seq(Levels), Len(p) <= MAX_BIP32_PATH, NEW w \in Seq(Byte)
  PROVE  LET s == <<Len(p)>> \o (BytesOf(p) \o w)
         IN s \in Seq(Byte) /\ s[1] = Len(p) /\ PathIn(s) /\ LevelsIn(s) = p
<1> DEFINE k == Len(p)
           h == <<k>>
           x == BytesOf(p)
           s == h \o (x \o w)
<1>1. /\ k \in 0..5 /\ k \in Nat /\ k \in Byte /\ x \in Seq(Byte) /\ Len(x) = 4 * k
      /\ x \o w \in Seq(Byte) /\ Len(x \o w) = 4 * k + Len(w) /\ Len(w) \in Nat
  <2>1. k \in Nat /\ k <= 5
    BY LenProperties DEF MAX_BIP32_PATH
  <2> HIDE DEF k
  <2>2. k \in 0..5 /\ k \in Byte
    BY <2>1 DEF Byte
  <2>3. x \in Seq(Byte) /\ Len(x) = 4 * k
    BY PathBytes DEF k
  <2> HIDE DEF x
  <2> QED BY <2>1, <2>2, <2>3, ConcatProperties, LenProperties
<1>2. h \in Seq(Byte) /\ Len(h) = 1 /\ h[1] = k
  BY <1>1
<1>3. p \in [1..k -> Levels] /\ \A i \in 1..k : p[i] \in Seq(Byte) /\ Len(p[i]) = 4
  <2>1. \A i \in 1..k : p[i] \in Levels
    BY ElementOfSeq
  <2>2. p \in [1..k -> Levels]
    BY LenProperties
  <2> QED BY <2>1, <2>2 DEF Levels
<1>4. \A i \in 1..k : \E a \in Seq(Byte), c \in Seq(Byte) :
        x = a \o (p[i] \o c) /\ Len(a) = 4 * (i - 1)
  BY PathBytes
<1> HIDE DEF k, h, x
<1>5. s \in Seq(Byte) /\ Len(s) = 1 + (4 * k + Len(w)) /\ s[1] = k
  <2> DEFINE y == x \o w
             l == 4 * k + Len(w)
  <2>1. y \in Seq(Byte) /\ Len(y) = l /\ l \in Nat
    BY <1>1
  <2> HIDE DEF y, l
  <2>2. h \o y \in Seq(Byte) /\ Len(h \o y) = 1 + l
    BY <1>2, <2>1, ConcatProperties
  <2>3. (h \o y)[1] = h[1]
    <3>1. \A i \in 1..(Len(h) + Len(y)) : (h \o y)[i] = IF i <= Len(h) THEN h[i] ELSE y[i - Len(h)]
      BY <1>2, <2>1, ConcatProperties
    <3>2. 1 \in 1..(Len(h) + Len(y)) /\ 1 <= Len(h)
      BY <1>2, <2>1
    <3> QED BY <3>1, <3>2
  <2> QED BY <1>2, <2>2, <2>3 DEF y, l
<1>6. PathIn(s)
  <2> HIDE DEF s
  <2>1. Len(s) >= 1 /\ k <= 5 /\ 4 * k + 1 <= Len(s)
    BY <1>1, <1>5
  <2> QED BY <1>5, <2>1 DEF PathIn, MAX_BIP32_PATH
<1>7. ASSUME NEW i \in 1..k
      PROVE  SubSeq(s, 4 * i - 2, 4 * i + 1) = p[i]
  <2> DEFINE m == 4 * i - 2
             n == 4 * i + 1
  <2>1. PICK a \in Seq(Byte), c \in Seq(Byte) : x = a \o (p[i] \o c) /\ Len(a) = 4 * (i - 1)
    BY <1>4
  <2> DEFINE l == p[i]
             y == h \o a
  <2>2. l \in Seq(Byte) /\ Len(l) = 4
    BY <1>3
  <2> HIDE DEF l
  <2>3. y \in Seq(Byte) /\ Len(y) = 1 + 4 * (i - 1) /\ l \o c \in Seq(Byte) /\ c \o w \in Seq(Byte)
    <3>1. String(h, 1) /\ String(a, 4 * (i - 1))
      BY <1>2, <2>1 DEF String
    <3>2. String(y, 1 + 4 * (i - 1))
      BY <3>1, Joined
    <3> QED BY <2>1, <2>2, <3>2, ConcatProperties DEF String
  <2>4. x \o w = a \o (l \o (c \o w))
    <3> DEFINE z == l \o c
    <3>1. x \o w = (a \o z) \o w /\ z \in Seq(Byte)
      BY <2>1, <2>3 DEF l
    <3>2. z \o w = l \o (c \o w)
      BY <2>1, <2>2, ConcatThree, ZenonT(20)
    <3> HIDE DEF z, s, y, m, n
    <3>3. a \o (z \o w) = (a \o z) \o w
      <4>1. a \in Seq(Byte) /\ w \in Seq(Byte)
        BY <1>2, <2>1
      <4> QED BY <4>1, <3>1, ConcatThree, ZenonT(30)
    <3> QED BY <3>1, <3>2, <3>3
  <2>5. s = y \o (l \o (c \o w))
    <3> DEFINE z == l \o (c \o w)
    <3>1. z \in Seq(Byte)
      BY <2>2, <2>3, ConcatProperties
    <3> HIDE DEF z
    <3>2. h \o (a \o z) = (h \o a) \o z
      BY <1>2, <2>1, <3>1, ConcatThree, ZenonT(20)
    <3> QED BY <2>4, <3>2 DEF z
  <2> HIDE DEF y, s
  <2>6. m = Len(y) + 1 /\ n = Len(y) + Len(l)
    BY <1>1, <2>2, <2>3
  <2> HIDE DEF m, n
  <2>7. Between(y, l, m, n)
    BY <2>6 DEF Between
  <2>8. SubSeq(y \o (l \o (c \o w)), m, n) = l
    BY <2>1, <2>2, <2>3, <2>7, MiddlePart
  <2> QED BY <2>5, <2>8 DEF l, m, n
<1> HIDE DEF s
<1>8. LevelsIn(s) = p
  BY <1>3, <1>5, <1>7 DEF LevelsIn
<1> QED BY <1>5, <1>6, <1>8 DEF s, h, x, k

\* A path that is next is read if it is accepted, and then as it was written.
LEMMA PathForward ==
  ASSUME NEW b, NEW p \in Seq(Levels), Len(p) <= MAX_BIP32_PATH, NEW w \in Seq(Byte),
         At(b, <<Len(p)>> \o (BytesOf(p) \o w))
  PROVE  LET r == buffer_read_bip32_path(b)
         IN /\ r.ok <=> Accepted(p)
            /\ r.ok => r.value = p /\ At(r.buf, w)
<1> DEFINE h == <<Len(p)>>
           x == BytesOf(p)
           s == h \o (x \o w)
           v == h \o x
           n == 4 * s[1] + 1
           r == buffer_read_bip32_path(b)
<1>1. b \in Buffer /\ s = LeftBytes(b)
  BY DEF At
<1>2. s \in Seq(Byte) /\ s[1] = Len(p) /\ PathIn(s) /\ LevelsIn(s) = p
  BY PathWritten
<1>3. PathOk(s) <=> Accepted(p)
  BY <1>2 DEF PathOk
<1>4. s[1] \in 0..5 /\ Len(p) \in 0..5
  <2> HIDE DEF s
  <2> QED BY <1>2, LevelsType
<1>5. Ahead(b, v, w) /\ Len(v) = n
  <2>1. x \in Seq(Byte) /\ Len(x) = 4 * Len(p)
    BY PathBytes
  <2>2. h \in Seq(Byte) /\ Len(h) = 1
    <3> DEFINE k == Len(p)
    <3>1. k \in 0..5
      BY <1>4
    <3> HIDE DEF k
    <3>2. <<k>> \in Seq(Byte) /\ Len(<<k>>) = 1
      BY <3>1 DEF Byte
    <3> QED BY <3>2 DEF k
  <2> HIDE DEF h, x
  <2>3. v \in Seq(Byte) /\ Len(v) = 1 + 4 * Len(p) /\ s = v \o w
    <3>1. String(h, 1) /\ String(x, 4 * Len(p))
      BY <2>1, <2>2 DEF String
    <3>2. String(v, 1 + 4 * Len(p))
      BY <3>1, Joined
    <3>3. h \o (x \o w) = (h \o x) \o w
      BY <2>1, <2>2, ConcatThree, ZenonT(20)
    <3> QED BY <3>2, <3>3 DEF String
  <2>4. n = 1 + 4 * Len(p)
    BY <1>2, <1>4
  <2> HIDE DEF v, s
  <2> QED BY <1>1, <1>2, <2>3, <2>4 DEF Ahead, At
<1> HIDE DEF v, s, n
<1>6. /\ PathOk(s) => Take(b, n).ok /\ r.ok /\ r.value = LevelsIn(s) /\ r.buf = Take(b, n).buf
      /\ ~PathOk(s) => r = Fails(b)
  BY <1>1, PathIs DEF n
<1>7. At(Take(b, n).buf, w)
  BY <1>5, TakeForward
<1> HIDE DEF r
<1>8. ~Fails(b).ok
  BY DEF Fails
<1> QED BY <1>2, <1>3, <1>6, <1>7, <1>8 DEF r

\* The same buffer, with more bytes behind.
Longer(b, c, more) == b \in Buffer /\ more \in Seq(Byte) /\ c = Grown(b, more) /\ c \in Buffer

\* More bytes behind are more bytes left.
LEMMA LeftGrown ==
  ASSUME NEW b, NEW c, NEW more, Longer(b, c, more)
  PROVE  LeftBytes(c) = LeftBytes(b) \o more
<1> DEFINE k == b.offset
           h == SubSeq(b.ptr, 1, k)
           s == LeftBytes(b)
           t == LeftBytes(c)
<1>1. /\ b \in Buffer /\ c \in Buffer /\ more \in Seq(Byte)
      /\ b.ptr \in Seq(Byte) /\ c.ptr = b.ptr \o more /\ c.offset = k
      /\ k \in Nat /\ k <= Len(b.ptr) /\ Len(b.ptr) \in Nat
  BY BufferFields DEF Longer, Grown, Sizes
<1>2. /\ c.ptr \in Seq(Byte) /\ Len(c.ptr) = Len(b.ptr) + Len(more) /\ Len(more) \in Nat
  BY <1>1, ConcatProperties, LenProperties
<1>3. ASSUME NEW x \in Seq(Byte), k <= Len(x), Len(x) \in Nat
      PROVE  x = SubSeq(x, 1, k) \o SubSeq(x, k + 1, Len(x))
  <2> DEFINE n == Len(x)
  <2>1. 1 \in 1..(n + 1) /\ k \in (1 - 1)..n /\ n \in k..n
    BY <1>1, <1>3
  <2>2. SubSeq(x, 1, k) \o SubSeq(x, k + 1, n) = SubSeq(x, 1, n)
    BY <2>1, ConcatAdjacentSubSeq
  <2> QED BY <2>2, SubSeqFull
<1>4. b.ptr = h \o s
  BY <1>1, <1>3 DEF LeftBytes, Size
<1>5. c.ptr = SubSeq(c.ptr, 1, k) \o t
  <2>1. k <= Len(c.ptr) /\ Len(c.ptr) \in Nat
    BY <1>1, <1>2
  <2> QED BY <1>1, <1>2, <1>3, <2>1 DEF LeftBytes, Size
<1>6. SubSeq(c.ptr, 1, k) = h
  <2>1. 1 \in Nat \ {0} /\ k \in 0..Len(b.ptr)
    BY <1>1
  <2>2. SubSeq(b.ptr \o more, 1, k) = SubSeq(b.ptr, 1, k)
    BY <1>1, <2>1, GrownSubSeq
  <2> QED BY <1>1, <2>2
<1>7. h \in Seq(Byte)
  <2>1. \A i \in 1..k : b.ptr[i] \in Byte
    <3>1. 1..k \subseteq 1..Len(b.ptr)
      BY <1>1
    <3> QED BY <1>1, <3>1, ElementOfSeq
  <2> QED BY <1>1, <2>1, SubSeqProperties
<1>8. s \in Seq(Byte) /\ t \in Seq(Byte)
  BY <1>1, LeftBytesType
<1> HIDE DEF h, s, t
<1>9. h \o t = h \o (s \o more) /\ s \o more \in Seq(Byte)
  <2>1. c.ptr = (h \o s) \o more
    BY <1>1, <1>4
  <2>2. h \o (s \o more) = (h \o s) \o more
    BY <1>1, <1>7, <1>8, ConcatThree, ZenonT(20)
  <2> QED BY <1>1, <1>5, <1>6, <1>8, <2>1, <2>2, ConcatProperties
<1>10. t = s \o more
  BY <1>7, <1>8, <1>9, SameCut
<1> QED BY <1>10 DEF s, t

\* What is read of a buffer is read of the longer one.
LEMMA TakeLonger ==
  ASSUME NEW b, NEW c, NEW more, Longer(b, c, more), NEW n \in Nat, Take(b, n).ok
  PROVE  /\ Take(c, n).ok /\ Take(c, n).value = Take(b, n).value
         /\ Longer(Take(b, n).buf, Take(c, n).buf, more)
BY TakeGrown DEF Longer

\* One byte.
LEMMA U8Longer ==
  ASSUME NEW b, NEW c, NEW more, Longer(b, c, more), U8(b).ok
  PROVE  U8(c).ok /\ U8(c).value = U8(b).value /\ Longer(U8(b).buf, U8(c).buf, more)
BY TakeLonger DEF U8, ReadInt

\* A path that was read of a buffer is read of the longer one.
LEMMA PathLonger ==
  ASSUME NEW b, NEW c, NEW more, Longer(b, c, more), buffer_read_bip32_path(b).ok
  PROVE  LET r == buffer_read_bip32_path(b)
             g == buffer_read_bip32_path(c)
         IN g.ok /\ g.value = r.value /\ Longer(r.buf, g.buf, more)
<1> DEFINE s == LeftBytes(b)
           t == LeftBytes(c)
           r == buffer_read_bip32_path(b)
           g == buffer_read_bip32_path(c)
           n == 4 * s[1] + 1
<1>1. b \in Buffer /\ c \in Buffer /\ more \in Seq(Byte)
  BY DEF Longer
<1>2. s \in Seq(Byte) /\ t = s \o more
  BY <1>1, LeftGrown, LeftBytesType
<1>3. PathOk(s)
  BY <1>1, PathIs DEF Fails
<1>4. s[1] \in 0..5
  BY <1>2, <1>3, LevelsType DEF PathOk
<1>5. Len(s) \in Nat /\ Len(s) >= 1 /\ n <= Len(s) /\ n \in Nat
  BY <1>2, <1>3, <1>4, LenProperties DEF PathOk, PathIn
<1>6. Take(b, n).ok /\ r.value = LevelsIn(s) /\ r.buf = Take(b, n).buf
  BY <1>1, <1>3, PathIs
<1> HIDE DEF s, n
<1>7. t[1] = s[1] /\ Len(t) = Len(s) + Len(more) /\ Len(more) \in Nat
  BY <1>1, <1>2, <1>5, ConcatProperties, LenProperties
<1> HIDE DEF t
<1>8. PathIn(t)
  <2>1. s[1] <= MAX_BIP32_PATH /\ n <= Len(t) /\ Len(t) >= 1
    BY <1>3, <1>5, <1>7 DEF PathOk, PathIn
  <2> QED BY <1>7, <2>1 DEF PathIn, n
<1>9. LevelsIn(t) = LevelsIn(s)
  <2>1. ASSUME NEW i \in 1..s[1]
        PROVE  SubSeq(t, 4 * i - 2, 4 * i + 1) = SubSeq(s, 4 * i - 2, 4 * i + 1)
    <3> DEFINE m == 4 * i - 2
               k == 4 * i + 1
    <3>1. m \in Nat \ {0} /\ k \in 0..Len(s)
      BY <1>4, <1>5 DEF n
    <3> HIDE DEF m, k
    <3>2. SubSeq(t, m, k) = SubSeq(s, m, k)
      BY <1>1, <1>2, <3>1, GrownSubSeq
    <3> QED BY <3>2 DEF m, k
  <2> QED BY <1>7, <2>1 DEF LevelsIn
<1>10. PathOk(t)
  BY <1>3, <1>8, <1>9 DEF PathOk
<1>11. g.ok /\ g.value = LevelsIn(t) /\ g.buf = Take(c, n).buf
  BY <1>1, <1>7, <1>10, PathIs DEF t, n
<1>12. Longer(Take(b, n).buf, Take(c, n).buf, more)
  BY <1>5, <1>6, TakeLonger
<1> QED BY <1>6, <1>9, <1>11, <1>12

-----------------------------------------------------------------------------
(* Entries of the change info.                                              *)

\* An entry as a host can send it.
EntryFields(c) ==
  /\ c.index \in Byte /\ c.path \in Seq(Levels) /\ Len(c.path) <= MAX_BIP32_PATH
  /\ c = [index |-> c.index, path |-> c.path]

\* An entry that is next is read if its path is accepted, and then as it was
\* written (sign_tx.c:78-90).
LEMMA EntryForward ==
  ASSUME NEW b, NEW c, EntryFields(c), NEW w \in Seq(Byte), At(b, EncodeEntry(c) \o w)
  PROVE  LET r == Entry(b)
         IN /\ r.ok <=> Accepted(c.path)
            /\ r.ok => r.value = c /\ At(r.buf, w)
<1> DEFINE h == <<c.index>>
           k == <<Len(c.path)>>
           x == BytesOf(c.path)
           y == k \o (x \o w)
           u == U8(b)
           p == buffer_read_bip32_path(u.buf)
           r == Entry(b)
<1>1. x \in Seq(Byte) /\ h \in Seq(Byte) /\ k \in Seq(Byte)
  <2>1. x \in Seq(Byte)
    BY PathBytes DEF EntryFields
  <2>2. h \in Seq(Byte)
    BY DEF EntryFields
  <2> DEFINE l == Len(c.path)
  <2>3. l \in Nat /\ l <= 5
    BY LenProperties DEF EntryFields, MAX_BIP32_PATH
  <2> HIDE DEF l
  <2>4. <<l>> \in Seq(Byte)
    BY <2>3 DEF Byte
  <2> QED BY <2>1, <2>2, <2>4 DEF l
<1>2. EncodeEntry(c) = h \o (k \o x)
  BY DEF EncodeEntry
<1> HIDE DEF h, k, x
<1>3. y \in Seq(Byte) /\ EncodeEntry(c) \o w = h \o y
  <2>1. x \o w \in Seq(Byte) /\ k \o x \in Seq(Byte)
    BY <1>1, ConcatProperties
  <2>2. (h \o (k \o x)) \o w = h \o ((k \o x) \o w)
    BY <1>1, <2>1, ConcatThree, SMTT(60)
  <2>3. (k \o x) \o w = k \o (x \o w)
    BY <1>1, ConcatThree, ZenonT(20)
  <2> QED BY <1>1, <1>2, <2>1, <2>2, <2>3, ConcatProperties
<1>4. Ahead(b, h, y)
  BY <1>1, <1>3 DEF Ahead
<1>5. u.ok /\ u.value[1] = c.index /\ At(u.buf, y)
  <2>1. c.index \in Byte
    BY DEF EntryFields
  <2> HIDE DEF y
  <2> QED BY <1>4, <2>1, U8Forward DEF h
<1>6. /\ p.ok <=> Accepted(c.path)
      /\ p.ok => p.value = c.path /\ At(p.buf, w)
  <2>1. c.path \in Seq(Levels) /\ Len(c.path) <= MAX_BIP32_PATH
    BY DEF EntryFields
  <2> HIDE DEF u
  <2> QED BY <1>5, <2>1, PathForward DEF k, x
<1>7. r = [ok |-> u.ok /\ p.ok, buf |-> p.buf,
           value |-> IF u.ok THEN [index |-> u.value[1], path |-> p.value] ELSE <<>>]
  BY DEF Entry
<1> HIDE DEF u, p, r, y
<1>8. /\ r.ok <=> u.ok /\ p.ok
      /\ r.buf = p.buf
      /\ u.ok => r.value = [index |-> u.value[1], path |-> p.value]
  BY <1>7
<1>9. c = [index |-> c.index, path |-> c.path]
  BY DEF EntryFields
<1> QED BY <1>5, <1>6, <1>8, <1>9 DEF r

\* An entry that was read of a buffer is read of the longer one.
LEMMA EntryLonger ==
  ASSUME NEW b, NEW c, NEW more, Longer(b, c, more), Entry(b).ok
  PROVE  LET r == Entry(b)
             g == Entry(c)
         IN g.ok /\ g.value = r.value /\ Longer(r.buf, g.buf, more)
<1> DEFINE u == U8(b)
           v == U8(c)
           p == buffer_read_bip32_path(u.buf)
           q == buffer_read_bip32_path(v.buf)
           r == Entry(b)
           g == Entry(c)
<1>1. r = [ok |-> u.ok /\ p.ok, buf |-> p.buf,
           value |-> IF u.ok THEN [index |-> u.value[1], path |-> p.value] ELSE <<>>]
  BY DEF Entry
<1>2. g = [ok |-> v.ok /\ q.ok, buf |-> q.buf,
           value |-> IF v.ok THEN [index |-> v.value[1], path |-> q.value] ELSE <<>>]
  BY DEF Entry
<1>3. r.ok
  OBVIOUS
<1> HIDE DEF r, g
<1>4. u.ok /\ p.ok
  <2> HIDE DEF u, p
  <2> QED BY <1>1, <1>3
<1>5. v.ok /\ v.value = u.value /\ Longer(u.buf, v.buf, more)
  BY <1>4, U8Longer
<1> HIDE DEF u, v
<1>6. q.ok /\ q.value = p.value /\ Longer(p.buf, q.buf, more)
  BY <1>4, <1>5, PathLonger
<1> HIDE DEF p, q
<1>7. g.ok /\ g.value = r.value /\ r.buf = p.buf /\ g.buf = q.buf
  BY <1>1, <1>2, <1>4, <1>5, <1>6
<1> QED BY <1>6, <1>7 DEF r, g

\* Wherever a read leaves off, it is in the buffer.
LEMMA TakeType ==
  ASSUME NEW b \in Buffer, NEW n \in Nat
  PROVE  Take(b, n).buf \in Buffer /\ Take(b, n).ok \in BOOLEAN
<1>1. CASE n <= Left(b)
  <2>1. n \in Sizes
    BY <1>1, BufferFields, SizeModAssumption DEF Sizes
  <2>2. Take(b, n).ok = TRUE
    BY <1>1, <2>1, TakeIs
  <2> QED BY <1>1, <2>2, TakeReads DEF Reads
<1>2. CASE ~(n <= Left(b))
  <2>1. Take(b, n) = Fails(b)
    BY <1>2, TakeReads
  <2>2. Fails(b).buf = b /\ Fails(b).ok = FALSE
    BY DEF Fails
  <2> QED BY <2>1, <2>2
<1> QED BY <1>1, <1>2

\* Wherever the read of an entry leaves off, it is in the buffer.
LEMMA EntryType ==
  ASSUME NEW b \in Buffer
  PROVE  Entry(b).buf \in Buffer
<1> DEFINE u == U8(b)
           s == LeftBytes(u.buf)
           n == 4 * s[1] + 1
           p == buffer_read_bip32_path(u.buf)
<1>1. u.buf \in Buffer
  BY TakeType DEF U8, ReadInt
<1> HIDE DEF u
<1>2. p.buf \in Buffer
  <2>1. CASE PathOk(s)
    <3>1. s \in Seq(Byte)
      BY <1>1, LeftBytesType
    <3> HIDE DEF s
    <3>2. s[1] \in 0..5
      BY <2>1, <3>1, LevelsType DEF PathOk
    <3>3. n \in Nat
      BY <3>2
    <3> HIDE DEF n
    <3>4. p.buf = Take(u.buf, n).buf
      BY <1>1, <2>1, PathIs DEF s, n
    <3> QED BY <1>1, <3>3, <3>4, TakeType
  <2>2. CASE ~PathOk(s)
    <3>1. p = Fails(u.buf)
      BY <1>1, <2>2, PathIs
    <3> QED BY <1>1, <3>1 DEF Fails
  <2> QED BY <2>1, <2>2
<1> QED BY <1>2 DEF Entry, u

\* The entries, one read after the other.
Entering(read, n, b) ==
  /\ read[0] = [ok |-> TRUE, buf |-> b, change |-> <<>>]
  /\ \A i \in 1..n : read[i] = [ok |-> read[i - 1].ok /\ Entry(read[i - 1].buf).ok,
                                buf |-> Entry(read[i - 1].buf).buf,
                                change |-> Append(read[i - 1].change, Entry(read[i - 1].buf).value)]

\* There is such a function for every number of entries.
LEMMA EnteringExists ==
  ASSUME NEW n \in Nat, NEW b \in Buffer
  PROVE  \E f : f = [i \in 0..n |-> f[i]] /\ Entering(f, n, b)
<1> DEFINE X == {Entry(c).value : c \in Buffer}
           Type == [ok : BOOLEAN, buf : Buffer, change : Seq(X)]
           base == [ok |-> TRUE, buf |-> b, change |-> <<>>]
           After(s) == [ok |-> s.ok /\ Entry(s.buf).ok, buf |-> Entry(s.buf).buf,
                        change |-> Append(s.change, Entry(s.buf).value)]
           Step == [e \in (1..n) \X Type |-> After(e[2])]
<1>1. base \in Type
  <2> HIDE DEF X
  <2>1. <<>> \in Seq(X)
    OBVIOUS
  <2> QED BY <2>1
<1>2. ASSUME NEW s \in Type PROVE After(s) \in Type
  <2>1. s.buf \in Buffer /\ s.change \in Seq(X)
    OBVIOUS
  <2>2. Entry(s.buf).value \in X /\ Entry(s.buf).buf \in Buffer
    BY <2>1, EntryType
  <2> HIDE DEF X
  <2>3. Append(s.change, Entry(s.buf).value) \in Seq(X)
    BY <2>1, <2>2, AppendProperties
  <2>4. (s.ok /\ Entry(s.buf).ok) \in BOOLEAN
    OBVIOUS
  <2> QED BY <2>2, <2>3, <2>4
<1> HIDE DEF base
<1>3. \A i \in 1..n, s \in Type : Step[<<i, s>>] = After(s)
  <2> HIDE DEF Type, After
  <2> QED OBVIOUS
<1>4. IsStep(Step, n, Type)
  <2> HIDE DEF Type, After
  <2>1. \A e \in (1..n) \X Type : After(e[2]) \in Type
    BY <1>2
  <2> QED BY <2>1 DEF IsStep
<1> HIDE DEF Type, Step
<1>5. PICK f : Recursive(f, n, Type, base, Step)
  BY <1>1, <1>4, Recursion
<1>6. f \in [0..n -> Type] /\ f[0] = base /\ \A i \in 1..n : f[i] = Step[<<i, f[i - 1]>>]
  BY <1>5 DEF Recursive
<1>7. ASSUME NEW i \in 1..n PROVE f[i] = After(f[i - 1])
  <2> HIDE DEF After
  <2>1. i - 1 \in 0..n
    OBVIOUS
  <2>2. f[i - 1] \in Type
    BY <1>6, <2>1
  <2> QED BY <1>3, <1>6, <2>2
<1>8. Entering(f, n, b)
  BY <1>6, <1>7 DEF Entering, base
<1>9. f = [i \in 0..n |-> f[i]]
  BY <1>6
<1> QED BY <1>8, <1>9

\* The new protocol: what is read of the entries.
LEMMA NewChangeIs ==
  ASSUME NEW b \in Buffer, U8(b).ok, NEW n, n = U8(b).value[1]
  PROVE  /\ n \in Nat
         /\ \E read : /\ Entering(read, n, U8(b).buf)
                      /\ NewChange(b) = IF n <= TX_MAX_TOKENS + 1 /\ read[n].ok
                                        THEN ChangeRead(OK, read[n].buf, read[n].change)
                                        ELSE TooShort(b)
<1> DEFINE u == U8(b)
           V(f, i) == IF i = 0 THEN [ok |-> u.ok, buf |-> u.buf, change |-> <<>>]
                      ELSE [ok |-> f[i - 1].ok /\ Entry(f[i - 1].buf).ok,
                            buf |-> Entry(f[i - 1].buf).buf,
                            change |-> Append(f[i - 1].change, Entry(f[i - 1].buf).value)]
           Def(f) == f = [i \in 0..n |-> V(f, i)]
           read == CHOOSE f : Def(f)
<1>1. u.ok = TRUE /\ u.buf \in Buffer
  BY TakeType DEF U8, ReadInt
<1>2. n \in Nat
  <2>1. U8(b).value[1] \in Byte
    BY U8Reads
  <2> QED BY <2>1 DEF Byte
<1>3. NewChange(b) = IF n <= TX_MAX_TOKENS + 1 /\ read[n].ok
                     THEN ChangeRead(OK, read[n].buf, read[n].change)
                     ELSE TooShort(b)
  BY SMTT(60) DEF NewChange
<1> HIDE DEF u
<1>4. PICK h : h = [i \in 0..n |-> h[i]] /\ Entering(h, n, u.buf)
  BY <1>1, <1>2, EnteringExists
<1>5. \A f : V(f, 0) = [ok |-> TRUE, buf |-> u.buf, change |-> <<>>]
  BY <1>1
<1>6. \A f : \A i \in 1..n : V(f, i) = [ok |-> f[i - 1].ok /\ Entry(f[i - 1].buf).ok,
                                       buf |-> Entry(f[i - 1].buf).buf,
                                       change |-> Append(f[i - 1].change, Entry(f[i - 1].buf).value)]
  BY <1>2
<1> HIDE DEF V
<1>7. Def(h)
  <2>1. \A i \in 0..n : h[i] = V(h, i)
    <3>1. h[0] = V(h, 0)
      BY <1>4, <1>5 DEF Entering
    <3>2. \A i \in 1..n : h[i] = V(h, i)
      BY <1>4, <1>6 DEF Entering
    <3>3. 0..n = {0} \cup 1..n
      BY <1>2
    <3> QED BY <3>1, <3>2, <3>3
  <2> QED BY <1>4, <2>1
<1>8. Def(read)
  <2> HIDE DEF Def
  <2> QED BY <1>7
<1> HIDE DEF read
<1>9. Entering(read, n, u.buf)
  <2>1. \A i \in 0..n : read[i] = V(read, i)
    BY <1>8
  <2>2. 0 \in 0..n /\ 1..n \subseteq 0..n
    BY <1>2
  <2>3. read[0] = [ok |-> TRUE, buf |-> u.buf, change |-> <<>>]
    BY <1>5, <2>1, <2>2
  <2>4. ASSUME NEW i \in 1..n
        PROVE  read[i] = [ok |-> read[i - 1].ok /\ Entry(read[i - 1].buf).ok,
                          buf |-> Entry(read[i - 1].buf).buf,
                          change |-> Append(read[i - 1].change, Entry(read[i - 1].buf).value)]
    BY <1>6, <2>1, <2>2
  <2> QED BY <2>3, <2>4 DEF Entering
<1> QED BY <1>2, <1>3, <1>9 DEF u

\* One more entry.
LEMMA EnteringStep ==
  ASSUME NEW n \in Nat, NEW b, NEW f, Entering(f, n, b), NEW j \in 1..n
  PROVE  LET before == f[j - 1]
             e == Entry(before.buf)
         IN /\ f[j].ok <=> before.ok /\ e.ok
            /\ f[j].buf = e.buf /\ f[j].change = Append(before.change, e.value)
<1> DEFINE x == f[j]
           y == f[j - 1]
           e == Entry(y.buf)
<1>1. x = [ok |-> y.ok /\ e.ok, buf |-> e.buf, change |-> Append(y.change, e.value)]
  BY DEF Entering
<1> HIDE DEF x, y, e
<1>2. /\ x.ok <=> y.ok /\ e.ok
      /\ x.buf = e.buf /\ x.change = Append(y.change, e.value)
  BY <1>1
<1> QED BY <1>2 DEF x, y, e

\* What is read of the entries is read of the longer buffer.
LEMMA EnteringLonger ==
  ASSUME NEW n \in Nat, NEW b, NEW c, NEW more, Longer(b, c, more),
         NEW f, Entering(f, n, b), NEW g, Entering(g, n, c), f[n].ok
  PROVE  g[n].ok /\ Longer(f[n].buf, g[n].buf, more)
<1> DEFINE T == {i \in 0..n : f[i].ok => g[i].ok /\ Longer(f[i].buf, g[i].buf, more)}
<1>1. 0 \in T
  BY DEF Entering
<1>2. ASSUME NEW i \in 0..(n - 1), i \in T
      PROVE  i + 1 \in T
  <2> DEFINE j == i + 1
  <2>1. j \in 1..n /\ j \in 0..n /\ j - 1 = i
    OBVIOUS
  <2> HIDE DEF j
  <2> DEFINE x == Entry(f[i].buf)
             y == Entry(g[i].buf)
  <2>2. /\ f[j].ok <=> f[i].ok /\ x.ok
        /\ f[j].buf = x.buf
        /\ g[j].ok <=> g[i].ok /\ y.ok
        /\ g[j].buf = y.buf
    BY <2>1, EnteringStep
  <2>3. f[i].ok /\ x.ok /\ Longer(f[i].buf, g[i].buf, more) => y.ok /\ Longer(x.buf, y.buf, more)
    BY EntryLonger
  <2> HIDE DEF x, y
  <2>4. ASSUME f[j].ok PROVE g[j].ok /\ Longer(f[j].buf, g[j].buf, more)
    BY <1>2, <2>2, <2>3, <2>4
  <2>5. j \in T
    BY <2>1, <2>4
  <2> QED BY <2>5 DEF j
<1>3. \A i \in 0..n : i \in T
  <2> HIDE DEF T
  <2> QED BY <1>1, <1>2, Induction
<1>4. n \in T
  <2> HIDE DEF T
  <2>1. n \in 0..n
    OBVIOUS
  <2> QED BY <1>3, <2>1
<1> QED BY <1>4

\* The change info as a host can send it.
ChangeFields(cs) ==
  /\ cs \in Seq([index : Byte, path : Seq(Levels)]) /\ Len(cs) \in Byte
  /\ \A k \in DOMAIN cs : Len(cs[k].path) <= MAX_BIP32_PATH

AllAccepted(cs, i) == \A k \in 1..i : Accepted(cs[k].path)

\* Each entry of a change info can be sent, and is bytes.
LEMMA EntryOf ==
  ASSUME NEW cs, ChangeFields(cs), NEW k \in 1..Len(cs)
  PROVE  EntryFields(cs[k]) /\ EncodeEntry(cs[k]) \in Seq(Byte)
<1> DEFINE c == cs[k]
           l == Len(c.path)
<1>1. c \in [index : Byte, path : Seq(Levels)] /\ l <= 5
  <2>1. DOMAIN cs = 1..Len(cs)
    BY LenProperties DEF ChangeFields
  <2> QED BY <2>1, ElementOfSeq DEF ChangeFields, MAX_BIP32_PATH
<1> HIDE DEF c
<1>2. EntryFields(c)
  BY <1>1 DEF EntryFields, MAX_BIP32_PATH
<1>3. l \in Nat
  BY <1>1, LenProperties
<1>4. BytesOf(c.path) \in Seq(Byte)
  BY <1>1, PathBytes
<1> HIDE DEF l
<1>5. <<l>> \in Seq(Byte) /\ <<c.index>> \in Seq(Byte)
  BY <1>1, <1>3 DEF Byte
<1>6. EncodeEntry(c) \in Seq(Byte)
  BY <1>4, <1>5, ConcatProperties DEF EncodeEntry, l
<1> QED BY <1>2, <1>6 DEF c

\* The entries are read as they were written, up to a path that is not accepted.
LEMMA EntriesForward ==
  ASSUME NEW cs, ChangeFields(cs), NEW b, NEW w \in Seq(Byte), At(b, EncodeEntries(cs) \o w),
         NEW f, Entering(f, Len(cs), b)
  PROVE  LET n == Len(cs)
         IN /\ f[n].ok <=> AllAccepted(cs, n)
            /\ f[n].ok => f[n].change = cs /\ At(f[n].buf, w)
<1> DEFINE n == Len(cs)
           S == [index : Byte, path : Seq(Levels)]
           parts == [k \in 1..n |-> EncodeEntry(cs[k])]
<1>1. n \in Nat /\ cs \in Seq(S) /\ DOMAIN cs = 1..n
  BY LenProperties DEF ChangeFields
<1> HIDE DEF S
<1>2. \A k \in 1..n : EntryFields(cs[k]) /\ EncodeEntry(cs[k]) \in Seq(Byte)
  BY EntryOf
<1>3. parts \in [1..n -> Seq(Byte)] /\ \A k \in 1..n : parts[k] = EncodeEntry(cs[k])
  BY <1>2
<1>4. EncodeEntries(cs) = FlattenSeq(parts)
  BY <1>1 DEF EncodeEntries
<1>5. Entering(f, n, b) /\ SubSeq(cs, 1, n) = cs /\ n = Len(cs)
  BY <1>1, SubSeqFull
<1> HIDE DEF parts, n
<1>6. PICK g : Flattening(g, parts, n)
  BY <1>1, <1>3, FlatteningExists
<1>7. /\ g \in [0..n -> Seq(Byte)] /\ g[0] = <<>>
      /\ \A i \in 1..n : g[i] = g[i - 1] \o parts[i]
  BY <1>6 DEF Flattening
<1>8. EncodeEntries(cs) = g[n] /\ g[n] \in Seq(Byte)
  <2>1. n \in 0..n
    BY <1>1
  <2>2. FlattenSeq(parts) = g[n]
    BY <1>1, <1>3, <1>6, FlattenAll
  <2> QED BY <1>4, <1>7, <2>1, <2>2
<1>14. ASSUME NEW i \in 0..n
       PROVE  \E u \in Seq(Byte) : g[n] = g[i] \o u
  <2>1. n \in Nat /\ parts \in [1..n -> Seq(Byte)]
    BY <1>1, <1>3
  <2> QED BY <1>6, <2>1, FlatteningPrefix, ZenonT(30)
<1> DEFINE Good(i) == /\ f[i].ok <=> AllAccepted(cs, i)
                      /\ f[i].ok => /\ f[i].change = SubSeq(cs, 1, i)
                                    /\ \E t \in Seq(Byte) : At(f[i].buf, t) /\ g[i] \o t = g[n] \o w
           T == {i \in 0..n : Good(i)}
<1>9. Good(0)
  <2>1. f[0].ok = TRUE /\ f[0].buf = b /\ f[0].change = <<>>
    BY <1>5 DEF Entering
  <2>2. AllAccepted(cs, 0)
    BY DEF AllAccepted
  <2>3. SubSeq(cs, 1, 0) = <<>>
    BY SubSeqEmpty
  <2>4. g[n] \o w \in Seq(Byte) /\ g[0] \o (g[n] \o w) = g[n] \o w
    BY <1>7, <1>8, ConcatProperties, ConcatEmptySeq
  <2>5. At(f[0].buf, g[n] \o w)
    BY <1>8, <2>1
  <2> QED BY <2>1, <2>2, <2>3, <2>4, <2>5
<1>10. ASSUME NEW i \in 0..(n - 1), Good(i)
      PROVE  Good(i + 1)
  <2> DEFINE j == i + 1
             c == cs[j]
             e == parts[j]
             x == Entry(f[i].buf)
  <2>1. j \in 1..n /\ j - 1 = i /\ i \in 0..n /\ j \in 0..n
    BY <1>1
  <2> HIDE DEF j
  <2>2. /\ f[j].ok <=> f[i].ok /\ x.ok
        /\ f[j].buf = x.buf /\ f[j].change = Append(f[i].change, x.value)
    BY <1>1, <1>5, <2>1, EnteringStep
  <2>3. AllAccepted(cs, j) <=> AllAccepted(cs, i) /\ Accepted(c.path)
    <3>1. 1..j = 1..i \cup {j}
      BY <2>1
    <3> QED BY <3>1 DEF AllAccepted
  <2>4. CASE ~f[i].ok
    <3>1. ~f[j].ok
      BY <2>2, <2>4
    <3>2. ~AllAccepted(cs, j)
      BY <1>10, <2>3, <2>4
    <3> QED BY <3>1, <3>2 DEF j
  <2>5. CASE f[i].ok
    <3>1. PICK t \in Seq(Byte) : At(f[i].buf, t) /\ g[i] \o t = g[n] \o w
      BY <1>10, <2>5
    <3>2. PICK u \in Seq(Byte) : g[n] = g[j] \o u
      BY <1>14, <2>1
    <3>3. g[j] = g[i] \o e /\ g[i] \in Seq(Byte) /\ g[j] \in Seq(Byte) /\ e \in Seq(Byte)
      BY <1>3, <1>7, <2>1
    <3>4. e = EncodeEntry(c) /\ EntryFields(c)
      BY <1>2, <1>3, <2>1
    <3> HIDE DEF c, e, x
    <3> DEFINE v == u \o w
               y == g[i]
    <3> DEFINE z == g[j]
    <3>5. v \in Seq(Byte) /\ e \o v \in Seq(Byte)
      BY <3>2, <3>3, ConcatProperties
    <3>6. g[n] \o w = z \o v
      <4>1. z \in Seq(Byte) /\ g[n] = z \o u
        BY <3>2, <3>3
      <4> HIDE DEF z
      <4>2. z \o (u \o w) = (z \o u) \o w
        BY <3>2, <4>1, ConcatThree, ZenonT(20)
      <4> QED BY <4>1, <4>2
    <3> HIDE DEF v
    <3>7. z \o v = y \o (e \o v)
      <4>1. z = y \o e /\ y \in Seq(Byte)
        BY <3>3
      <4> HIDE DEF y, z
      <4>2. y \o (e \o v) = (y \o e) \o v
        BY <3>3, <3>5, <4>1, ConcatThree, ZenonT(20)
      <4> QED BY <4>1, <4>2
    <3>8. y \o t = y \o (e \o v) /\ y \in Seq(Byte)
      BY <3>1, <3>3, <3>6, <3>7
    <3> HIDE DEF y, z
    <3>9. t = e \o v
      BY <3>1, <3>5, <3>8, SameCut
    <3>10. /\ x.ok <=> Accepted(c.path)
           /\ x.ok => x.value = c /\ At(x.buf, v)
      BY <3>1, <3>4, <3>5, <3>9, EntryForward DEF x
    <3>11. f[j].ok <=> AllAccepted(cs, j)
      BY <1>10, <2>2, <2>3, <2>5, <3>10
    <3>12. ASSUME f[j].ok
           PROVE  f[j].change = SubSeq(cs, 1, j) /\ At(f[j].buf, v) /\ z \o v = g[n] \o w
      <4>1. x.ok
        BY <2>2, <3>12
      <4>2. f[j].buf = x.buf /\ f[j].change = Append(SubSeq(cs, 1, i), c)
        BY <1>10, <2>2, <2>5, <3>10, <4>1
      <4>3. Append(SubSeq(cs, 1, i), c) = SubSeq(cs, 1, j)
        <5>1. \A k \in 1..i : cs[k] \in S
          BY <1>1, <2>1, ElementOfSeq
        <5>2. SubSeq(cs, 1, i) \in Seq(S) /\ cs[j] \in S
          BY <1>1, <2>1, <5>1, SubSeqProperties, ElementOfSeq
        <5>3. 1 \in 1..n /\ j \in 1..n /\ j \in 1..j
          BY <1>1, <2>1
        <5>4. SubSeq(cs, 1, j) = SubSeq(cs, 1, j - 1) \o <<cs[j]>>
          BY <1>1, <5>3, SubSeqRecursiveSecond
        <5> QED BY <2>1, <5>2, <5>4, AppendIsConcat DEF c
      <4> QED BY <3>6, <3>10, <4>1, <4>2, <4>3
    <3> QED BY <3>5, <3>11, <3>12 DEF j, z
  <2> QED BY <2>4, <2>5
<1>11. \A i \in 0..n : i \in T
  <2>1. 0 \in T
    <3> HIDE DEF Good
    <3>1. 0 \in 0..n
      BY <1>1
    <3> QED BY <1>9, <3>1
  <2>2. ASSUME NEW i \in 0..(n - 1), i \in T PROVE i + 1 \in T
    <3> HIDE DEF Good
    <3>1. Good(i) /\ i + 1 \in 0..n
      BY <1>1, <2>2
    <3> QED BY <1>10, <3>1
  <2> HIDE DEF T
  <2> QED BY <1>1, <2>1, <2>2, Induction
<1>12. Good(n)
  <2>1. n \in 0..n
    BY <1>1
  <2> HIDE DEF Good
  <2> QED BY <1>11, <2>1
<1>13. f[n].ok => f[n].change = cs /\ At(f[n].buf, w)
  <2>1. SUFFICES ASSUME f[n].ok PROVE f[n].change = cs /\ At(f[n].buf, w)
    OBVIOUS
  <2>2. PICK t \in Seq(Byte) : At(f[n].buf, t) /\ g[n] \o t = g[n] \o w
    BY <1>12, <2>1
  <2>3. t = w
    BY <1>8, <2>2, SameCut
  <2> QED BY <1>5, <1>12, <2>1, <2>2, <2>3
<1> QED BY <1>12, <1>13 DEF n

\* The entries of a change info are bytes.
LEMMA EntriesType ==
  ASSUME NEW cs, ChangeFields(cs)
  PROVE  EncodeEntries(cs) \in Seq(Byte)
<1> DEFINE n == Len(cs)
           parts == [k \in 1..n |-> EncodeEntry(cs[k])]
<1>1. n \in Nat /\ DOMAIN cs = 1..n
  BY LenProperties DEF ChangeFields
<1>2. \A k \in 1..n : EncodeEntry(cs[k]) \in Seq(Byte)
  BY EntryOf
<1> HIDE DEF n
<1>3. parts \in [1..n -> Seq(Byte)]
  BY <1>2
<1>4. EncodeEntries(cs) = FlattenSeq(parts)
  BY <1>1 DEF EncodeEntries
<1> HIDE DEF parts
<1>5. PICK g : Flattening(g, parts, n)
  BY <1>1, <1>3, FlatteningExists
<1>6. g \in [0..n -> Seq(Byte)] /\ n \in 0..n
  BY <1>1, <1>5 DEF Flattening
<1>7. FlattenSeq(parts) = g[n]
  BY <1>1, <1>3, <1>5, FlattenAll
<1> QED BY <1>4, <1>6, <1>7

-----------------------------------------------------------------------------
(* The change info.                                                         *)

\* The new protocol, read as it was written.
LEMMA NewForward ==
  ASSUME NEW cs, ChangeFields(cs), NEW b, NEW w \in Seq(Byte),
         At(b, <<Len(cs)>> \o (EncodeEntries(cs) \o w))
  PROVE  LET r == NewChange(b)
         IN /\ r.sw = "OK" <=> Len(cs) <= TX_MAX_TOKENS + 1 /\ AllAccepted(cs, Len(cs))
            /\ r.sw = "OK" => r.change = cs /\ At(r.buf, w)
            /\ r.sw # "OK" => r.sw = "WRONG_DATA_LENGTH"
<1> DEFINE n == Len(cs)
           u == U8(b)
           x == EncodeEntries(cs) \o w
           r == NewChange(b)
<1>1. n \in Byte /\ n \in Nat /\ b \in Buffer
  BY LenProperties DEF ChangeFields, At
<1>2. x \in Seq(Byte) /\ At(b, <<n>> \o x)
  BY EntriesType, ConcatProperties
<1>3. u.ok /\ u.value[1] = n /\ At(u.buf, x)
  <2> HIDE DEF x, n
  <2>1. <<n>> \in Seq(Byte)
    BY <1>1
  <2>2. Ahead(b, <<n>>, x)
    BY <1>2, <2>1 DEF Ahead
  <2> QED BY <1>1, <2>2, U8Forward
<1>4. PICK f : /\ Entering(f, n, u.buf)
               /\ r = IF n <= TX_MAX_TOKENS + 1 /\ f[n].ok
                      THEN ChangeRead(OK, f[n].buf, f[n].change)
                      ELSE TooShort(b)
  <2> HIDE DEF n
  <2> QED BY <1>1, <1>3, NewChangeIs
<1>5. /\ f[n].ok <=> AllAccepted(cs, n)
      /\ f[n].ok => f[n].change = cs /\ At(f[n].buf, w)
  <2>1. At(u.buf, EncodeEntries(cs) \o w) /\ Entering(f, Len(cs), u.buf)
    BY <1>3, <1>4
  <2> HIDE DEF u
  <2> QED BY <2>1, EntriesForward
<1> HIDE DEF r, n
<1>6. CASE n <= TX_MAX_TOKENS + 1 /\ f[n].ok
  <2>1. r.sw = "OK" /\ r.buf = f[n].buf /\ r.change = f[n].change
    BY <1>4, <1>6 DEF ChangeRead, OK
  <2> QED BY <1>5, <1>6, <2>1 DEF r, n
<1>7. CASE ~(n <= TX_MAX_TOKENS + 1 /\ f[n].ok)
  <2>1. r.sw = "WRONG_DATA_LENGTH"
    BY <1>4, <1>7 DEF ChangeRead, TooShort
  <2> QED BY <1>5, <1>7, <2>1 DEF r, n
<1> QED BY <1>6, <1>7

\* A change info of the new protocol that was read is read of the longer buffer.
LEMMA NewLonger ==
  ASSUME NEW b, NEW c, NEW more, Longer(b, c, more), NewChange(b).sw = "OK"
  PROVE  LET r == NewChange(b)
             g == NewChange(c)
         IN g.sw = "OK" /\ Longer(r.buf, g.buf, more)
<1> DEFINE u == U8(b)
           v == U8(c)
           n == u.value[1]
           r == NewChange(b)
           g == NewChange(c)
<1>1. b \in Buffer /\ c \in Buffer
  BY DEF Longer
<1>2. u.ok
  <2>1. SUFFICES ASSUME ~u.ok PROVE FALSE
    OBVIOUS
  <2> DEFINE Def(f) == f = [i \in 0..0 |->
               IF i = 0 THEN [ok |-> u.ok, buf |-> u.buf, change |-> <<>>]
               ELSE LET before == f[i - 1]
                        e == Entry(before.buf)
                    IN [ok |-> before.ok /\ e.ok, buf |-> e.buf,
                        change |-> Append(before.change, e.value)]]
             h == [i \in 0..0 |-> [ok |-> u.ok, buf |-> u.buf, change |-> <<>>]]
             x == CHOOSE f : Def(f)
  <2>2. r = IF 0 <= TX_MAX_TOKENS + 1 /\ x[0].ok
            THEN ChangeRead(OK, x[0].buf, x[0].change) ELSE TooShort(b)
    BY <2>1 DEF NewChange
  <2> HIDE DEF u
  <2>3. Def(h)
    OBVIOUS
  <2>4. Def(x)
    <3> HIDE DEF Def, h
    <3> QED BY <2>3
  <2>5. x[0] = [ok |-> u.ok, buf |-> u.buf, change |-> <<>>]
    <3>1. 0 \in 0..0
      OBVIOUS
    <3> QED BY <2>4, <3>1, ZenonT(30)
  <2> HIDE DEF x
  <2>6. ~x[0].ok
    BY <2>1, <2>5
  <2>7. r = TooShort(b)
    BY <2>2, <2>6
  <2> QED BY <2>7 DEF TooShort, ChangeRead
<1>3. v.ok /\ v.value = u.value /\ Longer(u.buf, v.buf, more)
  BY <1>2, U8Longer
<1>4. n = v.value[1]
  BY <1>3
<1>5. /\ n \in Nat
      /\ \E f : /\ Entering(f, n, u.buf)
                /\ r = IF n <= TX_MAX_TOKENS + 1 /\ f[n].ok
                       THEN ChangeRead(OK, f[n].buf, f[n].change) ELSE TooShort(b)
  BY <1>1, <1>2, NewChangeIs
<1>6. \E h : /\ Entering(h, n, v.buf)
             /\ g = IF n <= TX_MAX_TOKENS + 1 /\ h[n].ok
                    THEN ChangeRead(OK, h[n].buf, h[n].change) ELSE TooShort(c)
  <2> DEFINE l == v.value[1]
  <2>1. \E h : /\ Entering(h, l, v.buf)
               /\ g = IF l <= TX_MAX_TOKENS + 1 /\ h[l].ok
                      THEN ChangeRead(OK, h[l].buf, h[l].change) ELSE TooShort(c)
    BY <1>1, <1>3, NewChangeIs
  <2>2. l = n
    BY <1>4
  <2> HIDE DEF l, n, u, v, g
  <2> QED BY <2>1, <2>2
<1>7. r.sw = "OK"
  OBVIOUS
<1> HIDE DEF u, v, n, r, g
<1>8. PICK f : /\ Entering(f, n, u.buf)
               /\ r = IF n <= TX_MAX_TOKENS + 1 /\ f[n].ok
                      THEN ChangeRead(OK, f[n].buf, f[n].change) ELSE TooShort(b)
  BY <1>5
<1>9. PICK h : /\ Entering(h, n, v.buf)
               /\ g = IF n <= TX_MAX_TOKENS + 1 /\ h[n].ok
                      THEN ChangeRead(OK, h[n].buf, h[n].change) ELSE TooShort(c)
  BY <1>6
<1>10. n <= TX_MAX_TOKENS + 1 /\ f[n].ok /\ r.buf = f[n].buf
  BY <1>7, <1>8 DEF ChangeRead, TooShort
<1>11. h[n].ok /\ Longer(f[n].buf, h[n].buf, more)
  BY <1>3, <1>5, <1>8, <1>9, <1>10, EnteringLonger
<1>12. g.sw = "OK" /\ g.buf = h[n].buf
  BY <1>9, <1>10, <1>11 DEF ChangeRead, OK
<1> QED BY <1>10, <1>11, <1>12 DEF r, g

\* The old protocol, read as it was written.
LEMMA OldForward ==
  ASSUME NEW c, EntryFields(c), NEW b, NEW w \in Seq(Byte), NEW first, first % 16 = Len(c.path),
         At(b, <<c.index>> \o (BytesOf(c.path) \o w))
  PROVE  LET r == OldChange(first, b)
         IN /\ r.sw = "OK" <=> Accepted(c.path)
            /\ r.sw = "OK" => r.change = <<c>> /\ At(r.buf, w)
            /\ r.sw # "OK" => r.sw = "WRONG_DATA_LENGTH"
<1> DEFINE p == c.path
           k == Len(p)
           x == BytesOf(p)
           y == x \o w
           s == <<k>> \o x
           index == U8(b)
           levels == Take(index.buf, 4 * k)
           path == bip32_path_read(<<k>> \o levels.value)
           r == OldChange(first, b)
<1>1. /\ p \in Seq(Levels) /\ k \in Nat /\ k <= MAX_BIP32_PATH /\ c.index \in Byte
      /\ c = [index |-> c.index, path |-> p]
  BY LenProperties DEF EntryFields
<1>2. r = IF index.ok /\ k <= MAX_BIP32_PATH /\ levels.ok /\ path.ok
          THEN ChangeRead(OK, levels.buf, <<[index |-> index.value[1], path |-> path.path]>>)
          ELSE TooShort(b)
  BY DEF OldChange
<1>3. x \in Seq(Byte) /\ Len(x) = 4 * k /\ y \in Seq(Byte)
  BY <1>1, PathBytes, ConcatProperties
<1>4. s \in Seq(Byte) /\ PathIn(s) /\ LevelsIn(s) = p
  <2>1. <<>> \in Seq(Byte) /\ x \o <<>> = x
    BY <1>3, ConcatEmptySeq
  <2>2. LET z == <<k>> \o (x \o <<>>)
        IN z \in Seq(Byte) /\ z[1] = k /\ PathIn(z) /\ LevelsIn(z) = p
    BY <1>1, <2>1, PathWritten
  <2> HIDE DEF x, k
  <2> QED BY <2>1, <2>2
<1> HIDE DEF r
<1>5. At(b, <<c.index>> \o y)
  OBVIOUS
<1> HIDE DEF x, y, k
<1>6. index.ok /\ index.value[1] = c.index /\ At(index.buf, y)
  <2>1. <<c.index>> \in Seq(Byte)
    BY <1>1
  <2>2. Ahead(b, <<c.index>>, y)
    BY <1>3, <1>5, <2>1 DEF Ahead
  <2> QED BY <1>1, <2>2, U8Forward
<1> HIDE DEF index
<1>7. levels.ok /\ levels.value = x /\ At(levels.buf, w)
  <2>1. Ahead(index.buf, x, w)
    BY <1>3, <1>6 DEF Ahead, y
  <2> QED BY <1>3, <2>1, TakeForward
<1> HIDE DEF levels
<1>8. path = [ok |-> Accepted(p), path |-> p]
  <2>1. path = bip32_path_read(s)
    BY <1>7
  <2> HIDE DEF path, s
  <2> QED BY <1>4, <2>1, PathReadIs
<1> HIDE DEF path, p
<1>9. /\ path.ok <=> Accepted(p)
      /\ path.path = p
  BY <1>8
<1>10. CASE Accepted(p)
  <2>1. r = ChangeRead(OK, levels.buf, <<[index |-> index.value[1], path |-> path.path]>>)
    BY <1>1, <1>2, <1>6, <1>7, <1>9, <1>10
  <2>2. r.sw = "OK" /\ r.buf = levels.buf /\ r.change = <<c>>
    BY <1>1, <1>6, <1>9, <2>1 DEF ChangeRead, OK
  <2> QED BY <1>7, <1>10, <2>2 DEF r, p
<1>11. CASE ~Accepted(p)
  <2>1. r.sw = "WRONG_DATA_LENGTH"
    BY <1>2, <1>9, <1>11 DEF ChangeRead, TooShort
  <2> QED BY <1>11, <2>1 DEF r, p
<1> QED BY <1>10, <1>11

\* So is one of the old protocol.
LEMMA OldLonger ==
  ASSUME NEW b, NEW c, NEW more, Longer(b, c, more), NEW first \in Byte,
         OldChange(first, b).sw = "OK"
  PROVE  LET r == OldChange(first, b)
             g == OldChange(first, c)
         IN g.sw = "OK" /\ Longer(r.buf, g.buf, more)
<1> DEFINE k == first % 16
           n == 4 * k
           i == U8(b)
           j == U8(c)
           l == Take(i.buf, n)
           m == Take(j.buf, n)
           p == bip32_path_read(<<k>> \o l.value)
           q == bip32_path_read(<<k>> \o m.value)
           r == OldChange(first, b)
           g == OldChange(first, c)
<1>1. n \in Nat
  BY DEF Byte
<1>2. r = IF i.ok /\ k <= MAX_BIP32_PATH /\ l.ok /\ p.ok
          THEN ChangeRead(OK, l.buf, <<[index |-> i.value[1], path |-> p.path]>>)
          ELSE TooShort(b)
  BY DEF OldChange
<1>3. g = IF j.ok /\ k <= MAX_BIP32_PATH /\ m.ok /\ q.ok
          THEN ChangeRead(OK, m.buf, <<[index |-> j.value[1], path |-> q.path]>>)
          ELSE TooShort(c)
  BY DEF OldChange
<1>4. r.sw = "OK"
  OBVIOUS
<1>5. i.ok => j.ok /\ j.value = i.value /\ Longer(i.buf, j.buf, more)
  BY U8Longer
<1> HIDE DEF i, j, n, r, g
<1>6. Longer(i.buf, j.buf, more) /\ l.ok => m.ok /\ m.value = l.value /\ Longer(l.buf, m.buf, more)
  BY <1>1, TakeLonger
<1>7. m.value = l.value => q = p
  OBVIOUS
<1> HIDE DEF l, m, p, q
<1>8. i.ok /\ k <= MAX_BIP32_PATH /\ l.ok /\ p.ok
  BY <1>2, <1>4 DEF TooShort, ChangeRead
<1>9. r.buf = l.buf
  BY <1>2, <1>8 DEF ChangeRead
<1>10. g.sw = "OK" /\ g.buf = m.buf
  BY <1>3, <1>5, <1>6, <1>7, <1>8 DEF ChangeRead, OK
<1> QED BY <1>5, <1>6, <1>8, <1>9, <1>10 DEF r, g

\* The first byte tells the protocol (sign_tx.c:144-174).
LEMMA ChangeIs ==
  ASSUME NEW b \in Buffer
  PROVE  LET u == U8(b)
             first == u.value[1]
         IN /\ ~u.ok => read_change_info(b) = TooShort(b)
            /\ u.ok => first \in Byte /\
                 read_change_info(b) = IF first = 0 THEN ChangeRead(OK, u.buf, <<>>)
                                       ELSE IF first >= 128 THEN OldChange(first, u.buf)
                                       ELSE IF first = 1 THEN NewChange(u.buf)
                                       ELSE ChangeRead("INVALID_TX", u.buf, <<>>)
<1> DEFINE u == U8(b)
           first == u.value[1]
<1>1. read_change_info(b) =
        CASE ~u.ok -> TooShort(b)
          [] u.ok /\ first = 0 -> ChangeRead(OK, u.buf, <<>>)
          [] u.ok /\ first >= 128 -> OldChange(first, u.buf)
          [] u.ok /\ first = 1 -> NewChange(u.buf)
          [] OTHER -> ChangeRead("INVALID_TX", u.buf, <<>>)
  BY DEF read_change_info
<1>2. u.ok => first \in Byte
  BY U8Reads
<1> HIDE DEF u
<1>3. CASE ~u.ok
  BY <1>1, <1>3 DEF u
<1>4. CASE u.ok
  <2>1. first \in 0..255
    BY <1>2, <1>4 DEF Byte
  <2> HIDE DEF first
  <2>2. ~(first = 0 /\ first >= 128) /\ ~(first = 0 /\ first = 1) /\ ~(first >= 128 /\ first = 1)
    BY <2>1
  <2> QED BY <1>1, <1>4, <2>1, <2>2 DEF u, first, Byte
<1> QED BY <1>3, <1>4

\* What is read of a change info is read of the longer buffer.
LEMMA ChangeLonger ==
  ASSUME NEW b, NEW c, NEW more, Longer(b, c, more), read_change_info(b).sw = "OK"
  PROVE  LET r == read_change_info(b)
             g == read_change_info(c)
         IN g.sw = "OK" /\ Longer(r.buf, g.buf, more)
<1> DEFINE u == U8(b)
           v == U8(c)
           first == u.value[1]
           r == read_change_info(b)
           g == read_change_info(c)
<1>1. b \in Buffer /\ c \in Buffer /\ r.sw = "OK"
  BY DEF Longer
<1>2. u.ok
  BY <1>1, ChangeIs DEF TooShort, ChangeRead
<1>3. v.ok /\ v.value = u.value /\ Longer(u.buf, v.buf, more)
  BY <1>2, U8Longer
<1>4. /\ first \in Byte
      /\ r = IF first = 0 THEN ChangeRead(OK, u.buf, <<>>)
             ELSE IF first >= 128 THEN OldChange(first, u.buf)
             ELSE IF first = 1 THEN NewChange(u.buf)
             ELSE ChangeRead("INVALID_TX", u.buf, <<>>)
  BY <1>1, <1>2, ChangeIs
<1>5. g = IF first = 0 THEN ChangeRead(OK, v.buf, <<>>)
          ELSE IF first >= 128 THEN OldChange(first, v.buf)
          ELSE IF first = 1 THEN NewChange(v.buf)
          ELSE ChangeRead("INVALID_TX", v.buf, <<>>)
  BY <1>1, <1>3, ChangeIs
<1> HIDE DEF u, v, first, r, g
<1>6. CASE first = 0
  <2>1. r.buf = u.buf /\ g.buf = v.buf /\ g.sw = "OK"
    BY <1>4, <1>5, <1>6 DEF ChangeRead, OK
  <2> QED BY <1>3, <2>1 DEF r, g
<1>7. CASE first # 0 /\ first >= 128
  <2>1. r = OldChange(first, u.buf) /\ g = OldChange(first, v.buf)
    BY <1>4, <1>5, <1>7
  <2>2. g.sw = "OK" /\ Longer(r.buf, g.buf, more)
    BY <1>1, <1>3, <1>4, <2>1, OldLonger
  <2> QED BY <2>2 DEF r, g
<1>8. CASE first # 0 /\ ~(first >= 128)
  <2>1. first = 1
    BY <1>1, <1>4, <1>8 DEF ChangeRead
  <2>2. r = NewChange(u.buf) /\ g = NewChange(v.buf)
    BY <1>4, <1>5, <1>8, <2>1
  <2>3. g.sw = "OK" /\ Longer(r.buf, g.buf, more)
    BY <1>1, <1>3, <2>2, NewLonger
  <2> QED BY <2>3 DEF r, g
<1> QED BY <1>6, <1>7, <1>8

\* A change info as the host writes it: in the new protocol, in the old one if
\* it has one entry, or as a zero if it has none.
IsCode(code, cs) ==
  \/ code = EncodeNew(cs)
  \/ Len(cs) = 1 /\ code = EncodeOld(cs[1])
  \/ cs = <<>> /\ code = <<0>>

\* What is read of a buffer that begins with it.
ReadForward(b, cs, w) ==
  LET r == read_change_info(b)
  IN /\ r.sw = "OK" <=> Len(cs) <= TX_MAX_TOKENS + 1 /\ AllAccepted(cs, Len(cs))
     /\ r.sw = "OK" => r.change = cs /\ At(r.buf, w)
     /\ r.sw # "OK" => r.sw = "WRONG_DATA_LENGTH"

\* A code is a first byte and what follows it.
LEMMA CodeType ==
  ASSUME NEW cs, ChangeFields(cs), NEW code, IsCode(code, cs)
  PROVE  /\ code \in Seq(Byte)
         /\ \E first \in Byte, x \in Seq(Byte) :
              /\ code = <<first>> \o x
              /\ \/ first = 1 /\ x = <<Len(cs)>> \o EncodeEntries(cs)
                 \/ /\ first >= 128 /\ Len(cs) = 1 /\ first % 16 = Len(cs[1].path)
                    /\ x = <<cs[1].index>> \o BytesOf(cs[1].path)
                 \/ first = 0 /\ cs = <<>> /\ x = <<>>
<1>1. ASSUME NEW first \in Byte, NEW x \in Seq(Byte) PROVE <<first>> \o x \in Seq(Byte)
  <2>1. <<first>> \in Seq(Byte)
    OBVIOUS
  <2> QED BY <2>1, ConcatProperties
<1>2. CASE code = EncodeNew(cs)
  <2> DEFINE n == Len(cs)
             y == EncodeEntries(cs)
             x == <<n>> \o y
  <2>1. n \in Byte /\ y \in Seq(Byte) /\ code = <<1>> \o x
    BY <1>2, EntriesType DEF ChangeFields, EncodeNew
  <2> HIDE DEF n, y
  <2>2. x \in Seq(Byte) /\ 1 \in Byte
    <3>1. 1 \in Byte
      BY DEF Byte
    <3> QED BY <1>1, <2>1, <3>1
  <2>3. x = <<Len(cs)>> \o EncodeEntries(cs)
    BY DEF n, y
  <2> HIDE DEF x
  <2> QED BY <1>1, <2>1, <2>2, <2>3
<1>3. CASE Len(cs) = 1 /\ code = EncodeOld(cs[1])
  <2> DEFINE c == cs[1]
             k == Len(c.path)
             first == 128 + k
             y == BytesOf(c.path)
             x == <<c.index>> \o y
  <2>1. EntryFields(c)
    <3>1. 1 \in 1..Len(cs)
      BY <1>3
    <3> QED BY <3>1, EntryOf
  <2> HIDE DEF c
  <2>2. k \in Nat /\ k <= 5 /\ c.index \in Byte /\ y \in Seq(Byte)
    BY <2>1, LenProperties, PathBytes DEF EntryFields, MAX_BIP32_PATH
  <2>3. code = <<first>> \o x
    BY <1>3 DEF EncodeOld, c
  <2>4. x \in Seq(Byte)
    <3> HIDE DEF y
    <3> QED BY <1>1, <2>2
  <2>5. first \in Byte /\ first >= 128 /\ first % 16 = k
    <3> HIDE DEF k
    <3>1. k \in {0, 1, 2, 3, 4, 5}
      BY <2>2
    <3>2. (128 + k) \in 0..255 /\ 128 + k >= 128 /\ (128 + k) % 16 = k
      BY <3>1
    <3> QED BY <3>2 DEF Byte
  <2> HIDE DEF first
  <2>6. x = <<cs[1].index>> \o BytesOf(cs[1].path) /\ k = Len(cs[1].path)
    BY DEF c
  <2> HIDE DEF x, k
  <2> QED BY <1>1, <1>3, <2>3, <2>4, <2>5, <2>6
<1>4. CASE cs = <<>> /\ code = <<0>>
  <2>1. <<0>> \in Seq(Byte) /\ <<>> \in Seq(Byte) /\ 0 \in Byte
    BY DEF Byte
  <2>2. <<0>> = <<0>> \o <<>>
    BY <2>1, ConcatEmptySeq
  <2> QED BY <1>4, <2>1, <2>2
<1> QED BY <1>2, <1>3, <1>4 DEF IsCode

\* Each of them is read as it was written, if every path is accepted and there
\* are not too many entries.
LEMMA CodeForward ==
  ASSUME NEW cs, ChangeFields(cs), NEW code, IsCode(code, cs), NEW w \in Seq(Byte),
         NEW b, At(b, code \o w)
  PROVE  ReadForward(b, cs, w)
<1> DEFINE u == U8(b)
           r == read_change_info(b)
<1>1. PICK first \in Byte, x \in Seq(Byte) :
        /\ code = <<first>> \o x
        /\ \/ first = 1 /\ x = <<Len(cs)>> \o EncodeEntries(cs)
           \/ /\ first >= 128 /\ Len(cs) = 1 /\ first % 16 = Len(cs[1].path)
              /\ x = <<cs[1].index>> \o BytesOf(cs[1].path)
           \/ first = 0 /\ cs = <<>> /\ x = <<>>
  BY CodeType
<1> DEFINE h == <<first>>
<1>2. h \in Seq(Byte) /\ x \o w \in Seq(Byte) /\ b \in Buffer
  BY ConcatProperties DEF At
<1>3. code \o w = h \o (x \o w)
  <2>1. code = h \o x
    BY <1>1
  <2> HIDE DEF h
  <2>2. h \o (x \o w) = (h \o x) \o w
    BY <1>2, ConcatThree, ZenonT(20)
  <2> QED BY <2>1, <2>2
<1>4. Ahead(b, h, x \o w)
  <2> HIDE DEF h
  <2> QED BY <1>2, <1>3 DEF Ahead
<1>5. u.ok /\ u.value[1] = first /\ At(u.buf, x \o w)
  BY <1>4, U8Forward
<1>6. r = IF first = 0 THEN ChangeRead(OK, u.buf, <<>>)
          ELSE IF first >= 128 THEN OldChange(first, u.buf)
          ELSE IF first = 1 THEN NewChange(u.buf)
          ELSE ChangeRead("INVALID_TX", u.buf, <<>>)
  BY <1>2, <1>5, ChangeIs
<1> HIDE DEF u, r
<1>7. CASE first = 1 /\ x = <<Len(cs)>> \o EncodeEntries(cs)
  <2> DEFINE k == <<Len(cs)>>
             y == EncodeEntries(cs)
  <2>1. r = NewChange(u.buf)
    BY <1>6, <1>7
  <2>2. k \in Seq(Byte) /\ y \in Seq(Byte) /\ x = k \o y
    BY <1>7, EntriesType DEF ChangeFields
  <2> HIDE DEF k, y
  <2>3. x \o w = k \o (y \o w)
    BY <2>2, ConcatThree, SMTT(60)
  <2>4. At(u.buf, <<Len(cs)>> \o (EncodeEntries(cs) \o w))
    BY <1>5, <2>3 DEF k, y
  <2>5. LET g == NewChange(u.buf)
        IN /\ g.sw = "OK" <=> Len(cs) <= TX_MAX_TOKENS + 1 /\ AllAccepted(cs, Len(cs))
           /\ g.sw = "OK" => g.change = cs /\ At(g.buf, w)
           /\ g.sw # "OK" => g.sw = "WRONG_DATA_LENGTH"
    BY <2>4, NewForward
  <2> QED BY <2>1, <2>5 DEF ReadForward, r
<1>8. CASE /\ first >= 128 /\ Len(cs) = 1 /\ first % 16 = Len(cs[1].path)
           /\ x = <<cs[1].index>> \o BytesOf(cs[1].path)
  <2> DEFINE c == cs[1]
             k == <<c.index>>
             y == BytesOf(c.path)
  <2>1. r = OldChange(first, u.buf)
    <3>1. first # 0
      BY <1>8 DEF Byte
    <3> QED BY <1>6, <1>8, <3>1
  <2>2. EntryFields(c)
    <3>1. 1 \in 1..Len(cs)
      BY <1>8
    <3> QED BY <3>1, EntryOf
  <2>3. k \in Seq(Byte) /\ y \in Seq(Byte) /\ x = k \o y
    BY <1>8, <2>2, PathBytes DEF EntryFields
  <2> HIDE DEF k, y
  <2>4. x \o w = k \o (y \o w)
    BY <2>3, ConcatThree, SMTT(60)
  <2>5. At(u.buf, <<c.index>> \o (BytesOf(c.path) \o w)) /\ first % 16 = Len(c.path)
    BY <1>5, <1>8, <2>4 DEF k, y
  <2>6. cs = <<c>> /\ Len(cs) <= TX_MAX_TOKENS + 1
    <3>1. Len(cs) = 1 /\ DOMAIN cs = 1..1
      BY <1>8, LenProperties DEF ChangeFields
    <3>2. cs = <<cs[1]>>
      <4> DEFINE S == [index : Byte, path : Seq(Levels)]
                 d == <<cs[1]>>
      <4>1. cs \in Seq(S) /\ cs[1] \in S
        <5>1. 1 \in 1..Len(cs) /\ cs \in Seq(S)
          BY <1>8 DEF ChangeFields
        <5> HIDE DEF S
        <5> QED BY <5>1, ElementOfSeq
      <4> HIDE DEF S
      <4>2. d \in Seq(S) /\ Len(d) = 1 /\ d[1] = cs[1]
        BY <4>1
      <4>3. \A i \in 1..Len(cs) : cs[i] = d[i]
        BY <1>8, <4>2
      <4> HIDE DEF d
      <4>4. cs = d
        BY <1>8, <4>1, <4>2, <4>3, SeqEqual
      <4> QED BY <4>4 DEF d
    <3> QED BY <3>1, <3>2 DEF TX_MAX_TOKENS
  <2>7. AllAccepted(cs, Len(cs)) <=> Accepted(c.path)
    <3>1. 1..Len(cs) = {1}
      BY <1>8
    <3> QED BY <3>1 DEF AllAccepted
  <2> HIDE DEF c
  <2>8. LET g == OldChange(first, u.buf)
        IN /\ g.sw = "OK" <=> Accepted(c.path)
           /\ g.sw = "OK" => g.change = <<c>> /\ At(g.buf, w)
           /\ g.sw # "OK" => g.sw = "WRONG_DATA_LENGTH"
    BY <2>2, <2>5, OldForward
  <2> QED BY <2>1, <2>6, <2>7, <2>8 DEF ReadForward, r
<1>9. CASE first = 0 /\ cs = <<>> /\ x = <<>>
  <2>1. r.sw = "OK" /\ r.change = cs /\ r.buf = u.buf
    BY <1>6, <1>9 DEF ChangeRead, OK
  <2>2. At(r.buf, w)
    BY <1>5, <1>9, <2>1, ConcatEmptySeq
  <2>3. Len(cs) = 0 /\ AllAccepted(cs, 0) /\ 0 <= TX_MAX_TOKENS + 1
    BY <1>9 DEF AllAccepted, TX_MAX_TOKENS
  <2> QED BY <2>1, <2>2, <2>3 DEF ReadForward, r
<1> QED BY <1>1, <1>7, <1>8, <1>9

\* A part of a change info is never taken for a change info.
LEMMA ChangePrefix ==
  ASSUME NEW cs, ChangeFields(cs), NEW code, IsCode(code, cs), Len(code) < SizeMod,
         NEW i \in 0..(Len(code) - 1)
  PROVE  read_change_info(Fresh(SubSeq(code, 1, i))).sw # "OK"
<1> DEFINE p == SubSeq(code, 1, i)
           q == SubSeq(code, i + 1, Len(code))
           b == Fresh(p)
           c == Fresh(code)
           r == read_change_info(b)
           g == read_change_info(c)
<1>1. SUFFICES ASSUME r.sw = "OK" PROVE FALSE
  OBVIOUS
<1>2. code \in Seq(Byte) /\ <<>> \in Seq(Byte)
  <2>1. code \in Seq(Byte)
    BY CodeType
  <2>2. <<>> \in Seq(Byte)
    OBVIOUS
  <2> QED BY <2>1, <2>2
<1>3. /\ p \in Seq(Byte) /\ q \in Seq(Byte) /\ Len(p) = i /\ q # <<>> /\ code = p \o q
      /\ Len(p) < Len(code)
  BY <1>2, Prefix
<1> HIDE DEF p, q
<1>4. Len(p) < SizeMod
  <2>1. Len(p) \in Nat /\ Len(code) \in Nat
    BY <1>2, <1>3, LenProperties
  <2> QED BY <1>3, <2>1, SizeModAssumption
<1>5. At(b, p) /\ At(c, code) /\ code = code \o <<>>
  BY <1>2, <1>3, <1>4, FreshAt, ConcatEmptySeq
<1>6. Longer(b, c, q)
  <2>1. c = Grown(b, q)
    BY <1>3 DEF Fresh, Grown
  <2> QED BY <1>3, <1>5, <2>1 DEF Longer, At
<1>7. ReadForward(c, cs, <<>>)
  BY <1>2, <1>5, CodeForward
<1> HIDE DEF b, c
<1>8. g.sw = "OK" /\ Longer(r.buf, g.buf, q)
  BY <1>1, <1>6, ChangeLonger
<1>9. At(g.buf, <<>>)
  BY <1>7, <1>8 DEF ReadForward
<1> HIDE DEF r, g
<1>10. LeftBytes(r.buf) \o q = <<>> /\ LeftBytes(r.buf) \in Seq(Byte)
  BY <1>8, <1>9, LeftGrown, LeftBytesType DEF At, Longer
<1> QED BY <1>3, <1>10, ConcatEqualIffEmpty

\* The new protocol takes the most bytes for the same entries.
LEMMA NewLongest ==
  ASSUME NEW cs, ChangeFields(cs), NEW code, IsCode(code, cs)
  PROVE  Len(code) <= Len(EncodeNew(cs))
<1> DEFINE n == Len(cs)
           y == EncodeEntries(cs)
           new == EncodeNew(cs)
<1>1. y \in Seq(Byte) /\ n \in Byte /\ n \in Nat
  BY EntriesType, LenProperties DEF ChangeFields
<1>2. String(new, 1 + (1 + Len(y))) /\ Len(y) \in Nat
  <2>1. String(<<1>>, 1) /\ String(<<n>>, 1)
    <3> HIDE DEF n
    <3> QED BY <1>1 DEF String, Byte
  <2>2. String(y, Len(y)) /\ Len(y) \in Nat
    BY <1>1, LenProperties DEF String
  <2> DEFINE a == <<1>>
             c == <<n>>
  <2> HIDE DEF n, y, a, c
  <2>3. String(a \o (c \o y), 1 + (1 + Len(y)))
    BY <2>1, <2>2, Joined DEF a, c
  <2> QED BY <2>2, <2>3 DEF EncodeNew, n, y, a, c
<1>3. CASE code = new
  BY <1>2, <1>3 DEF String
<1>4. CASE n = 1 /\ code = EncodeOld(cs[1])
  <2> DEFINE e == EncodeEntry(cs[1])
             x == BytesOf(cs[1].path)
             k == Len(cs[1].path)
             i == cs[1].index
  <2>1. EntryFields(cs[1]) /\ e \in Seq(Byte)
    <3>1. 1 \in 1..Len(cs)
      BY <1>4
    <3> QED BY <3>1, EntryOf
  <2>2. x \in Seq(Byte) /\ k \in Nat /\ k <= 5 /\ i \in Byte
    BY <2>1, PathBytes, LenProperties DEF EntryFields, MAX_BIP32_PATH
  <2>3. y = e
    <3> DEFINE parts == [j \in 1..1 |-> EncodeEntry(cs[j])]
    <3>1. parts \in [1..1 -> Seq(Byte)] /\ parts[1] = e
      BY <2>1
    <3>2. DOMAIN cs = 1..1
      BY <1>4, LenProperties DEF ChangeFields
    <3>3. y = FlattenSeq(parts)
      BY <3>2 DEF EncodeEntries
    <3> HIDE DEF parts, e, y
    <3>4. PICK g : Flattening(g, parts, 1)
      BY <3>1, FlatteningExists
    <3>5. g[0] = <<>> /\ g[1] = g[1 - 1] \o parts[1]
      BY <3>4 DEF Flattening
    <3>6. g[1] = <<>> \o e
      <4>1. 1 - 1 = 0
        OBVIOUS
      <4> QED BY <3>1, <3>5, <4>1
    <3>7. <<>> \o e = e
      BY <2>1, ConcatEmptySeq DEF e
    <3> QED BY <3>1, <3>3, <3>4, <3>6, <3>7, FlattenAll
  <2>4. String(<<i>>, 1) /\ String(<<k>>, 1) /\ String(<<128 + k>>, 1) /\ String(x, Len(x)) /\ Len(x) \in Nat
    <3> HIDE DEF i, k, x
    <3>1. i \in Byte /\ k \in Byte /\ 128 + k \in Byte
      BY <2>2 DEF Byte
    <3> QED BY <2>2, <3>1, LenProperties DEF String
  <2> DEFINE a == <<i>>
             c == <<k>>
             d == <<128 + k>>
  <2>5. e = a \o (c \o x) /\ code = d \o (a \o x)
    BY <1>4 DEF EncodeEntry, EncodeOld
  <2> HIDE DEF a, c, d, x, e, y, new
  <2>6. String(e, 1 + (1 + Len(x))) /\ String(code, 1 + (1 + Len(x)))
    BY <2>4, <2>5, Joined DEF a, c, d
  <2> QED BY <1>2, <2>3, <2>4, <2>6 DEF String, new
<1>5. CASE cs = <<>> /\ code = <<0>>
  <2>1. Len(code) = 1
    BY <1>5
  <2> HIDE DEF y, new
  <2> QED BY <1>2, <2>1 DEF String, new
<1> QED BY <1>3, <1>4, <1>5 DEF IsCode

\* The header, read where it is next (sign_tx.c:176-202).
LEMMA HeaderForward ==
  ASSUME NEW b, NEW s, At(b, s), Len(s) >= 5
  PROVE  HeaderReads(b, s)
<1> DEFINE version == U16(b)
           tokens == U8(version.buf)
           inputs == U8(tokens.buf)
           outputs == U8(inputs.buf)
           r == read_tx_data(b)
<1>1. b \in Buffer /\ s \in Seq(Byte) /\ LeftBytes(b) = s /\ Left(b) = Len(s) /\ Len(s) \in Nat
  BY LeftLen DEF At
<1>2. ASSUME NEW c \in Buffer, NEW n \in {1, 2}, n <= Left(c)
      PROVE  /\ Take(c, n).ok /\ Take(c, n).buf \in Buffer
             /\ Left(Take(c, n).buf) = Left(c) - n
  <2>1. Reads(c, Take(c, n), n)
    BY <1>2, TakeReads
  <2> DEFINE x == Take(c, n)
             d == x.buf
  <2> HIDE DEF x
  <2>2. x.ok /\ d \in Buffer /\ d.ptr = c.ptr /\ d.offset = c.offset + n
    BY <2>1 DEF Reads, x
  <2>3. Left(d) = Size(d) - d.offset /\ Left(c) = Size(c) - c.offset /\ Size(d) = Size(c)
    BY <2>2 DEF Left, Size
  <2>4. Size(c) \in Int /\ c.offset \in Int
    BY BufferFields DEF Sizes
  <2>5. Left(d) = Left(c) - n
    <3> HIDE DEF d
    <3> QED BY <2>2, <2>3, <2>4
  <2> QED BY <2>2, <2>5 DEF x
<1>3. version.ok /\ version.buf \in Buffer /\ Left(version.buf) = Len(s) - 2
  <2>1. version = Take(b, 2)
    BY DEF U16, ReadInt
  <2> HIDE DEF version
  <2> QED BY <1>1, <1>2, <2>1
<1> HIDE DEF version
<1>4. tokens.ok /\ tokens.buf \in Buffer /\ Left(tokens.buf) = Len(s) - 3
  <2>1. tokens = Take(version.buf, 1)
    BY DEF U8, ReadInt
  <2>2. 1 <= Left(version.buf) /\ (Len(s) - 2) - 1 = Len(s) - 3
    BY <1>1, <1>3
  <2> HIDE DEF tokens
  <2> QED BY <1>2, <1>3, <2>1, <2>2
<1> HIDE DEF tokens
<1>5. inputs.ok /\ inputs.buf \in Buffer /\ Left(inputs.buf) = Len(s) - 4
  <2>1. inputs = Take(tokens.buf, 1)
    BY DEF U8, ReadInt
  <2>2. 1 <= Left(tokens.buf) /\ (Len(s) - 3) - 1 = Len(s) - 4
    BY <1>1, <1>4
  <2> HIDE DEF inputs
  <2> QED BY <1>2, <1>4, <2>1, <2>2
<1> HIDE DEF inputs
<1>6. outputs.ok
  <2>1. outputs = Take(inputs.buf, 1)
    BY DEF U8, ReadInt
  <2>2. 1 <= Left(inputs.buf)
    BY <1>1, <1>5
  <2> HIDE DEF outputs
  <2> QED BY <1>2, <1>5, <2>1, <2>2
<1>7. r.sw = OK
  <2>1. version.ok /\ tokens.ok /\ inputs.ok /\ outputs.ok
    BY <1>3, <1>4, <1>5, <1>6
  <2> QED BY <2>1 DEF read_tx_data, version, tokens, inputs, outputs
<1> DEFINE v == r.tx_version
           t == r.remaining_tokens
           i == r.remaining_inputs
           o == r.outputs_len
           x == LeftBytes(r.buf)
           h == <<t, i, o>>
           y == SubSeq(s, 1, 5)
           z == SubSeq(s, 6, Len(s))
<1>8. /\ r.buf \in Buffer /\ v \in Seq(Byte) /\ Len(v) = 2 /\ t \in Byte /\ i \in Byte /\ o \in Byte
      /\ s = v \o (<<t>> \o (<<i>> \o (<<o>> \o x)))
  BY <1>1, <1>7, HeaderReadBack
<1>9. x \in Seq(Byte)
  BY <1>8, LeftBytesType
<1> HIDE DEF r, v, t, i, o, x
<1>10. h \in Seq(Byte) /\ Len(h) = 3
  BY <1>8
<1>11. s = (v \o h) \o x
  <2>1. <<t>> \in Seq(Byte) /\ <<i>> \in Seq(Byte) /\ <<o>> \in Seq(Byte)
    BY <1>8
  <2>2. h = <<t>> \o (<<i>> \o <<o>>)
    <3>1. ASSUME NEW a \in Seq(Byte), NEW d \in Seq(Byte)
          PROVE  /\ a \o d \in Seq(Byte) /\ Len(a \o d) = Len(a) + Len(d)
                 /\ \A k \in 1..Len(a) : (a \o d)[k] = a[k]
                 /\ \A k \in (Len(a) + 1)..(Len(a) + Len(d)) : (a \o d)[k] = d[k - Len(a)]
      BY ConcatProperties, LenProperties
    <3> DEFINE e == <<i>> \o <<o>>
               p == <<t>>
               f == p \o e
    <3>2. e \in Seq(Byte) /\ Len(e) = 2 /\ e[1] = i /\ e[2] = o
      BY <2>1, <3>1
    <3> HIDE DEF e
    <3>3. f \in Seq(Byte) /\ Len(f) = 3 /\ f[1] = t /\ f[2] = e[1] /\ f[3] = e[2]
      <4>1. p \in Seq(Byte) /\ Len(p) = 1 /\ p[1] = t
        BY <2>1
      <4> HIDE DEF p
      <4>2. /\ f \in Seq(Byte) /\ Len(f) = Len(p) + Len(e)
            /\ \A k \in 1..(Len(p) + Len(e)) : f[k] = IF k <= Len(p) THEN p[k] ELSE e[k - Len(p)]
        BY <3>2, <4>1, ConcatProperties
      <4> HIDE DEF f
      <4>3. f[1] = p[1] /\ f[2] = e[2 - 1] /\ f[3] = e[3 - 1]
        BY <3>2, <4>1, <4>2
      <4>4. 2 - 1 = 1 /\ 3 - 1 = 2 /\ 1 + 2 = 3
        OBVIOUS
      <4> QED BY <3>2, <4>1, <4>2, <4>3, <4>4
    <3> HIDE DEF f
    <3>4. h \in Seq(Byte) /\ Len(h) = 3 /\ h[1] = t /\ h[2] = i /\ h[3] = o
      BY <1>8
    <3>5. \A k \in 1..3 : h[k] = f[k]
      <4>1. 1..3 = {1, 2, 3}
        OBVIOUS
      <4> HIDE DEF h
      <4> QED BY <3>2, <3>3, <3>4, <4>1
    <3>6. h = f
      <4> HIDE DEF h
      <4> QED BY <3>3, <3>4, <3>5, SeqEqual
    <3> QED BY <3>6 DEF e, f, p
  <2> DEFINE a == <<t>>
             c == <<i>>
             d == <<o>>
  <2> HIDE DEF a, c, d
  <2>3. a \in Seq(Byte) /\ c \in Seq(Byte) /\ d \in Seq(Byte) /\ c \o d \in Seq(Byte) /\ h = a \o (c \o d)
    BY <2>1, <2>2, ConcatProperties DEF a, c, d
  <2>4. s = v \o (a \o (c \o (d \o x)))
    BY <1>8 DEF a, c, d
  <2> HIDE DEF h
  <2>5. c \o (d \o x) = (c \o d) \o x
    BY <1>9, <2>3, ConcatThree, SMTT(60)
  <2>6. a \o ((c \o d) \o x) = h \o x
    BY <1>9, <2>3, ConcatThree, SMTT(60)
  <2>7. v \o (h \o x) = (v \o h) \o x
    BY <1>8, <1>9, <1>10, ConcatThree, ZenonT(20)
  <2> QED BY <2>4, <2>5, <2>6, <2>7
<1> HIDE DEF h
<1>12. String(v \o h, 5)
  <2>1. String(v, 2) /\ String(h, 3)
    BY <1>8, <1>10 DEF String
  <2>2. String(v \o h, 2 + 3)
    BY <2>1, Joined
  <2> QED BY <2>2
<1>13. s = y \o z /\ String(y, 5) /\ z \in Seq(Byte)
  <2>1. \A j \in 1..Len(s) : s[j] \in Byte
    BY <1>1, ElementOfSeq
  <2>2. y \in Seq(Byte) /\ Len(y) = 5
    <3>1. \A j \in 1..5 : s[j] \in Byte
      BY <1>1, <2>1
    <3> QED BY <3>1, SubSeqProperties
  <2>3. z \in Seq(Byte)
    <3>1. \A j \in 6..Len(s) : s[j] \in Byte
      BY <2>1
    <3>2. Len(s) \in Int
      BY <1>1
    <3> QED BY <3>1, <3>2, SubSeqProperties
  <2>4. SubSeq(s, 1, 5) \o SubSeq(s, 5 + 1, Len(s)) = SubSeq(s, 1, Len(s))
    <3>1. 1 \in 1..(Len(s) + 1) /\ 5 \in (1 - 1)..Len(s) /\ Len(s) \in 5..Len(s)
      BY <1>1
    <3> QED BY <1>1, <3>1, ConcatAdjacentSubSeq
  <2> QED BY <1>1, <2>2, <2>3, <2>4, SubSeqFull DEF String
<1> HIDE DEF y, z
<1>14. v \o h = y /\ x = z
  BY <1>9, <1>11, <1>12, <1>13, SameCut DEF String
<1> QED BY <1>7, <1>14 DEF HeaderReads, OK, r, v, t, i, o, x, h, y, z

\* Every change info of the constants is read as it was written, and no part of
\* it is.
LEMMA ChangeReads == Called => ChangeInfoRead
<1>1. SUFFICES ASSUME Called, input.kind = "change" PROVE ChangeInfoRead
  BY DEF ChangeInfoRead
<1> DEFINE cs == input.change
           rest == input.rest
           AllOk == \A k \in DOMAIN cs : Accepted(cs[k].path)
<1>2. ChangeFields(cs) /\ rest \in Seq(Byte) /\ Len(rest) >= 5 /\ Len(EncodeNew(cs) \o rest) < SizeMod
  <2>1. cs \in ChangeLists /\ rest \in Rests
    BY <1>1 DEF Called
  <2> QED BY <2>1, ChangeAssumption DEF ChangeFields
<1> HIDE DEF cs, rest
<1>3. DOMAIN cs = 1..Len(cs) /\ Len(cs) \in Nat
  BY <1>2, LenProperties DEF ChangeFields
<1>4. AllAccepted(cs, Len(cs)) <=> AllOk
  BY <1>3 DEF AllAccepted
<1>5. ASSUME NEW code, IsCode(code, cs)
      PROVE  /\ code \in Seq(Byte) /\ Len(code) \in Nat
             /\ Len(code \o rest) < SizeMod /\ Len(code) < SizeMod
  <2>1. code \in Seq(Byte) /\ EncodeNew(cs) \in Seq(Byte)
    BY <1>2, <1>5, CodeType DEF IsCode
  <2>2. Len(code) <= Len(EncodeNew(cs))
    BY <1>2, <1>5, NewLongest
  <2>3. /\ Len(code \o rest) = Len(code) + Len(rest) /\ Len(code) \in Nat /\ Len(rest) \in Nat
        /\ Len(EncodeNew(cs) \o rest) = Len(EncodeNew(cs)) + Len(rest) /\ Len(EncodeNew(cs)) \in Nat
    BY <1>2, <2>1, ConcatProperties, LenProperties
  <2> DEFINE l == Len(code)
             m == Len(rest)
             n == Len(EncodeNew(cs))
             x == Len(code \o rest)
             y == Len(EncodeNew(cs) \o rest)
  <2>4. l <= n /\ x = l + m /\ y = n + m /\ l \in Nat /\ m \in Nat /\ n \in Nat /\ y < SizeMod
    BY <1>2, <2>2, <2>3
  <2> HIDE DEF l, m, n, x, y
  <2>5. x < SizeMod /\ l < SizeMod
    BY <2>4, SizeModAssumption
  <2> QED BY <2>1, <2>3, <2>5 DEF l, x
<1>6. ASSUME NEW code, IsCode(code, cs)
      PROVE  LET r == read_change_info(Fresh(code \o rest))
             IN /\ Len(cs) <= TX_MAX_TOKENS + 1 /\ AllOk =>
                     /\ r.sw = "OK" /\ r.change = cs /\ LeftBytes(r.buf) = rest
                     /\ HeaderReads(r.buf, rest)
                /\ ~AllOk => r.sw = "WRONG_DATA_LENGTH"
  <2> DEFINE b == Fresh(code \o rest)
             r == read_change_info(b)
  <2>1. code \o rest \in Seq(Byte) /\ Len(code \o rest) < SizeMod
    BY <1>2, <1>5, <1>6, ConcatProperties
  <2>2. At(b, code \o rest)
    BY <2>1, FreshAt
  <2> HIDE DEF b
  <2>3. ReadForward(b, cs, rest)
    BY <1>2, <1>6, <2>2, CodeForward
  <2>4. /\ r.sw = "OK" <=> Len(cs) <= TX_MAX_TOKENS + 1 /\ AllOk
        /\ r.sw = "OK" => r.change = cs /\ At(r.buf, rest)
        /\ r.sw # "OK" => r.sw = "WRONG_DATA_LENGTH"
    BY <1>4, <2>3 DEF ReadForward
  <2> HIDE DEF r, AllOk
  <2>5. At(r.buf, rest) => LeftBytes(r.buf) = rest /\ HeaderReads(r.buf, rest)
    BY <1>2, HeaderForward DEF At
  <2>6. /\ Len(cs) <= TX_MAX_TOKENS + 1 /\ AllOk =>
             r.sw = "OK" /\ r.change = cs /\ LeftBytes(r.buf) = rest /\ HeaderReads(r.buf, rest)
        /\ ~AllOk => r.sw = "WRONG_DATA_LENGTH"
    BY <2>4, <2>5
  <2> QED BY <2>6 DEF r, b
<1>7. ASSUME NEW code, IsCode(code, cs)
      PROVE  \A i \in 0..(Len(code) - 1) : read_change_info(Fresh(SubSeq(code, 1, i))).sw # "OK"
  BY <1>2, <1>5, <1>7, ChangePrefix
<1>8. ASSUME Len(cs) > TX_MAX_TOKENS + 1
      PROVE  read_change_info(Fresh(EncodeNew(cs))).sw # "OK"
  <2> DEFINE code == EncodeNew(cs)
             b == Fresh(code)
  <2>1. IsCode(code, cs)
    BY DEF IsCode
  <2> HIDE DEF code
  <2>2. code \in Seq(Byte) /\ Len(code) < SizeMod /\ code = code \o <<>> /\ <<>> \in Seq(Byte)
    <3>1. code \in Seq(Byte) /\ Len(code) < SizeMod
      BY <1>5, <2>1
    <3>2. <<>> \in Seq(Byte)
      OBVIOUS
    <3> QED BY <3>1, <3>2, ConcatEmptySeq
  <2>3. At(b, code \o <<>>)
    <3>1. At(b, code)
      BY <2>2, FreshAt
    <3> QED BY <2>2, <3>1
  <2> HIDE DEF b
  <2>4. ReadForward(b, cs, <<>>)
    BY <1>2, <2>1, <2>2, <2>3, CodeForward
  <2>5. ~(Len(cs) <= TX_MAX_TOKENS + 1)
    BY <1>3, <1>8 DEF TX_MAX_TOKENS
  <2>6. read_change_info(b).sw # "OK"
    BY <2>4, <2>5 DEF ReadForward
  <2> QED BY <2>6 DEF b, code
<1> DEFINE Codes == {EncodeNew(cs)} \cup (IF Len(cs) = 1 THEN {EncodeOld(cs[1])} ELSE {})
                                    \cup (IF cs = <<>> THEN {<<0>>} ELSE {})
<1>9. \A code \in Codes : IsCode(code, cs)
  BY DEF IsCode
<1> HIDE DEF Codes
<1>10. \A code \in Codes :
         /\ LET r == read_change_info(Fresh(code \o rest))
            IN /\ Len(cs) <= TX_MAX_TOKENS + 1 /\ AllOk =>
                    /\ r.sw = "OK" /\ r.change = cs /\ LeftBytes(r.buf) = rest
                    /\ HeaderReads(r.buf, rest)
               /\ (\E k \in DOMAIN cs : ~Accepted(cs[k].path)) => r.sw = "WRONG_DATA_LENGTH"
         /\ \A i \in 0..(Len(code) - 1) : read_change_info(Fresh(SubSeq(code, 1, i))).sw # "OK"
  BY <1>6, <1>7, <1>9
<1> QED BY <1>8, <1>10 DEF ChangeInfoRead, cs, rest, Codes

\* The change info is read as the host wrote it, in both protocols, and the
\* header behind it; parts of it, paths that are not accepted and too many
\* entries are refused (sign_tx.c:68-202).
THEOREM ChangeInfoReadHolds == Spec => []ChangeInfoRead
<1> QED BY ChangeReads, InputCalled, PTL

===============================================================================
