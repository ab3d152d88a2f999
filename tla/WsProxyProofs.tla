--------------------------- MODULE WsProxyProofs ---------------------------
(***************************************************************************)
(* Theorems about WsProxy, for all buffer sizes, frames and amounts of      *)
(* data: both directions of the proxy implement ByteChannel, frames stay    *)
(* whole, and the last words of the target arrive.                          *)
(*                                                                         *)
(* The argument is about the numbers of the bytes.  A piece of a stream     *)
(* Carries(s, a, b) if its payload is the bytes a + 1 .. b in this order.   *)
(* Pieces that fit are put together, and a piece may be cut anywhere: this  *)
(* is all that reading, decoding, encoding and writing do.                  *)
(***************************************************************************)
EXTENDS WsProxy, FiniteSetTheorems, FunctionTheorems, SequenceTheorems, NaturalsInduction, TLAPS

Kinds == {"data", "ping", "close"}
Byte == [kind : Kinds, at : Nat \ {0}, of : Nat \ {0}, byte : Nat]

-----------------------------------------------------------------------------
(* The inductive invariant.                                                *)

Carries(s, from, to) ==
  /\ \A i \in PayloadAt(s) : s[i].byte \in from + 1 .. to
  /\ \A b \in from + 1 .. to : \E i \in PayloadAt(s) : s[i].byte = b
  /\ \A i, j \in PayloadAt(s) : i < j => s[i].byte < s[j].byte

(* A frame begins where the one before ends, and goes on until then.       *)
Follows(s, i) ==
  IF s[i].at = 1 THEN i = 1 \/ s[i - 1].at = s[i - 1].of
  ELSE i > 1 /\ s[i].at = s[i - 1].at + 1 /\ s[i].of = s[i - 1].of
Framed(s) == \A i \in 1 .. Len(s) : Follows(s, i)
Ended(s) == s # << >> => s[Len(s)].at = s[Len(s)].of

Typed ==
  /\ TypeOK
  /\ wire \in Seq(Byte) /\ tin \in Seq(Byte) /\ cout \in Seq(Byte) /\ got \in Seq(Byte)
  /\ tout \in Seq(Nat) /\ upRcvd \in Seq(Nat) /\ pipe \in Seq(Nat)

UpRight ==
  /\ upRcvd = Numbers(0, Len(upRcvd)) /\ tout = Numbers(Len(upRcvd), Len(tout))
  /\ Len(upRcvd) + Len(tout) <= upSent
  /\ Carries(tin \o wire, Len(upRcvd) + Len(tout), upSent)

(* What a client has got that is reset stays right; what is left for it is *)
(* not looked after any more.                                              *)
DownRight ==
  /\ Len(pipe) <= downSent /\ pipe = Numbers(downSent - Len(pipe), Len(pipe))
  /\ \E n \in 0 .. downSent : Carries(got, 0, n)
  /\ client # "reset" => Carries(got \o cout, 0, downSent - Len(pipe))

FramesRight ==
  /\ Framed(got)
  /\ client # "reset" => Framed(got \o cout) /\ Ended(got \o cout)

(* What waits in cout_buf is the rest of one frame of limited size.        *)
OneFrame ==
  \E size \in 1 .. DBUFSIZE + Header :
    \A i \in 1 .. Len(cout) : cout[i].of = size /\ cout[i].at = size - Len(cout) + i
RoomLeft == Len(tin) < BUFSIZE /\ Len(tout) < BUFSIZE /\ OneFrame

NothingLeft ==
  ended = "target closed" => target # "open" /\ cout = << >> /\ pipe = << >>

IInv == Typed /\ UpRight /\ DownRight /\ FramesRight /\ RoomLeft /\ NothingLeft

-----------------------------------------------------------------------------
(* Sequences: cutting and putting together.                                *)

LEMMA Cut ==
  ASSUME NEW S, NEW s \in Seq(S), NEW n \in 0 .. Len(s)
  PROVE  /\ SubSeq(s, 1, n) \in Seq(S) /\ Len(SubSeq(s, 1, n)) = n
         /\ Drop(s, n) \in Seq(S) /\ Len(Drop(s, n)) = Len(s) - n
         /\ \A i \in 1 .. n : SubSeq(s, 1, n)[i] = s[i]
         /\ \A i \in 1 .. Len(s) - n : Drop(s, n)[i] = s[n + i]
         /\ SubSeq(s, 1, n) \o Drop(s, n) = s
<1>1. Len(s) \in Nat /\ \A i \in 1 .. Len(s) : s[i] \in S
  BY LenProperties, ElementOfSeq
<1>2. /\ SubSeq(s, 1, n) \in Seq(S) /\ Len(SubSeq(s, 1, n)) = n
      /\ \A i \in 1 .. n : SubSeq(s, 1, n)[i] = s[i]
  <2>1. \A i \in 1 .. n : s[i] \in S
    BY <1>1
  <2>. QED  BY <1>1, <2>1, SubSeqProperties
<1>3. /\ Drop(s, n) \in Seq(S) /\ Len(Drop(s, n)) = Len(s) - n
      /\ \A i \in 1 .. Len(s) - n : Drop(s, n)[i] = s[n + i]
  <2>1. \A i \in n + 1 .. Len(s) : s[i] \in S
    BY <1>1
  <2>2. n + 1 \in Int /\ Len(s) \in Int
    BY <1>1
  <2>3. /\ SubSeq(s, n + 1, Len(s)) \in Seq(S)
        /\ Len(SubSeq(s, n + 1, Len(s))) = IF n + 1 <= Len(s) THEN Len(s) - (n + 1) + 1 ELSE 0
        /\ \A i \in 1 .. Len(s) - (n + 1) + 1 : SubSeq(s, n + 1, Len(s))[i] = s[n + 1 + i - 1]
    BY <2>1, <2>2, SubSeqProperties
  <2>. QED  BY <2>3, <1>1 DEF Drop
<1>4. SubSeq(s, 1, n) \o Drop(s, n) = s
  <2> DEFINE t == SubSeq(s, 1, n) \o Drop(s, n)
  <2>1. t \in Seq(S) /\ Len(t) = Len(s)
    BY <1>1, <1>2, <1>3, ConcatProperties
  <2>2. \A i \in 1 .. Len(s) : t[i] = s[i]
    <3>1. \A i \in 1 .. Len(s) : t[i] = IF i <= n THEN SubSeq(s, 1, n)[i] ELSE Drop(s, n)[i - n]
      BY <1>1, <1>2, <1>3, ConcatProperties
    <3>. QED  BY <3>1, <1>1, <1>2, <1>3
  <2>. QED  BY <2>1, <2>2, SeqEqual
<1>. QED  BY <1>2, <1>3, <1>4

LEMMA Concat ==
  ASSUME NEW S, NEW s \in Seq(S), NEW t \in Seq(S)
  PROVE  /\ s \o t \in Seq(S) /\ Len(s \o t) = Len(s) + Len(t)
         /\ Len(s) \in Nat /\ Len(t) \in Nat
         /\ \A i \in 1 .. Len(s) : (s \o t)[i] = s[i]
         /\ \A i \in 1 .. Len(t) : (s \o t)[Len(s) + i] = t[i]
  BY ConcatProperties, LenProperties

LEMMA ConcatBytes ==
  \A s, t, u \in Seq(Byte) : (s \o t) \o u = s \o (t \o u)
  BY ConcatAssociative

LEMMA NumbersFacts ==
  ASSUME NEW a \in Nat, NEW n \in Nat
  PROVE  /\ Numbers(a, n) \in Seq(Nat) /\ Len(Numbers(a, n)) = n
         /\ \A i \in 1 .. n : Numbers(a, n)[i] = a + i
  BY DEF Numbers

LEMMA NumbersConcat ==
  ASSUME NEW a \in Nat, NEW m \in Nat, NEW n \in Nat
  PROVE  Numbers(a, m) \o Numbers(a + m, n) = Numbers(a, m + n)
<1> DEFINE r == Numbers(a, m)
           s == Numbers(a + m, n)
           t == Numbers(a, m + n)
<1>0. a + m \in Nat /\ m + n \in Nat
  OBVIOUS
<1>1. r \in Seq(Nat) /\ Len(r) = m /\ \A i \in 1 .. m : r[i] = a + i
  BY NumbersFacts
<1>2. s \in Seq(Nat) /\ Len(s) = n /\ \A i \in 1 .. n : s[i] = a + m + i
  BY <1>0, NumbersFacts
<1>3. t \in Seq(Nat) /\ Len(t) = m + n /\ \A i \in 1 .. m + n : t[i] = a + i
  BY <1>0, NumbersFacts
<1> HIDE DEF r, s, t
<1>4. /\ r \o s \in Seq(Nat) /\ Len(r \o s) = m + n
      /\ \A i \in 1 .. m + n : (r \o s)[i] = IF i <= m THEN r[i] ELSE s[i - m]
  BY <1>1, <1>2, ConcatProperties
<1>5. ASSUME NEW i \in 1 .. m + n PROVE (r \o s)[i] = t[i]
  <2>1. CASE i <= m
    BY <2>1, <1>1, <1>3, <1>4
  <2>2. CASE ~(i <= m)
    <3>1. i - m \in 1 .. n
      BY <2>2
    <3>2. s[i - m] = a + m + (i - m)
      BY <3>1, <1>2
    <3>3. (r \o s)[i] = s[i - m]
      BY <2>2, <1>4
    <3>4. a + m + (i - m) = a + i
      OBVIOUS
    <3>5. t[i] = a + i
      BY <1>3
    <3>. QED  BY <3>2, <3>3, <3>4, <3>5, Zenon
  <2>. QED  BY <2>1, <2>2, Zenon
<1>6. r \o s = t
  BY <1>3, <1>4, <1>5, SeqEqual
<1>. QED  BY <1>6 DEF r, s, t

LEMMA NumbersCut ==
  ASSUME NEW a \in Nat, NEW n \in Nat, NEW k \in 0 .. n
  PROVE  /\ SubSeq(Numbers(a, n), 1, k) = Numbers(a, k)
         /\ Drop(Numbers(a, n), k) = Numbers(a + k, n - k)
<1> DEFINE s == Numbers(a, n)
<1>1. s \in Seq(Nat) /\ Len(s) = n /\ \A i \in 1 .. n : s[i] = a + i
  BY NumbersFacts
<1> HIDE DEF s
<1>2. /\ SubSeq(s, 1, k) \in Seq(Nat) /\ Len(SubSeq(s, 1, k)) = k
      /\ Drop(s, k) \in Seq(Nat) /\ Len(Drop(s, k)) = n - k
      /\ \A i \in 1 .. k : SubSeq(s, 1, k)[i] = s[i]
      /\ \A i \in 1 .. n - k : Drop(s, k)[i] = s[k + i]
  BY <1>1, Cut
<1>3. /\ Numbers(a, k) \in Seq(Nat) /\ Len(Numbers(a, k)) = k
      /\ \A i \in 1 .. k : Numbers(a, k)[i] = a + i
  BY NumbersFacts
<1>4. /\ Numbers(a + k, n - k) \in Seq(Nat) /\ Len(Numbers(a + k, n - k)) = n - k
      /\ \A i \in 1 .. n - k : Numbers(a + k, n - k)[i] = a + k + i
  <2>1. a + k \in Nat /\ n - k \in Nat
    OBVIOUS
  <2>. QED  BY <2>1, NumbersFacts
<1>5. SubSeq(s, 1, k) = Numbers(a, k)
  <2>1. \A i \in 1 .. k : SubSeq(s, 1, k)[i] = Numbers(a, k)[i]
    BY <1>1, <1>2, <1>3
  <2>. QED  BY <2>1, <1>2, <1>3, SeqEqual
<1>6. Drop(s, k) = Numbers(a + k, n - k)
  <2>1. \A i \in 1 .. n - k : Drop(s, k)[i] = Numbers(a + k, n - k)[i]
    BY <1>1, <1>2, <1>4
  <2>. QED  BY <2>1, <1>2, <1>4, SeqEqual
<1>. QED  BY <1>5, <1>6 DEF s

-----------------------------------------------------------------------------
(* Pieces of a stream.                                                     *)

LEMMA ByteFacts ==
  ASSUME NEW s \in Seq(Byte), NEW i \in 1 .. Len(s)
  PROVE  s[i] \in Byte /\ s[i].byte \in Nat /\ s[i].at \in Nat \ {0} /\ s[i].of \in Nat
<1>1. s[i] \in Byte
  BY ElementOfSeq
<1>. QED  BY <1>1 DEF Byte

LEMMA PayloadPlaces ==
  ASSUME NEW s \in Seq(Byte)
  PROVE  /\ PayloadAt(s) \subseteq 1 .. Len(s) /\ Len(s) \in Nat
         /\ \A i \in PayloadAt(s) : s[i].byte \in Nat
<1>1. PayloadAt(s) \subseteq 1 .. Len(s)
  BY DEF PayloadAt
<1>. QED  BY <1>1, ByteFacts, LenProperties

LEMMA PayloadOfConcat ==
  ASSUME NEW s \in Seq(Byte), NEW t \in Seq(Byte)
  PROVE  /\ \A i \in 1 .. Len(s) : i \in PayloadAt(s \o t) <=> i \in PayloadAt(s)
         /\ \A i \in 1 .. Len(t) : Len(s) + i \in PayloadAt(s \o t) <=> i \in PayloadAt(t)
         /\ \A i \in PayloadAt(s \o t) : 
              \/ i \in 1 .. Len(s)
              \/ i - Len(s) \in 1 .. Len(t) /\ i = Len(s) + (i - Len(s))
  BY Concat DEF PayloadAt

LEMMA CarriesNothing ==
  ASSUME NEW a \in Nat
  PROVE  Carries(<< >>, a, a)
<1>1. PayloadAt(<< >>) = {}
  BY DEF PayloadAt
<1>2. a + 1 .. a = {}
  OBVIOUS
<1>. QED  BY <1>1, <1>2 DEF Carries

LEMMA CarriesConcat ==
  ASSUME NEW s \in Seq(Byte), NEW t \in Seq(Byte),
         NEW a \in Nat, NEW b \in Nat, NEW c \in Nat, a <= b, b <= c,
         Carries(s, a, b), Carries(t, b, c)
  PROVE  Carries(s \o t, a, c)
<1> DEFINE u == s \o t
           n == Len(s)
<1>1. /\ n \in Nat /\ Len(t) \in Nat
      /\ \A i \in 1 .. n : u[i] = s[i]
      /\ \A i \in 1 .. Len(t) : u[n + i] = t[i]
  BY Concat
<1>2. /\ \A i \in 1 .. n : i \in PayloadAt(u) <=> i \in PayloadAt(s)
      /\ \A i \in 1 .. Len(t) : n + i \in PayloadAt(u) <=> i \in PayloadAt(t)
      /\ \A i \in PayloadAt(u) : i \in 1 .. n \/ (i - n \in 1 .. Len(t) /\ i = n + (i - n))
  BY PayloadOfConcat
<1>3. /\ PayloadAt(s) \subseteq 1 .. n /\ PayloadAt(t) \subseteq 1 .. Len(t)
      /\ \A i \in PayloadAt(s) : s[i].byte \in a + 1 .. b
      /\ \A i \in PayloadAt(t) : t[i].byte \in b + 1 .. c
  BY PayloadPlaces DEF Carries
<1> HIDE DEF u, n
<1>4. \A i \in PayloadAt(u) : /\ i \in Nat
        /\ \/ i \in 1 .. n /\ i \in PayloadAt(s) /\ u[i].byte = s[i].byte
           \/ i - n \in 1 .. Len(t) /\ i - n \in PayloadAt(t) /\ u[i].byte = t[i - n].byte
  BY <1>1, <1>2
<1>5. \A i \in PayloadAt(u) : u[i].byte \in a + 1 .. c
  BY <1>3, <1>4
<1>6. ASSUME NEW k \in a + 1 .. c PROVE \E i \in PayloadAt(u) : u[i].byte = k
  <2>1. CASE k <= b
    <3>1. PICK i \in PayloadAt(s) : s[i].byte = k
      BY <2>1 DEF Carries
    <3>. QED  BY <3>1, <1>1, <1>2, <1>3
  <2>2. CASE k > b
    <3>1. PICK i \in PayloadAt(t) : t[i].byte = k
      BY <2>2 DEF Carries
    <3>2. n + i \in PayloadAt(u) /\ u[n + i].byte = k
      BY <3>1, <1>1, <1>2, <1>3
    <3>. QED  BY <3>2
  <2>. QED  BY <2>1, <2>2
<1>7. ASSUME NEW i \in PayloadAt(u), NEW j \in PayloadAt(u), i < j
      PROVE  u[i].byte < u[j].byte
  <2>1. CASE i \in 1 .. n /\ j \in 1 .. n
    <3>1. i \in PayloadAt(s) /\ j \in PayloadAt(s) /\ s[i].byte < s[j].byte
      BY <2>1, <1>2, <1>7 DEF Carries
    <3>. QED  BY <3>1, <2>1, <1>1
  <2>2. CASE i \in 1 .. n /\ j - n \in 1 .. Len(t)
    <3>1. u[i].byte \in a + 1 .. b
      BY <2>2, <1>1, <1>2, <1>3
    <3>2. u[j].byte = t[j - n].byte /\ j - n \in PayloadAt(t)
      BY <2>2, <1>1, <1>4
    <3>3. u[j].byte \in b + 1 .. c
      BY <3>2, <1>3
    <3>. QED  BY <3>1, <3>3
  <2>3. CASE i - n \in 1 .. Len(t) /\ j - n \in 1 .. Len(t)
    <3>1. i - n \in PayloadAt(t) /\ u[i].byte = t[i - n].byte
      BY <2>3, <1>1, <1>4
    <3>2. j - n \in PayloadAt(t) /\ u[j].byte = t[j - n].byte
      BY <2>3, <1>1, <1>4
    <3>3. i - n < j - n
      BY <2>3, <1>1, <1>4, <1>7
    <3>. QED  BY <3>1, <3>2, <3>3 DEF Carries
  <2>. QED  BY <2>1, <2>2, <2>3, <1>1, <1>4, <1>7
<1>8. Carries(u, a, c)
  BY <1>5, <1>6, <1>7 DEF Carries
<1>. QED  BY <1>8 DEF u

LEMMA LeastNumber == ASSUME NEW T, T \subseteq Nat, T # {} PROVE \E x \in T : \A y \in T : x <= y
<1>1. OpToRel(<, Nat) = {ss \in Nat \X Nat : ss[1] < ss[2]}
  BY DEF OpToRel
<1>2. PICK x \in T : \A y \in T : ~ (<<y, x>> \in OpToRel(<, Nat))
  BY NatLessThanWellFounded, WFMin
<1>3. ASSUME NEW y \in T PROVE x <= y
  <2>1. <<y, x>> \notin {ss \in Nat \X Nat : ss[1] < ss[2]}
    BY <1>1, <1>2
  <2>2. <<y, x>> \in Nat \X Nat
    OBVIOUS
  <2>3. ~(y < x)
    BY <2>1, <2>2
  <2>. QED  BY <2>3
<1>. QED  BY <1>3

LEMMA Greatest ==
  ASSUME NEW n \in Nat, NEW T, T \subseteq 1 .. n, T # {}
  PROVE  \E x \in T : \A y \in T : y <= x
<1> DEFINE U == {k \in Nat : n - k \in T}
<1>1. U # {}
  <2>1. PICK i \in T : TRUE
    OBVIOUS
  <2>2. n - i \in Nat /\ n - (n - i) = i
    BY <2>1
  <2>3. n - i \in U
    BY <2>1, <2>2
  <2>. QED  BY <2>3
<1>2. PICK k \in U : \A j \in U : k <= j
  BY <1>1, LeastNumber
<1>3. \A y \in T : y <= n - k
  <2> TAKE y \in T
  <2>1. n - y \in Nat /\ n - (n - y) = y
    OBVIOUS
  <2>2. n - y \in U
    BY <2>1
  <2>3. k <= n - y
    BY <2>2, <1>2, Zenon
  <2>. QED  BY <2>1, <2>3, <1>2
<1>4. n - k \in T
  BY <1>2
<1>. QED  BY <1>3, <1>4

(* The bytes up to where a piece is cut are those before the least one     *)
(* behind the cut.                                                         *)
LEMMA CarriesSplit ==
  ASSUME NEW s \in Seq(Byte), NEW t \in Seq(Byte),
         NEW a \in Nat, NEW c \in Nat, a <= c, Carries(s \o t, a, c)
  PROVE  \E b \in a .. c : Carries(s, a, b) /\ Carries(t, b, c)
<1> DEFINE u == s \o t
           n == Len(s)
           T == {k \in Nat : k = c \/ \E i \in PayloadAt(t) : t[i].byte = k + 1}
<1>1. /\ n \in Nat /\ Len(t) \in Nat
      /\ \A i \in 1 .. n : u[i] = s[i]
      /\ \A i \in 1 .. Len(t) : u[n + i] = t[i]
  BY Concat
<1>2. /\ \A i \in 1 .. n : i \in PayloadAt(u) <=> i \in PayloadAt(s)
      /\ \A i \in 1 .. Len(t) : n + i \in PayloadAt(u) <=> i \in PayloadAt(t)
      /\ \A i \in PayloadAt(u) : i \in 1 .. n \/ (i - n \in 1 .. Len(t) /\ i = n + (i - n))
  BY PayloadOfConcat
<1>3. PayloadAt(s) \subseteq 1 .. n /\ PayloadAt(t) \subseteq 1 .. Len(t)
  BY PayloadPlaces
<1>4. Carries(u, a, c)
  OBVIOUS
<1> HIDE DEF u, n
<1>5. \A i \in PayloadAt(s) : i \in PayloadAt(u) /\ u[i].byte = s[i].byte
  BY <1>1, <1>2, <1>3
<1>6. \A i \in PayloadAt(t) : n + i \in PayloadAt(u) /\ u[n + i].byte = t[i].byte
  BY <1>1, <1>2, <1>3
<1>7. /\ \A i \in PayloadAt(u) : u[i].byte \in a + 1 .. c
      /\ \A k \in a + 1 .. c : \E i \in PayloadAt(u) : u[i].byte = k
      /\ \A i, j \in PayloadAt(u) : i < j => u[i].byte < u[j].byte
  BY <1>4 DEF Carries
<1>8. /\ \A i \in PayloadAt(s) : s[i].byte \in a + 1 .. c
      /\ \A i \in PayloadAt(t) : t[i].byte \in a + 1 .. c
  BY <1>5, <1>6, <1>7
<1>9. \A i \in PayloadAt(s), j \in PayloadAt(t) : s[i].byte < t[j].byte
  <2> TAKE i \in PayloadAt(s), j \in PayloadAt(t)
  <2>1. i < n + j
    BY <1>1, <1>3
  <2>. QED  BY <2>1, <1>5, <1>6, <1>7
<1>10. PICK b \in T : \A k \in T : b <= k
  <2>1. T \subseteq Nat /\ c \in T
    OBVIOUS
  <2>. QED  BY <2>1, LeastNumber
<1>11. b \in a .. c
  <2>1. b <= c
    BY <1>10
  <2>2. a <= b
    BY <1>8, <1>10
  <2>. QED  BY <2>1, <2>2, <1>10
<1>12. \A i \in PayloadAt(t) : t[i].byte \in b + 1 .. c
  <2> TAKE i \in PayloadAt(t)
  <2>1. t[i].byte \in a + 1 .. c
    BY <1>8
  <2>2. t[i].byte - 1 \in T
    <3> DEFINE k == t[i].byte - 1
    <3>1. k \in Nat /\ t[i].byte = k + 1
      BY <2>1
    <3> HIDE DEF k
    <3>2. k \in T
      BY <3>1
    <3>. QED  BY <3>2 DEF k
  <2>3. b <= t[i].byte - 1
    BY <2>2, <1>10, Zenon
  <2>. QED  BY <2>1, <2>3, <1>11
<1>13. \A i \in PayloadAt(s) : s[i].byte \in a + 1 .. b
  <2> TAKE i \in PayloadAt(s)
  <2>1. s[i].byte \in a + 1 .. c
    BY <1>8
  <2>2. CASE b = c
    BY <2>1, <2>2
  <2>3. CASE b # c
    <3>1. PICK j \in PayloadAt(t) : t[j].byte = b + 1
      BY <2>3, <1>10
    <3>. QED  BY <3>1, <2>1, <1>9, <1>11
  <2>. QED  BY <2>2, <2>3
<1>14. Carries(s, a, b)
  <2>1. ASSUME NEW k \in a + 1 .. b PROVE \E i \in PayloadAt(s) : s[i].byte = k
    <3>1. k \in a + 1 .. c
      BY <1>11
    <3>2. PICK i \in PayloadAt(u) : u[i].byte = k
      BY <3>1, <1>7
    <3>3. CASE i \in 1 .. n
      BY <3>2, <3>3, <1>2, <1>5
    <3>4. CASE i - n \in 1 .. Len(t) /\ i = n + (i - n)
      <4>1. i - n \in PayloadAt(t) /\ t[i - n].byte = k
        BY <3>2, <3>4, <1>2, <1>6
      <4>. QED  BY <4>1, <1>11, <1>12
    <3>. QED  BY <3>3, <3>4, <1>2
  <2>2. \A i, j \in PayloadAt(s) : i < j => s[i].byte < s[j].byte
    BY <1>5, <1>7
  <2>. QED  BY <2>1, <2>2, <1>13 DEF Carries
<1>15. Carries(t, b, c)
  <2>1. ASSUME NEW k \in b + 1 .. c PROVE \E i \in PayloadAt(t) : t[i].byte = k
    <3>1. k \in a + 1 .. c
      BY <1>11
    <3>2. PICK i \in PayloadAt(u) : u[i].byte = k
      BY <3>1, <1>7
    <3>3. CASE i \in 1 .. n
      <4>1. i \in PayloadAt(s) /\ s[i].byte = k
        BY <3>2, <3>3, <1>2, <1>5
      <4>. QED  BY <4>1, <1>11, <1>13
    <3>4. CASE i - n \in 1 .. Len(t) /\ i = n + (i - n)
      <4>1. i - n \in PayloadAt(t) /\ t[i - n].byte = k
        BY <3>2, <3>4, <1>2, <1>6
      <4>. QED  BY <4>1
    <3>. QED  BY <3>3, <3>4, <1>2
  <2>2. ASSUME NEW i \in PayloadAt(t), NEW j \in PayloadAt(t), i < j
        PROVE  t[i].byte < t[j].byte
    <3>1. n + i < n + j
      BY <2>2, <1>1, <1>3
    <3>. QED  BY <3>1, <1>6, <1>7
  <2>. QED  BY <2>1, <2>2, <1>12 DEF Carries
<1>. QED  BY <1>11, <1>14, <1>15

LEMMA CountTo ==
  ASSUME NEW s \in Seq(Byte), NEW a \in Nat, NEW c \in Nat, Carries(s, a, c),
         NEW m \in 0 .. c - a
  PROVE  Cardinality({i \in PayloadAt(s) : s[i].byte <= a + m}) = m
<1> DEFINE S == 1 .. m
           T == {i \in PayloadAt(s) : s[i].byte <= a + m}
           at == [k \in S |-> CHOOSE i \in PayloadAt(s) : s[i].byte = a + k]
<1>0. /\ \A i \in PayloadAt(s) : s[i].byte \in a + 1 .. c
      /\ \A k \in a + 1 .. c : \E i \in PayloadAt(s) : s[i].byte = k
      /\ \A i, j \in PayloadAt(s) : i < j => s[i].byte < s[j].byte
  BY DEF Carries
<1>1. \A k \in S : at[k] \in PayloadAt(s) /\ s[at[k]].byte = a + k
  <2> TAKE k \in S
  <2>1. a + k \in a + 1 .. c
    OBVIOUS
  <2>2. \E i \in PayloadAt(s) : s[i].byte = a + k
    BY <2>1, <1>0
  <2>. QED  BY <2>2
<1>2. at \in [S -> T]
  <2>1. DOMAIN at = S /\ at = [k \in S |-> at[k]]
    OBVIOUS
  <2> HIDE DEF at
  <2>2. ASSUME NEW k \in S PROVE at[k] \in T
    BY <1>1
  <2>. QED  BY <2>1, <2>2
<1> HIDE DEF at
<1>3. \A j, k \in S : at[j] = at[k] => j = k
  BY <1>1
<1>4. \A i \in T : \E k \in S : at[k] = i
  <2> TAKE i \in T
  <2>1. s[i].byte \in a + 1 .. c /\ s[i].byte <= a + m
    BY <1>0
  <2>2. s[i].byte - a \in S
    BY <2>1
  <2>3. at[s[i].byte - a] \in PayloadAt(s) /\ s[at[s[i].byte - a]].byte = s[i].byte
    <3>1. a + (s[i].byte - a) = s[i].byte
      BY <2>1
    <3>2. /\ at[s[i].byte - a] \in PayloadAt(s)
          /\ s[at[s[i].byte - a]].byte = a + (s[i].byte - a)
      BY <2>2, <1>1, Zenon
    <3>. QED  BY <3>1, <3>2, Zenon
  <2>4. PayloadAt(s) \subseteq Int
    BY PayloadPlaces
  <2>5. /\ ~(at[s[i].byte - a] < i) /\ ~(i < at[s[i].byte - a])
        /\ i \in Int /\ at[s[i].byte - a] \in Int
    BY <2>1, <2>3, <2>4, <1>0
  <2>. QED  BY <2>2, <2>3, <2>4, <2>5
<1> HIDE DEF T
<1>5. at \in Bijection(S, T)
  BY <1>2, <1>3, <1>4, Fun_IsBij
<1>6. ExistsBijection(S, T)
  BY <1>5 DEF ExistsBijection
<1>7. IsFiniteSet(S) /\ Cardinality(S) = m
  BY FS_Interval
<1>8. Cardinality(T) = m
  BY <1>6, <1>7, FS_Bijection
<1>. QED  BY <1>8 DEF T

LEMMA CarriedPayload ==
  ASSUME NEW s \in Seq(Byte), NEW a \in Nat, NEW c \in Nat, a <= c, Carries(s, a, c)
  PROVE  Payload(s) = Numbers(a, c - a)
<1> DEFINE D == PayloadAt(s)
<1>1. /\ \A i \in D : s[i].byte \in a + 1 .. c
      /\ \A k \in a + 1 .. c : \E i \in D : s[i].byte = k
      /\ \A i, j \in D : i < j => s[i].byte < s[j].byte
  BY DEF Carries
<1>2. D \subseteq Int
  BY PayloadPlaces
<1>3. Cardinality(D) = c - a
  <2>1. D = {i \in D : s[i].byte <= a + (c - a)}
    BY <1>1
  <2>2. c - a \in 0 .. c - a
    OBVIOUS
  <2>3. Cardinality({i \in D : s[i].byte <= a + (c - a)}) = c - a
    BY <2>2, CountTo
  <2>. QED  BY <2>1, <2>3, Zenon
<1>4. ASSUME NEW i \in D PROVE Place(s, i) = s[i].byte - a
  <2> DEFINE m == s[i].byte - a
  <2>1. m \in 0 .. c - a /\ a + m = s[i].byte
    BY <1>1
  <2>2. {j \in D : j <= i} = {j \in D : s[j].byte <= a + m}
    <3>1. ASSUME NEW j \in D PROVE j <= i <=> s[j].byte <= a + m
      <4>1. s[j].byte \in Int /\ s[i].byte \in Int /\ j \in Int /\ i \in Int
        BY <1>1, <1>2
      <4>2. (i < j => s[i].byte < s[j].byte) /\ (j < i => s[j].byte < s[i].byte)
        BY <1>1
      <4> HIDE DEF m
      <4>. QED  BY <4>1, <4>2, <2>1
    <3>. QED  BY <3>1, Zenon
  <2>3. Cardinality({j \in D : s[j].byte <= a + m}) = m
    BY <2>1, CountTo
  <2>. QED  BY <2>2, <2>3, Zenon DEF Place
<1>5. ASSUME NEW n \in 1 .. c - a
      PROVE  s[CHOOSE i \in D : Place(s, i) = n].byte = a + n
  <2>1. PICK i \in D : s[i].byte = a + n
    <3>1. a + n \in a + 1 .. c
      OBVIOUS
    <3>. QED  BY <3>1, <1>1
  <2>2. Place(s, i) = n
    BY <2>1, <1>4
  <2> DEFINE j == CHOOSE k \in D : Place(s, k) = n
  <2>3. j \in D /\ Place(s, j) = n
    BY <2>2, Zenon
  <2> HIDE DEF j
  <2>4. s[j].byte - a = n /\ s[j].byte \in Int
    BY <2>3, <1>1, <1>4
  <2>5. s[j].byte = a + n
    BY <2>4
  <2>. QED  BY <2>5, Zenon DEF j
<1>. QED  BY <1>3, <1>5, Zenon DEF Payload, Numbers

LEMMA CarriedLength ==
  ASSUME NEW s \in Seq(Byte), NEW a \in Nat, NEW c \in Nat, a <= c, Carries(s, a, c)
  PROVE  c - a <= Len(s)
<1> DEFINE D == PayloadAt(s)
<1>1. D = {i \in D : s[i].byte <= a + (c - a)}
  BY DEF Carries
<1>2. Cardinality({i \in D : s[i].byte <= a + (c - a)}) = c - a
  <2>1. c - a \in 0 .. c - a
    OBVIOUS
  <2>. QED  BY <2>1, CountTo
<1>3. D \subseteq 1 .. Len(s) /\ Len(s) \in Nat
  BY PayloadPlaces
<1>4. IsFiniteSet(1 .. Len(s)) /\ Cardinality(1 .. Len(s)) = Len(s)
  <2>1. \A n \in Nat : IsFiniteSet(1 .. n) /\ Cardinality(1 .. n) = n
    BY FS_Interval
  <2>. QED  BY <2>1, <1>3
<1>5. Cardinality(D) <= Cardinality(1 .. Len(s))
  BY <1>3, <1>4, FS_Subset
<1> HIDE DEF D
<1>. QED  BY <1>1, <1>2, <1>4, <1>5

-----------------------------------------------------------------------------
(* Frames.                                                                 *)

LEMMA Encoded ==
  ASSUME NEW kind \in Kinds, NEW p \in Seq(Nat)
  PROVE  /\ Encode(kind, p) \in Seq(Byte) /\ Len(p) \in Nat
         /\ Len(Encode(kind, p)) = Header + Len(p)
         /\ \A i \in 1 .. Header + Len(p) :
              /\ Encode(kind, p)[i].kind = kind /\ Encode(kind, p)[i].at = i
              /\ Encode(kind, p)[i].of = Header + Len(p)
              /\ i > Header => Encode(kind, p)[i].byte = p[i - Header]
<1>1. Len(p) \in Nat /\ \A i \in 1 .. Len(p) : p[i] \in Nat
  BY LenProperties, ElementOfSeq
<1>2. ASSUME NEW i \in 1 .. Header + Len(p)
      PROVE  [kind |-> kind, at |-> i, of |-> Header + Len(p),
              byte |-> IF i > Header THEN p[i - Header] ELSE 0] \in Byte
  <2>1. i > Header => i - Header \in 1 .. Len(p)
    BY <1>1 DEF Header
  <2>2. (IF i > Header THEN p[i - Header] ELSE 0) \in Nat
    BY <2>1, <1>1
  <2>. QED  BY <2>2, <1>1 DEF Byte, Header
<1>3. Header + Len(p) \in Nat
  BY <1>1 DEF Header
<1>. QED  BY <1>1, <1>2, <1>3 DEF Encode

LEMMA EncodedData ==
  ASSUME NEW a \in Nat, NEW n \in Nat
  PROVE  Carries(Encode("data", Numbers(a, n)), a, a + n)
<1> DEFINE p == Numbers(a, n)
           s == Encode("data", p)
<1>1. p \in Seq(Nat) /\ Len(p) = n /\ \A i \in 1 .. n : p[i] = a + i
  BY NumbersFacts
<1> HIDE DEF p
<1>2. /\ s \in Seq(Byte) /\ Len(s) = Header + n
      /\ \A i \in 1 .. Header + n : /\ s[i].kind = "data" /\ s[i].at = i
                                    /\ i > Header => s[i].byte = p[i - Header]
  <2>1. "data" \in Kinds
    BY DEF Kinds
  <2>. QED  BY <2>1, <1>1, Encoded
<1> HIDE DEF s
<1>3. \A i : i \in PayloadAt(s) <=> i \in Header + 1 .. Header + n
  BY <1>2 DEF PayloadAt, Header
<1>4. ASSUME NEW i \in PayloadAt(s) PROVE s[i].byte = a + (i - Header) /\ i \in Int
  <2>1. i \in 1 .. Header + n /\ i > Header /\ i - Header \in 1 .. n
    BY <1>3 DEF Header
  <2>2. s[i].byte = p[i - Header]
    BY <2>1, <1>2
  <2>. QED  BY <2>1, <2>2, <1>1
<1>5. Carries(s, a, a + n)
  <2>1. \A i \in PayloadAt(s) : s[i].byte \in a + 1 .. a + n
    BY <1>3, <1>4 DEF Header
  <2>2. ASSUME NEW k \in a + 1 .. a + n PROVE \E i \in PayloadAt(s) : s[i].byte = k
    <3>1. k - a + Header \in PayloadAt(s)
      BY <1>3 DEF Header
    <3>2. s[k - a + Header].byte = k
      BY <3>1, <1>4 DEF Header
    <3>. QED  BY <3>1, <3>2
  <2>3. \A i, j \in PayloadAt(s) : i < j => s[i].byte < s[j].byte
    BY <1>4 DEF Header
  <2>. QED  BY <2>1, <2>2, <2>3 DEF Carries
<1>. QED  BY <1>5 DEF s, p

LEMMA EncodedOther ==
  ASSUME NEW kind \in Kinds, kind # "data", NEW p \in Seq(Nat), NEW a \in Nat
  PROVE  Carries(Encode(kind, p), a, a)
<1>1. PayloadAt(Encode(kind, p)) = {}
  BY Encoded DEF PayloadAt
<1>2. a + 1 .. a = {}
  OBVIOUS
<1>. QED  BY <1>1, <1>2 DEF Carries

LEMMA FramedPart ==
  ASSUME NEW s \in Seq(Byte), NEW t \in Seq(Byte), Framed(s \o t)
  PROVE  Framed(s)
<1>1. /\ Len(s) \in Nat /\ Len(s \o t) = Len(s) + Len(t) /\ Len(t) \in Nat
      /\ \A i \in 1 .. Len(s) : (s \o t)[i] = s[i]
  BY Concat
<1>2. ASSUME NEW i \in 1 .. Len(s) PROVE Follows(s, i)
  <2>1. i \in 1 .. Len(s \o t)
    BY <1>1
  <2>2. Follows(s \o t, i)
    BY <2>1 DEF Framed
  <2>3. (s \o t)[i] = s[i]
    BY <1>1
  <2>4. i > 1 => (s \o t)[i - 1] = s[i - 1]
    BY <1>1
  <2>. QED  BY <2>2, <2>3, <2>4 DEF Follows
<1>. QED  BY <1>2 DEF Framed

LEMMA FramedMore ==
  ASSUME NEW s \in Seq(Byte), Framed(s), Ended(s), NEW kind \in Kinds, NEW p \in Seq(Nat)
  PROVE  Framed(s \o Encode(kind, p)) /\ Ended(s \o Encode(kind, p))
<1> DEFINE t == Encode(kind, p)
           u == s \o t
           n == Len(s)
<1>1. /\ t \in Seq(Byte) /\ Len(p) \in Nat /\ Len(t) = Header + Len(p)
      /\ \A i \in 1 .. Header + Len(p) : t[i].at = i /\ t[i].of = Header + Len(p)
  BY Encoded
<1> HIDE DEF t
<1>2. /\ u \in Seq(Byte) /\ Len(u) = n + (Header + Len(p)) /\ n \in Nat
      /\ \A i \in 1 .. n : u[i] = s[i]
      /\ \A i \in 1 .. Header + Len(p) : u[n + i] = t[i]
  BY <1>1, Concat
<1> HIDE DEF u
<1>3. ASSUME NEW i \in 1 .. Len(u) PROVE Follows(u, i)
  <2>1. CASE i <= n
    <3>1. i \in 1 .. n
      BY <2>1, <1>2
    <3>2. Follows(s, i) /\ u[i] = s[i] /\ (i > 1 => u[i - 1] = s[i - 1])
      BY <3>1, <1>2 DEF Framed
    <3>. QED  BY <3>2 DEF Follows
  <2>2. CASE i = n + 1
    <3>1. 1 \in 1 .. Header + Len(p)
      BY <1>1 DEF Header
    <3>2. u[n + 1] = t[1] /\ t[1].at = 1
      BY <3>1, <1>1, <1>2
    <3>3. CASE n = 0
      BY <3>2, <3>3, <2>2 DEF Follows
    <3>4. CASE n # 0
      <4>1. s # << >> /\ n \in 1 .. n /\ u[n] = s[n] /\ i - 1 = n
        BY <3>4, <2>2, <1>2
      <4>2. u[i - 1].at = u[i - 1].of
        BY <4>1 DEF Ended
      <4>. QED  BY <3>2, <4>2, <2>2 DEF Follows
    <3>. QED  BY <3>3, <3>4
  <2>3. CASE i > n + 1
    <3> DEFINE k == i - n
    <3>1. k \in 2 .. Header + Len(p) /\ i = n + k /\ i - 1 = n + (k - 1)
      BY <2>3, <1>1, <1>2 DEF Header
    <3> HIDE DEF k
    <3>2. k \in 1 .. Header + Len(p) /\ k - 1 \in 1 .. Header + Len(p) /\ k # 1 /\ i > 1
      BY <3>1, <1>1, <1>2 DEF Header
    <3>3. u[i] = t[k] /\ u[i - 1] = t[k - 1]
      BY <3>1, <3>2, <1>2
    <3>4. t[k].at = k /\ t[k - 1].at = k - 1 /\ t[k].of = t[k - 1].of
      BY <3>2, <1>1
    <3>. QED  BY <3>2, <3>3, <3>4 DEF Follows
  <2>. QED  BY <2>1, <2>2, <2>3, <1>2
<1>4. Ended(u)
  <2>1. Header + Len(p) \in 1 .. Header + Len(p)
    BY <1>1 DEF Header
  <2>2. u[Len(u)] = t[Header + Len(p)]
    BY <2>1, <1>2
  <2>. QED  BY <2>1, <2>2, <1>1 DEF Ended
<1>. QED  BY <1>3, <1>4 DEF Framed, u, t

-----------------------------------------------------------------------------
(* The beginning, and what a step leaves alone.                            *)

LEMMA Sizes == BUFSIZE \in Nat \ {0} /\ DBUFSIZE \in Nat \ {0} /\ MaxUp \in Nat /\ MaxDown \in Nat
  BY WsProxyAssumption

LEMMA Empty ==
  /\ << >> \in Seq(Byte) /\ << >> \in Seq(Nat)
  /\ Len(<< >>) = 0 /\ \A a \in Nat : Numbers(a, 0) = << >>
<1>1. \A a \in Nat : Numbers(a, 0) \in Seq(Nat) /\ Len(Numbers(a, 0)) = 0
  BY NumbersFacts
<1>2. \A s \in Seq(Nat) : Len(s) = 0 => s = << >>
  BY EmptySeq
<1>. QED  BY <1>1, <1>2, EmptySeq

LEMMA TypedFacts ==
  ASSUME Typed
  PROVE  /\ upSent \in Nat /\ downSent \in Nat
         /\ Len(upRcvd) \in Nat /\ Len(tout) \in Nat /\ Len(pipe) \in Nat
         /\ wire \in Seq(Byte) /\ tin \in Seq(Byte) /\ cout \in Seq(Byte) /\ got \in Seq(Byte)
         /\ tout \in Seq(Nat) /\ upRcvd \in Seq(Nat) /\ pipe \in Seq(Nat)
<1>1. upSent \in Nat /\ downSent \in Nat
  <2>1. upSent \in 0 .. MaxUp /\ downSent \in 0 .. MaxDown
    BY Zenon DEF Typed, TypeOK
  <2>. QED  BY <2>1
<1>2. /\ wire \in Seq(Byte) /\ tin \in Seq(Byte) /\ cout \in Seq(Byte) /\ got \in Seq(Byte)
      /\ tout \in Seq(Nat) /\ upRcvd \in Seq(Nat) /\ pipe \in Seq(Nat)
  BY DEF Typed
<1>3. \A s \in Seq(Nat) : Len(s) \in Nat
  BY LenProperties
<1>. QED  BY <1>1, <1>2, <1>3

LEMMA InitIInv == Init => IInv
<1> SUFFICES ASSUME Init PROVE IInv
  OBVIOUS
<1>1. /\ upSent = 0 /\ wire = << >> /\ tin = << >> /\ tout = << >> /\ upRcvd = << >>
      /\ downSent = 0 /\ pipe = << >> /\ cout = << >> /\ got = << >>
  BY DEF Init
<1>2. tin \o wire = << >> /\ got \o cout = << >>
  BY <1>1, Empty, ConcatEmptySeq
<1>3. Carries(<< >>, 0, 0)
  BY CarriesNothing
<1>4. Typed
  <2>1. 0 \in 0 .. MaxUp /\ 0 \in 0 .. MaxDown
    BY Sizes
  <2>. QED  BY <2>1, <1>1, Empty, Zenon DEF Init, Typed, TypeOK
<1>5. UpRight
  BY <1>1, <1>2, <1>3, Empty DEF UpRight
<1>6. DownRight
  <2>1. downSent = 0 /\ Len(pipe) = 0
    BY <1>1, Empty, Zenon
  <2>2. 0 \in 0 .. downSent /\ downSent - Len(pipe) = 0
    BY <2>1
  <2>. QED  BY <2>1, <2>2, <1>1, <1>2, <1>3, Empty DEF DownRight
<1>7. FramesRight
  BY <1>1, <1>2, Empty DEF FramesRight, Framed, Ended
<1>8. RoomLeft
  <2>1. 1 \in 1 .. DBUFSIZE + Header
    BY Sizes DEF Header
  <2>2. OneFrame
    BY <2>1, <1>1, Empty DEF OneFrame
  <2>. QED  BY <2>2, <1>1, Empty, Sizes DEF RoomLeft
<1>9. NothingLeft
  BY DEF Init, NothingLeft
<1>. QED  BY <1>4, <1>5, <1>6, <1>7, <1>8, <1>9 DEF IInv

LEMMA UpKept == ASSUME UpRight, UNCHANGED up PROVE UpRight'
  BY DEF UpRight, up
LEMMA DownKept ==
  ASSUME DownRight, FramesRight, UNCHANGED down, client' # "reset" => client # "reset"
  PROVE  DownRight' /\ FramesRight'
  BY DEF DownRight, FramesRight, down
LEMMA RoomKept == ASSUME RoomLeft, UNCHANGED <<tin, tout, cout>> PROVE RoomLeft'
  BY DEF RoomLeft, OneFrame

(* The loop is left, for a reason other than the target.                   *)
LEMMA LeaveKeeps ==
  ASSUME IInv, NEW why \in {"target error", "close frame", "client closed"}, Leave(why)
  PROVE  IInv'
<1>1. ended' = why /\ UNCHANGED <<up, down, client, target>>
  BY DEF Leave
<1>2. UpRight' /\ DownRight' /\ FramesRight'
  BY <1>1, UpKept, DownKept DEF IInv
<1>3. RoomLeft'
  BY <1>1, RoomKept DEF IInv, up, down
<1>4. Typed'
  BY <1>1 DEF IInv, Typed, TypeOK, up, down
<1>5. NothingLeft'
  BY <1>1 DEF NothingLeft
<1>. QED  BY <1>2, <1>3, <1>4, <1>5 DEF IInv

-----------------------------------------------------------------------------
(* The peers.                                                              *)

LEMMA SendFrameKeeps == ASSUME IInv, NEW f \in Frames, SendFrame(f) PROVE IInv'
<1> DEFINE n == IF f.kind = "data" THEN f.size ELSE 0
           bytes == IF f.kind = "data" THEN Numbers(upSent, n) ELSE [i \in 1 .. f.size |-> 0]
           e == Encode(f.kind, bytes)
<1>1. f.kind \in Kinds /\ f.size \in Nat /\ n \in Nat
  BY WsProxyAssumption DEF Kinds
<1>2. /\ upSent + n <= MaxUp /\ upSent' = upSent + n /\ wire' = wire \o e
      /\ UNCHANGED <<tin, tout, upRcvd, opcode, down, ends>>
  BY DEF SendFrame
<1>3. /\ upSent \in Nat /\ MaxUp \in Nat /\ wire \in Seq(Byte) /\ tin \in Seq(Byte)
      /\ tout \in Seq(Nat) /\ upRcvd \in Seq(Nat)
  BY TypedFacts, Sizes DEF IInv
<1>4. bytes \in Seq(Nat)
  <2>1. [i \in 1 .. f.size |-> 0] \in Seq(Nat)
    BY <1>1
  <2>2. Numbers(upSent, n) \in Seq(Nat)
    BY <1>1, <1>3, NumbersFacts
  <2>. QED  BY <2>1, <2>2, Zenon
<1>5. e \in Seq(Byte)
  BY <1>1, <1>4, Encoded
<1>6. Carries(e, upSent, upSent + n)
  <2>1. CASE f.kind = "data"
    BY <2>1, <1>1, <1>3, EncodedData
  <2>2. CASE f.kind # "data"
    <3>1. n = 0 /\ upSent + n = upSent
      BY <2>2, <1>3
    <3>2. Carries(e, upSent, upSent)
      BY <2>2, <1>1, <1>3, <1>4, EncodedOther
    <3>. QED  BY <3>1, <3>2
  <2>. QED  BY <2>1, <2>2
<1> HIDE DEF n, bytes, e
<1>7. Typed'
  <2>1. wire' \in Seq(Byte)
    BY <1>2, <1>3, <1>5, Concat
  <2>2. upSent' \in 0 .. MaxUp
    BY <1>1, <1>2, <1>3
  <2>. QED  BY <2>1, <2>2, <1>2 DEF IInv, Typed, TypeOK, down, ends
<1>8. UpRight'
  <2> DEFINE from == Len(upRcvd) + Len(tout)
  <2>1. /\ from \in Nat /\ from <= upSent /\ Carries(tin \o wire, from, upSent)
        /\ tin \o wire \in Seq(Byte)
    BY <1>3, Concat, LenProperties DEF IInv, UpRight
  <2>2. Carries((tin \o wire) \o e, from, upSent + n)
    <3>1. upSent + n \in Nat /\ upSent <= upSent + n
      BY <1>1, <1>3
    <3> HIDE DEF from
    <3>. QED  BY <3>1, <2>1, <1>3, <1>5, <1>6, CarriesConcat
  <2>3. (tin \o wire) \o e = tin \o wire'
    <3>1. (tin \o wire) \o e = tin \o (wire \o e)
      BY <1>3, <1>5, ConcatAssociative
    <3>. QED  BY <3>1, <1>2, Zenon
  <2>4. from <= upSent'
    BY <2>1, <1>1, <1>2, <1>3
  <2>. QED  BY <2>2, <2>3, <2>4, <1>2 DEF IInv, UpRight
<1>9. DownRight' /\ FramesRight'
  BY <1>2, DownKept DEF IInv, ends
<1>10. RoomLeft' /\ NothingLeft'
  BY <1>2, RoomKept DEF IInv, NothingLeft, down, ends
<1>. QED  BY <1>7, <1>8, <1>9, <1>10 DEF IInv

LEMMA TargetSendsKeeps == ASSUME IInv, NEW n \in 1 .. MaxDown, TargetSends(n) PROVE IInv'
<1> DEFINE k == Len(pipe)
           a == downSent - Len(pipe)
<1>1. /\ target = "open" /\ downSent + n <= MaxDown
      /\ downSent' = downSent + n /\ pipe' = pipe \o Numbers(downSent, n)
      /\ UNCHANGED <<up, cout, got, ends>>
  BY DEF TargetSends
<1>2. /\ n \in Nat /\ k \in Nat /\ downSent \in Nat /\ a \in Nat /\ pipe = Numbers(a, k)
      /\ downSent = a + k /\ MaxDown \in Nat
  BY TypedFacts, Sizes DEF IInv, DownRight
<1> HIDE DEF k, a
<1>3. pipe' = Numbers(a, k + n)
  BY <1>1, <1>2, NumbersConcat
<1>4. pipe' \in Seq(Nat) /\ Len(pipe') = k + n /\ downSent' - Len(pipe') = a
  <2>1. k + n \in Nat
    BY <1>2
  <2>2. pipe' \in Seq(Nat) /\ Len(pipe') = k + n
    BY <2>1, <1>2, <1>3, NumbersFacts
  <2>. QED  BY <2>2, <1>1, <1>2
<1>5. Typed'
  <2>1. downSent' \in 0 .. MaxDown
    BY <1>1, <1>2
  <2>. QED  BY <2>1, <1>1, <1>4 DEF IInv, Typed, TypeOK, up, ends
<1>6. DownRight'
  <2>1. Len(pipe') <= downSent'
    BY <1>1, <1>2, <1>4
  <2>2. PICK m \in 0 .. downSent : Carries(got, 0, m)
    BY DEF IInv, DownRight
  <2>3. m \in 0 .. downSent' /\ Carries(got', 0, m)
    BY <2>2, <1>1, <1>2
  <2>4. client # "reset" => Carries(got \o cout, 0, a)
    BY DEF IInv, DownRight, a
  <2>. QED  BY <2>1, <2>3, <2>4, <1>1, <1>3, <1>4 DEF DownRight, ends
<1>7. FramesRight' /\ UpRight' /\ RoomLeft'
  BY <1>1, UpKept, RoomKept DEF IInv, FramesRight, ends, up
<1>8. NothingLeft'
  BY <1>1 DEF IInv, NothingLeft, ends
<1>. QED  BY <1>5, <1>6, <1>7, <1>8 DEF IInv

LEMMA PeersGo == ASSUME IInv, ClientGoes \/ TargetGoes PROVE IInv'
<1>1. /\ UNCHANGED <<up, down, ended>>
      /\ client' # "reset" => client # "reset"
      /\ client' \in {"open", "closed", "reset"} /\ target' \in {"open", "closed"}
      /\ target # "open" => target' # "open"
  BY DEF ClientGoes, TargetGoes, IInv, Typed, TypeOK
<1>2. UpRight' /\ DownRight' /\ FramesRight'
  BY <1>1, UpKept, DownKept DEF IInv
<1>3. RoomLeft'
  BY <1>1, RoomKept DEF IInv, up, down
<1>4. Typed'
  BY <1>1 DEF IInv, Typed, TypeOK, up, down
<1>5. NothingLeft'
  BY <1>1 DEF IInv, NothingLeft, down
<1>. QED  BY <1>2, <1>3, <1>4, <1>5 DEF IInv

-----------------------------------------------------------------------------
(* The loop.                                                               *)

LEMMA WriteTargetKeeps == ASSUME IInv, WriteTarget PROVE IInv'
<1>1. CASE target # "open" /\ Leave("target error")
  BY <1>1, LeaveKeeps
<1>2. ASSUME target = "open",
             \E n \in 1 .. Len(tout) : /\ upRcvd' = upRcvd \o SubSeq(tout, 1, n)
                                       /\ tout' = Drop(tout, n),
             UNCHANGED <<upSent, wire, tin, opcode, down, ends>>
      PROVE  IInv'
  <2> DEFINE m == Len(upRcvd)
             k == Len(tout)
  <2>1. PICK n \in 1 .. k : /\ upRcvd' = upRcvd \o SubSeq(tout, 1, n)
                            /\ tout' = Drop(tout, n)
    BY <1>2
  <2>2. /\ m \in Nat /\ k \in Nat /\ upRcvd = Numbers(0, m) /\ tout = Numbers(m, k)
        /\ n \in Nat /\ n \in 0 .. k /\ k - n \in Nat /\ m + n \in Nat /\ 0 + m = m
    BY TypedFacts DEF IInv, UpRight
  <2>3. Carries(tin \o wire, m + k, upSent) /\ m + k <= upSent /\ k < BUFSIZE
    BY DEF IInv, UpRight, RoomLeft
  <2> HIDE DEF m, k
  <2>4. upRcvd' = Numbers(0, m + n)
    <3>1. SubSeq(tout, 1, n) = Numbers(m, n)
      BY <2>2, NumbersCut
    <3>2. Numbers(0, m) \o Numbers(0 + m, n) = Numbers(0, m + n)
      BY <2>2, NumbersConcat
    <3>. QED  BY <3>1, <3>2, <2>1, <2>2
  <2>5. tout' = Numbers(m + n, k - n)
    BY <2>1, <2>2, NumbersCut
  <2>6. /\ upRcvd' \in Seq(Nat) /\ Len(upRcvd') = m + n
        /\ tout' \in Seq(Nat) /\ Len(tout') = k - n
    BY <2>2, <2>4, <2>5, NumbersFacts
  <2>7. m + n + (k - n) = m + k
    BY <2>2
  <2>8. UpRight'
    BY <2>3, <2>4, <2>5, <2>6, <2>7, <1>2 DEF UpRight
  <2>9. Typed'
    BY <2>6, <1>2 DEF IInv, Typed, TypeOK, down, ends
  <2>10. RoomLeft'
    <3>1. Len(tout') < BUFSIZE
      BY <2>2, <2>3, <2>6, Sizes
    <3>. QED  BY <3>1, <1>2 DEF IInv, RoomLeft, OneFrame, down
  <2>11. DownRight' /\ FramesRight'
    BY <1>2, DownKept DEF IInv, ends
  <2>12. NothingLeft'
    BY <1>2 DEF IInv, NothingLeft, down, ends
  <2>. QED  BY <2>8, <2>9, <2>10, <2>11, <2>12 DEF IInv
<1>. QED  BY <1>1, <1>2 DEF WriteTarget

(* Whatever is left in cout_buf for a client that is reset, it is one      *)
(* frame's rest.                                                           *)
LEMMA ClientReset ==
  ASSUME cout \in Seq(Byte), cout # << >>, OneFrame,
         cout' = IF Head(cout).at = 1 THEN << >>
                 ELSE <<[Head(cout) EXCEPT !.at = @ - 1]>> \o cout
  PROVE  cout' \in Seq(Byte) /\ OneFrame'
<1>1. CASE Head(cout).at = 1
  <2>1. cout' = << >>
    BY <1>1
  <2>2. 1 \in 1 .. DBUFSIZE + Header
    BY Sizes DEF Header
  <2>3. \A i \in 1 .. Len(cout') : FALSE
    BY <2>1, Empty
  <2>4. OneFrame'
    BY <2>2, <2>3, Zenon DEF OneFrame
  <2>. QED  BY <2>1, <2>4, Empty
<1>2. CASE Head(cout).at # 1
  <2> DEFINE first == [Head(cout) EXCEPT !.at = @ - 1]
             n == Len(cout)
  <2>1. n \in Nat \ {0} /\ Head(cout) = cout[1]
    BY EmptySeq
  <2>2. cout[1] \in Byte /\ cout[1].at \in Nat \ {0}
    BY <2>1, ByteFacts
  <2>3. cout[1].at - 1 \in Nat \ {0}
    BY <2>1, <2>2, <1>2
  <2>4. first \in Byte /\ first.at = cout[1].at - 1 /\ first.of = cout[1].of
    BY <2>1, <2>2, <2>3 DEF Byte
  <2> HIDE DEF first
  <2>5. cout' = <<first>> \o cout
    BY <1>2 DEF first
  <2>6. <<first>> \in Seq(Byte) /\ Len(<<first>>) = 1 /\ <<first>>[1] = first
    BY <2>4
  <2>7. /\ cout' \in Seq(Byte) /\ Len(cout') = n + 1
        /\ cout'[1] = first /\ \A i \in 1 .. n : cout'[1 + i] = cout[i]
    <3> DEFINE one == <<first>>
    <3>1. one \in Seq(Byte) /\ Len(one) = 1 /\ one[1] = first /\ cout' = one \o cout
      BY <2>5, <2>6
    <3> HIDE DEF one
    <3>2. /\ one \o cout \in Seq(Byte) /\ Len(one \o cout) = Len(one) + n
          /\ \A i \in 1 .. Len(one) : (one \o cout)[i] = one[i]
          /\ \A i \in 1 .. n : (one \o cout)[Len(one) + i] = cout[i]
      BY <3>1, Concat
    <3>3. 1 + n = n + 1 /\ 1 \in 1 .. 1
      BY <2>1
    <3> HIDE DEF n
    <3>4. Len(cout') = n + 1 /\ cout' \in Seq(Byte)
      BY <3>1, <3>2, <3>3, Zenon
    <3>5. cout'[1] = first
      <4>1. 1 \in 1 .. Len(one)
        BY <3>1
      <4>2. (one \o cout)[1] = one[1]
        BY <3>2, <4>1, Zenon
      <4>. QED  BY <3>1, <4>2, Zenon
    <3>6. \A i \in 1 .. n : cout'[1 + i] = cout[i]
      BY <3>1, <3>2, Zenon
    <3>. QED  BY <3>4, <3>5, <3>6, Zenon
  <2>8. PICK size \in 1 .. DBUFSIZE + Header :
          \A i \in 1 .. n : cout[i].of = size /\ cout[i].at = size - n + i
    BY DEF OneFrame
  <2> HIDE DEF n
  <2>9. size \in Int
    BY <2>8, Sizes DEF Header
  <2>10. ASSUME NEW i \in 1 .. n + 1
        PROVE  cout'[i].of = size /\ cout'[i].at = size - (n + 1) + i
    <3>1. CASE i = 1
      <4>1. cout[1].of = size /\ cout[1].at = size - n + 1
        BY <2>1, <2>8
      <4>. QED  BY <3>1, <4>1, <2>1, <2>4, <2>7, <2>9
    <3>2. CASE i # 1
      <4>1. i - 1 \in 1 .. n /\ i = 1 + (i - 1)
        BY <3>2, <2>1
      <4>2. cout'[i] = cout[i - 1]
        BY <4>1, <2>7
      <4>3. cout[i - 1].of = size /\ cout[i - 1].at = size - n + (i - 1)
        BY <4>1, <2>8
      <4>4. size - n + (i - 1) = size - (n + 1) + i
        BY <2>1, <2>9
      <4>. QED  BY <4>2, <4>3, <4>4, Zenon
    <3>. QED  BY <3>1, <3>2
  <2>11. \A i \in 1 .. Len(cout') : cout'[i].of = size /\ cout'[i].at = size - Len(cout') + i
    BY <2>7, <2>10
  <2>. QED  BY <2>7, <2>8, <2>11 DEF OneFrame
<1>. QED  BY <1>1, <1>2

LEMMA WriteClientKeeps == ASSUME IInv, WriteClient PROVE IInv'
<1>1. /\ ended = "" /\ cout # << >> /\ UNCHANGED <<up, downSent, pipe, ends>>
  BY DEF WriteClient
<1>2. UpRight' /\ NothingLeft' /\ UNCHANGED <<tin, tout, client>>
  BY <1>1, UpKept DEF IInv, NothingLeft, up, ends
<1>3. /\ cout \in Seq(Byte) /\ got \in Seq(Byte) /\ downSent \in Nat
      /\ Len(pipe) \in Nat /\ OneFrame /\ Len(pipe) <= downSent
  BY TypedFacts DEF IInv, RoomLeft, DownRight
<1>4. SUFFICES /\ got' \in Seq(Byte) /\ cout' \in Seq(Byte) /\ OneFrame'
               /\ \E n \in 0 .. downSent : Carries(got', 0, n)
               /\ Framed(got')
               /\ client # "reset" => /\ Carries(got' \o cout', 0, downSent - Len(pipe))
                                      /\ Framed(got' \o cout') /\ Ended(got' \o cout')
  <2>1. Typed'
    BY <1>1, <1>4 DEF IInv, Typed, TypeOK, up, ends
  <2>2. DownRight' /\ FramesRight'
    BY <1>1, <1>4 DEF IInv, DownRight, FramesRight, ends
  <2>3. RoomLeft'
    BY <1>2, <1>4 DEF IInv, RoomLeft
  <2>. QED  BY <2>1, <2>2, <2>3, <1>2 DEF IInv
<1>5. CASE client = "reset"
  <2>1. /\ got' = got
        /\ cout' = IF Head(cout).at = 1 THEN << >>
                   ELSE <<[Head(cout) EXCEPT !.at = @ - 1]>> \o cout
    BY <1>5 DEF WriteClient
  <2>2. cout' \in Seq(Byte) /\ OneFrame'
    BY <2>1, <1>1, <1>3, ClientReset
  <2>. QED  BY <2>1, <2>2, <1>3, <1>5 DEF IInv, DownRight, FramesRight
<1>6. ASSUME client # "reset", NEW n \in 1 .. Len(cout),
             got' = got \o SubSeq(cout, 1, n), cout' = Drop(cout, n)
      PROVE  /\ got' \in Seq(Byte) /\ cout' \in Seq(Byte) /\ OneFrame'
             /\ \E k \in 0 .. downSent : Carries(got', 0, k)
             /\ Framed(got')
             /\ Carries(got' \o cout', 0, downSent - Len(pipe))
             /\ Framed(got' \o cout') /\ Ended(got' \o cout')
  <2> DEFINE sent == SubSeq(cout, 1, n)
             left == Drop(cout, n)
             m == Len(cout)
             c == downSent - Len(pipe)
  <2>1. m \in Nat /\ n \in 0 .. m /\ c \in Nat /\ c <= downSent
    BY <1>3, LenProperties
  <2>2. /\ sent \in Seq(Byte) /\ left \in Seq(Byte) /\ Len(left) = m - n
        /\ \A i \in 1 .. m - n : left[i] = cout[n + i]
        /\ sent \o left = cout
    BY <2>1, <1>3, Cut
  <2> HIDE DEF sent, left, m
  <2>3. got' = got \o sent /\ cout' = left
    BY <1>6 DEF sent, left
  <2>4. got' \in Seq(Byte) /\ cout' \in Seq(Byte)
    BY <2>2, <2>3, <1>3, Concat
  <2>5. got' \o cout' = got \o cout
    <3>1. sent \in Seq(Byte) /\ left \in Seq(Byte) /\ got \in Seq(Byte)
      BY <2>2, <1>3
    <3>2. (got \o sent) \o left = got \o (sent \o left)
      BY <3>1, ConcatBytes, Zenon
    <3>. QED  BY <3>2, <2>2, <2>3
  <2>6. /\ Carries(got \o cout, 0, c) /\ Framed(got \o cout) /\ Ended(got \o cout)
    BY <1>6 DEF IInv, DownRight, FramesRight
  <2>7. PICK k \in 0 .. c : Carries(got', 0, k)
    <3>1. Carries(got' \o cout', 0, c)
      BY <2>5, <2>6
    <3>. QED  BY <3>1, <2>1, <2>4, CarriesSplit
  <2>8. Framed(got')
    BY <2>4, <2>5, <2>6, FramedPart
  <2>9. OneFrame'
    <3>1. PICK size \in 1 .. DBUFSIZE + Header :
            \A i \in 1 .. m : cout[i].of = size /\ cout[i].at = size - m + i
      BY <1>3 DEF OneFrame, m
    <3>2. ASSUME NEW i \in 1 .. m - n
          PROVE  left[i].of = size /\ left[i].at = size - (m - n) + i
      <4>1. n + i \in 1 .. m /\ left[i] = cout[n + i]
        BY <2>1, <2>2
      <4>2. size \in Int
        BY <3>1, Sizes DEF Header
      <4>. QED  BY <4>1, <4>2, <3>1, <2>1
    <3>3. \A i \in 1 .. Len(cout') : cout'[i].of = size /\ cout'[i].at = size - Len(cout') + i
      BY <3>2, <2>2, <2>3
    <3>. QED  BY <3>1, <3>3, Zenon DEF OneFrame
  <2>10. k \in 0 .. downSent
    BY <2>1, <1>3
  <2>. QED  BY <2>4, <2>5, <2>6, <2>7, <2>8, <2>9, <2>10, Zenon
<1>. QED  BY <1>5, <1>6, <1>4 DEF WriteClient

LEMMA LeastFacts ==
  ASSUME NEW a \in Nat, NEW b \in Nat, NEW n \in 1 .. Least(a, b)
  PROVE  n \in Nat /\ n <= a /\ n <= b /\ n >= 1
  BY DEF Least

LEMMA ReadTargetKeeps == ASSUME IInv, ReadTarget PROVE IInv'
<1>1. ended = "" /\ cout = << >>
  BY DEF ReadTarget
<1>2. CASE pipe = << >> /\ target # "open" /\ Leave("target closed")
  <2>1. ended' = "target closed" /\ UNCHANGED <<up, down, client, target>>
    BY <1>2 DEF Leave
  <2>2. UpRight' /\ DownRight' /\ FramesRight'
    BY <2>1, UpKept, DownKept DEF IInv
  <2>3. RoomLeft'
    BY <2>1, RoomKept DEF IInv, up, down
  <2>4. Typed'
    BY <2>1 DEF IInv, Typed, TypeOK, up, down
  <2>5. NothingLeft'
    BY <2>1, <1>1, <1>2 DEF NothingLeft, down
  <2>. QED  BY <2>2, <2>3, <2>4, <2>5 DEF IInv
<1>3. ASSUME NEW n \in 1 .. Least(DBUFSIZE, Len(pipe)),
             cout' = Encode("data", SubSeq(pipe, 1, n)), pipe' = Drop(pipe, n),
             UNCHANGED <<up, downSent, got, ends>>
      PROVE  IInv'
  <2> DEFINE k == Len(pipe)
             a == downSent - Len(pipe)
             p == Numbers(a, n)
             e == Encode("data", p)
  <2>1. /\ k \in Nat /\ downSent \in Nat /\ a \in Nat /\ downSent = a + k
        /\ pipe = Numbers(a, k) /\ got \in Seq(Byte) /\ DBUFSIZE \in Nat
    BY TypedFacts, Sizes DEF IInv, DownRight
  <2>2. n \in Nat /\ n \in 0 .. k /\ n <= DBUFSIZE /\ n >= 1 /\ k - n \in Nat /\ a + n \in Nat
    BY <2>1, LeastFacts
  <2>3. UNCHANGED <<client, target, ended, tin, tout>> /\ UpRight' /\ NothingLeft'
    BY <1>1, <1>3, UpKept DEF IInv, NothingLeft, up, ends
  <2>4. Carries(got, 0, a) \/ client = "reset"
    <3>1. got \o cout = got
      BY <1>1, <2>1, ConcatEmptySeq
    <3>. QED  BY <3>1 DEF IInv, DownRight, a
  <2>5. (Framed(got) /\ Ended(got)) \/ client = "reset"
    <3>1. got \o cout = got
      BY <1>1, <2>1, ConcatEmptySeq
    <3>. QED  BY <3>1 DEF IInv, FramesRight
  <2> HIDE DEF k, a
  <2>6. SubSeq(pipe, 1, n) = p /\ pipe' = Numbers(a + n, k - n)
    BY <2>1, <2>2, <1>3, NumbersCut
  <2>7. pipe' \in Seq(Nat) /\ Len(pipe') = k - n
    BY <2>2, <2>6, NumbersFacts
  <2>8. cout' = e /\ p \in Seq(Nat) /\ Len(p) = n /\ "data" \in Kinds
    BY <2>1, <2>2, <2>6, <1>3, NumbersFacts DEF Kinds
  <2>9. Carries(e, a, a + n)
    BY <2>1, <2>2, EncodedData
  <2> HIDE DEF p
  <2>10. /\ e \in Seq(Byte) /\ Len(e) = Header + n
         /\ \A i \in 1 .. Header + n : e[i].at = i /\ e[i].of = Header + n
    BY <2>8, Encoded
  <2>11. client # "reset" => Framed(got \o e) /\ Ended(got \o e)
    BY <2>1, <2>5, <2>8, FramedMore
  <2> HIDE DEF e
  <2>12. Typed'
    <3>1. cout' \in Seq(Byte)
      BY <2>8, <2>10
    <3>. QED  BY <3>1, <2>7, <1>3 DEF IInv, Typed, TypeOK, up, ends
  <2>13. DownRight'
    <3>1. downSent' - Len(pipe') = a + n /\ Len(pipe') <= downSent'
      BY <2>1, <2>2, <2>7, <1>3
    <3>2. client # "reset" => Carries(got \o e, 0, a + n)
      BY <2>1, <2>2, <2>4, <2>9, <2>10, CarriesConcat
    <3>. QED  BY <3>1, <3>2, <2>3, <2>6, <2>7, <2>8, <1>3 DEF IInv, DownRight
  <2>14. FramesRight'
    BY <2>3, <2>8, <2>11, <1>3 DEF IInv, FramesRight
  <2>15. RoomLeft'
    <3>1. Header + n \in 1 .. DBUFSIZE + Header
      BY <2>1, <2>2 DEF Header
    <3>2. \A i \in 1 .. Len(e) : e[i].of = Header + n /\ e[i].at = (Header + n) - Len(e) + i
      BY <2>2, <2>10 DEF Header
    <3>3. OneFrame'
      BY <3>1, <3>2, <2>8 DEF OneFrame
    <3>. QED  BY <3>3, <2>3 DEF IInv, RoomLeft
  <2>. QED  BY <2>3, <2>12, <2>13, <2>14, <2>15 DEF IInv
<1>. QED  BY <1>2, <1>3 DEF ReadTarget

LEMMA WholePart ==
  ASSUME NEW buf \in Seq(Byte)
  PROVE  Whole(buf) \in 0 .. Len(buf)
<1> DEFINE last == {i \in 1 .. Len(buf) : buf[i].at = buf[i].of}
<1>1. Len(buf) \in Nat
  BY LenProperties
<1>2. CASE last = {}
  BY <1>1, <1>2 DEF Whole
<1>3. CASE last # {}
  <2>1. Whole(buf) = CHOOSE i \in last : \A j \in last : j <= i
    BY <1>3, Zenon DEF Whole
  <2>2. last \subseteq 1 .. Len(buf)
    OBVIOUS
  <2> HIDE DEF last
  <2>3. \E i \in last : \A j \in last : j <= i
    BY <1>1, <1>3, <2>2, Greatest
  <2>4. Whole(buf) \in last
    BY <2>1, <2>3, Zenon
  <2>5. Whole(buf) \in 1 .. Len(buf)
    BY <2>2, <2>4, Zenon
  <2>. QED  BY <2>5, <1>1
<1>. QED  BY <1>2, <1>3

LEMMA OpcodeKind ==
  ASSUME NEW buf \in Seq(Byte), opcode \in {"none", "data", "ping"}
  PROVE  LastOpcode(buf) \in Kinds \cup {"none"}
<1> DEFINE seen == {i \in 1 .. Len(buf) : buf[i].at = Header}
<1>1. \A i \in 1 .. Len(buf) : buf[i].kind \in Kinds
  <2> TAKE i \in 1 .. Len(buf)
  <2>1. buf[i] \in Byte
    BY ElementOfSeq
  <2>. QED  BY <2>1 DEF Byte
<1>2. CASE seen = {}
  BY <1>2 DEF LastOpcode, Kinds
<1>3. CASE seen # {}
  <2> DEFINE i == CHOOSE i \in seen : \A j \in seen : j <= i
  <2>1. LastOpcode(buf) = buf[i].kind
    BY <1>3, Zenon DEF LastOpcode
  <2>2. i \in seen
    <3>1. PICK k \in seen : \A j \in seen : j <= k
      <4>1. seen \subseteq 1 .. Len(buf) /\ Len(buf) \in Nat
        BY LenProperties
      <4> HIDE DEF seen
      <4>. QED  BY <4>1, <1>3, Greatest
    <3>. QED  BY <3>1, Zenon
  <2>3. i \in 1 .. Len(buf)
    BY <2>2
  <2> HIDE DEF i
  <2>. QED  BY <1>1, <2>1, <2>3, Zenon
<1>. QED  BY <1>2, <1>3

LEMMA ReadClientKeeps == ASSUME IInv, ReadClient PROVE IInv'
<1> DEFINE room == BUFSIZE - 1 - Len(tin)
<1>1. ended = "" /\ tout = << >>
  BY DEF ReadClient
<1>2. CASE Leave("client closed") \/ Leave("close frame")
  BY <1>2, LeaveKeeps
<1>3. ASSUME room > 0, NEW n \in 1 .. Least(room, Len(wire)),
             LET buf == tin \o SubSeq(wire, 1, n)
                 op == LastOpcode(buf)
             IN  /\ op # "close" /\ opcode' = op
                 /\ tout' = Payload(SubSeq(buf, 1, Whole(buf)))
                 /\ tin' = Drop(buf, Whole(buf))
                 /\ wire' = Drop(wire, n)
                 /\ UNCHANGED <<upSent, upRcvd, down, ends>>
      PROVE  IInv'
  <2> DEFINE read == SubSeq(wire, 1, n)
             buf == tin \o read
             k == Whole(buf)
             part == SubSeq(buf, 1, k)
             rest == Drop(buf, k)
             left == Drop(wire, n)
             from == Len(upRcvd)
  <2>1. /\ LastOpcode(buf) # "close" /\ opcode' = LastOpcode(buf)
        /\ tout' = Payload(part) /\ tin' = rest /\ wire' = left
        /\ UNCHANGED <<upSent, upRcvd, down, ends>>
    BY <1>3, Zenon
  <2>2. /\ wire \in Seq(Byte) /\ tin \in Seq(Byte) /\ upSent \in Nat /\ from \in Nat
        /\ Len(tin) \in Nat /\ Len(wire) \in Nat /\ room \in Nat
        /\ opcode \in {"none", "data", "ping"}
    <3>1. \A s \in Seq(Byte) : Len(s) \in Nat
      BY LenProperties
    <3>2. /\ wire \in Seq(Byte) /\ tin \in Seq(Byte) /\ upSent \in Nat /\ from \in Nat
      BY TypedFacts DEF IInv
    <3>3. room \in Nat
      BY <3>1, <3>2, <1>3, Sizes
    <3>4. opcode \in {"none", "data", "ping"}
      BY Zenon DEF IInv, Typed, TypeOK
    <3>. QED  BY <3>1, <3>2, <3>3, <3>4, Zenon
  <2>3. n \in 0 .. Len(wire) /\ n \in Nat /\ Len(tin) + n < BUFSIZE
    <3>1. n \in Nat /\ n <= room /\ n <= Len(wire)
      BY <2>2, LeastFacts
    <3>. QED  BY <3>1, <2>2, Sizes
  <2>4. /\ read \in Seq(Byte) /\ Len(read) = n /\ left \in Seq(Byte) /\ read \o left = wire
    BY <2>2, <2>3, Cut
  <2> HIDE DEF read, left
  <2>5. buf \in Seq(Byte) /\ Len(buf) = Len(tin) + n /\ buf \o left = tin \o wire
    <3>1. buf \in Seq(Byte) /\ Len(buf) = Len(tin) + n
      BY <2>2, <2>4, Concat
    <3>2. (tin \o read) \o left = tin \o (read \o left)
      BY <2>2, <2>4, ConcatBytes, Zenon
    <3>. QED  BY <3>1, <3>2, <2>4
  <2> HIDE DEF buf
  <2>6. k \in 0 .. Len(buf)
    BY <2>5, WholePart
  <2> HIDE DEF k
  <2>7. /\ part \in Seq(Byte) /\ Len(part) = k /\ rest \in Seq(Byte)
        /\ Len(rest) = Len(buf) - k /\ part \o rest = buf
    BY <2>5, <2>6, Cut
  <2> HIDE DEF part, rest
  <2>8. part \o (rest \o left) = tin \o wire /\ rest \o left \in Seq(Byte)
    <3>1. (part \o rest) \o left = part \o (rest \o left)
      BY <2>4, <2>7, ConcatBytes, Zenon
    <3>. QED  BY <3>1, <2>4, <2>5, <2>7, Concat
  <2>9. Carries(part \o (rest \o left), from, upSent) /\ from <= upSent
    <3>1. Len(upRcvd) + Len(tout) = from
      <4>1. Len(tout) = 0
        BY <1>1, Empty, Zenon
      <4>. QED  BY <4>1, <2>2
    <3>. QED  BY <3>1, <2>8 DEF IInv, UpRight
  <2> HIDE DEF from
  <2>10. PICK b \in from .. upSent : Carries(part, from, b) /\ Carries(rest \o left, b, upSent)
    BY <2>2, <2>7, <2>8, <2>9, CarriesSplit
  <2>11. b \in Nat /\ b - from \in Nat /\ from <= b /\ b <= upSent /\ from + (b - from) = b
    BY <2>2, <2>10
  <2>12. tout' = Numbers(from, b - from) /\ tout' \in Seq(Nat) /\ Len(tout') = b - from
    <3>1. Payload(part) = Numbers(from, b - from)
      BY <2>2, <2>7, <2>10, <2>11, CarriedPayload
    <3>2. tout' = Numbers(from, b - from)
      BY <3>1, <2>1, Zenon
    <3>3. /\ Numbers(from, b - from) \in Seq(Nat)
          /\ Len(Numbers(from, b - from)) = b - from
      BY <2>2, <2>11, NumbersFacts
    <3>. QED  BY <3>2, <3>3, Zenon
  <2>13. UpRight'
    <3>1. upRcvd = Numbers(0, from)
      BY DEF IInv, UpRight, from
    <3>2. Len(upRcvd') = from /\ upRcvd' = upRcvd /\ upSent' = upSent
      BY <2>1 DEF from
    <3>3. Len(upRcvd') + Len(tout') = b
      BY <3>2, <2>11, <2>12
    <3>. QED  BY <3>1, <3>2, <3>3, <2>1, <2>10, <2>11, <2>12 DEF UpRight
  <2>14. Typed'
    <3>1. LastOpcode(buf) \in Kinds \cup {"none"}
      BY <2>2, <2>5, OpcodeKind
    <3>2. opcode' \in {"none", "data", "ping"}
      BY <3>1, <2>1 DEF Kinds
    <3>3. tin' \in Seq(Byte) /\ wire' \in Seq(Byte)
      BY <2>1, <2>4, <2>7
    <3>. QED  BY <3>2, <3>3, <2>1, <2>12 DEF IInv, Typed, TypeOK, down, ends
  <2>15. RoomLeft'
    <3>1. Len(tin') < BUFSIZE
      BY <2>1, <2>2, <2>3, <2>5, <2>6, <2>7, Sizes
    <3>2. b - from <= k
      BY <2>2, <2>7, <2>10, <2>11, CarriedLength
    <3>3. Len(tout') < BUFSIZE
      BY <3>2, <2>2, <2>3, <2>5, <2>6, <2>11, <2>12, Sizes
    <3>. QED  BY <3>1, <3>3, <2>1 DEF IInv, RoomLeft, OneFrame, down
  <2>16. DownRight' /\ FramesRight'
    BY <2>1, DownKept DEF IInv, ends
  <2>17. NothingLeft'
    BY <2>1 DEF IInv, NothingLeft, down, ends
  <2>. QED  BY <2>13, <2>14, <2>15, <2>16, <2>17 DEF IInv
<1>. QED  BY <1>2, <1>3, Zenon DEF ReadClient

LEMMA Standing == ASSUME IInv, UNCHANGED vars PROVE IInv'
<1>1. UNCHANGED <<up, down, ends>> /\ UNCHANGED <<client, target, ended, tin, tout, cout>>
  BY DEF vars, up, down, ends
<1>2. UpRight' /\ DownRight' /\ FramesRight'
  BY <1>1, UpKept, DownKept DEF IInv
<1>3. RoomLeft'
  BY <1>1, RoomKept DEF IInv
<1>4. Typed' /\ NothingLeft'
  BY <1>1 DEF IInv, Typed, TypeOK, NothingLeft, up, down, ends
<1>. QED  BY <1>2, <1>3, <1>4 DEF IInv

LEMMA NextKeeps == IInv /\ [Next]_vars => IInv'
<1> SUFFICES ASSUME IInv, [Next]_vars PROVE IInv'
  OBVIOUS
<1>1. CASE \E f \in Frames : SendFrame(f)
  BY <1>1, SendFrameKeeps
<1>2. CASE \E n \in 1 .. MaxDown : TargetSends(n)
  BY <1>2, TargetSendsKeeps
<1>3. CASE ClientGoes \/ TargetGoes
  BY <1>3, PeersGo
<1>4. CASE Loop
  BY <1>4, WriteTargetKeeps, WriteClientKeeps, ReadTargetKeeps, ReadClientKeeps DEF Loop
<1>5. CASE Finish \/ UNCHANGED vars
  BY <1>5, Standing DEF Finish
<1>. QED  BY <1>1, <1>2, <1>3, <1>4, <1>5 DEF Next

-----------------------------------------------------------------------------
(* The theorems.                                                           *)

(* What is on its way through the proxy is numbered without a gap and in   *)
(* frames, in every buffer (do_proxy).                                     *)
THEOREM Invariant == Spec => []IInv
  BY InitIInv, NextKeeps, PTL DEF Spec

(* The variables have their types; a close frame's opcode is never kept,   *)
(* because the loop is left then.                                          *)
THEOREM TypeCorrect == Spec => []TypeOK
<1>1. IInv => TypeOK
  BY DEF IInv, Typed
<1>. QED  BY <1>1, Invariant, PTL

(* tin_buf, tout_buf and cout_buf never overflow, and the client is sent   *)
(* whole frames in whatever parts send() takes them.                       *)
THEOREM FramesStayWhole == Spec => []FramesIntact
<1>1. ASSUME IInv PROVE FramesIntact
  <2>1. Len(cout) <= DBUFSIZE + Header
    <3>1. cout \in Seq(Byte) /\ OneFrame
      BY <1>1 DEF IInv, Typed, RoomLeft
    <3>2. Len(cout) \in Nat
      BY <3>1, LenProperties
    <3>3. PICK size \in 1 .. DBUFSIZE + Header :
            \A i \in 1 .. Len(cout) : cout[i].of = size /\ cout[i].at = size - Len(cout) + i
      BY <3>1 DEF OneFrame
    <3>4. size \in Nat /\ size <= DBUFSIZE + Header
      BY <3>3, Sizes DEF Header
    <3>5. CASE Len(cout) = 0
      BY <3>5, Sizes DEF Header
    <3>6. CASE Len(cout) # 0
      <4>1. 1 \in 1 .. Len(cout)
        BY <3>2, <3>6
      <4>2. cout[1].at = size - Len(cout) + 1 /\ cout[1].at \in Nat \ {0}
        BY <4>1, <3>1, <3>3, ByteFacts
      <4>. QED  BY <4>2, <3>2, <3>4, Sizes DEF Header
    <3>. QED  BY <3>5, <3>6
  <2>. QED  BY <2>1, <1>1 DEF IInv, FramesIntact, FramesRight, RoomLeft, Framed, Follows
<1>. QED  BY <1>1, Invariant, PTL

(* When the loop ends because recv() says that the target has closed, the  *)
(* client has been sent all that came from it.                             *)
THEOREM LastWordsArrive == Spec => []LastWords
<1>1. ASSUME IInv, ended = "target closed", client # "reset"
      PROVE  Len(Payload(got)) = downSent
  <2>1. cout = << >> /\ Len(pipe) = 0
    BY <1>1, Empty DEF IInv, NothingLeft
  <2>2. got \in Seq(Byte) /\ downSent \in Nat
    BY <1>1, TypedFacts DEF IInv
  <2>3. got \o cout = got
    BY <2>1, <2>2, ConcatEmptySeq
  <2>4. downSent - Len(pipe) = downSent
    BY <2>1, <2>2
  <2>5. Carries(got, 0, downSent)
    BY <2>3, <2>4, <1>1 DEF IInv, DownRight
  <2>6. Payload(got) = Numbers(0, downSent - 0) /\ downSent - 0 = downSent
    BY <2>2, <2>5, CarriedPayload
  <2>. QED  BY <2>2, <2>6, NumbersFacts
<1>2. IInv => LastWords
  BY <1>1 DEF LastWords
<1>. QED  BY <1>2, Invariant, PTL

LEMMA CountedFromOne == ASSUME NEW n \in Nat PROVE Numbers(0, n) = [i \in 1 .. n |-> i]
<1>1. \A i \in 1 .. n : 0 + i = i
  OBVIOUS
<1>. QED  BY <1>1 DEF Numbers

LEMMA UpStep == IInv /\ IInv' /\ [Next]_vars => [Up!Next]_<<upSent, upRcvd>>
<1> SUFFICES ASSUME IInv, IInv', [Next]_vars
             PROVE  Up!Send \/ Up!Arrive \/ UNCHANGED <<upSent, upRcvd>>
  BY DEF Up!Next
<1>1. CASE \E f \in Frames : SendFrame(f)
  <2>1. PICK f \in Frames : SendFrame(f)
    BY <1>1
  <2> DEFINE n == IF f.kind = "data" THEN f.size ELSE 0
  <2>2. n \in Nat
    BY WsProxyAssumption
  <2>3. upSent' = upSent + n /\ upRcvd' = upRcvd
    BY <2>1 DEF SendFrame
  <2>4. upSent \in Nat
    BY TypedFacts DEF IInv
  <2> HIDE DEF n
  <2>5. CASE n = 0
    BY <2>3, <2>4, <2>5
  <2>6. CASE n # 0
    BY <2>2, <2>3, <2>4, <2>6 DEF Up!Send
  <2>. QED  BY <2>5, <2>6
<1>2. CASE WriteTarget
  <2>1. CASE Leave("target error")
    BY <2>1 DEF Leave, up
  <2>2. ASSUME NEW n \in 1 .. Len(tout), upRcvd' = upRcvd \o SubSeq(tout, 1, n),
               upSent' = upSent
        PROVE  Up!Arrive
    <3>1. /\ tout \in Seq(Nat) /\ upRcvd \in Seq(Nat) /\ upSent \in Nat
          /\ Len(upRcvd) \in Nat /\ Len(tout) \in Nat
      BY TypedFacts DEF IInv
    <3>2. SubSeq(tout, 1, n) \in Seq(Nat) /\ Len(SubSeq(tout, 1, n)) = n /\ n \in Nat \ {0}
      BY <3>1, Cut
    <3>3. Len(upRcvd') = Len(upRcvd) + n
      BY <2>2, <3>1, <3>2, Concat
    <3>4. upRcvd' = Numbers(0, Len(upRcvd')) /\ Len(upRcvd') + Len(tout') <= upSent'
      BY DEF IInv, UpRight
    <3>5. Len(tout') \in Nat
      <4>1. tout' \in Seq(Nat)
        BY DEF IInv, Typed
      <4>. QED  BY <4>1, LenProperties
    <3>6. Len(upRcvd') \in Len(upRcvd) + 1 .. upSent
      BY <2>2, <3>1, <3>2, <3>3, <3>4, <3>5
    <3>7. upRcvd' = [i \in 1 .. Len(upRcvd') |-> i]
      <4>1. Len(upRcvd') \in Nat
        BY <3>1, <3>2, <3>3
      <4>. QED  BY <4>1, <3>4, CountedFromOne
    <3>. QED  BY <2>2, <3>6, <3>7 DEF Up!Arrive
  <2>. QED  BY <2>1, <2>2, <1>2 DEF WriteTarget
<1>3. CASE \/ \E n \in 1 .. MaxDown : TargetSends(n)
           \/ ClientGoes \/ TargetGoes \/ WriteClient \/ ReadTarget \/ ReadClient
           \/ Finish \/ UNCHANGED vars
  <2>1. UNCHANGED <<upSent, upRcvd>>
    BY <1>3 DEF TargetSends, ClientGoes, TargetGoes, WriteClient, ReadTarget, ReadClient,
                Leave, Finish, vars, up
  <2>. QED  BY <2>1
<1>. QED  BY <1>1, <1>2, <1>3 DEF Next, Loop

LEMMA DownStep ==
  IInv /\ IInv' /\ [Next]_vars => [Down!Next]_<<downSent, Payload(got)>>
<1> SUFFICES ASSUME IInv, IInv', [Next]_vars
             PROVE  Down!Send \/ Down!Arrive \/ UNCHANGED <<downSent, Payload(got)>>
  BY DEF Down!Next
<1>1. ASSUME NEW n \in 1 .. MaxDown, TargetSends(n) PROVE Down!Send
  <2>1. downSent' = downSent + n /\ got' = got /\ downSent \in Nat
    BY <1>1, TypedFacts DEF TargetSends, IInv
  <2>. QED  BY <2>1 DEF Down!Send, Payload, PayloadAt, Place
<1>2. CASE WriteClient
  <2>1. downSent' = downSent /\ downSent \in Nat /\ got \in Seq(Byte)
    BY <1>2, TypedFacts DEF WriteClient, IInv
  <2>2. CASE got' = got
    BY <2>1, <2>2 DEF Payload, PayloadAt, Place
  <2>3. ASSUME NEW n \in 1 .. Len(cout), got' = got \o SubSeq(cout, 1, n)
        PROVE  Down!Arrive \/ UNCHANGED <<downSent, Payload(got)>>
    <3> DEFINE sent == SubSeq(cout, 1, n)
    <3>1. sent \in Seq(Byte)
      <4>1. cout \in Seq(Byte) /\ Len(cout) \in Nat
        BY TypedFacts, LenProperties DEF IInv
      <4>. QED  BY <4>1, Cut
    <3> HIDE DEF sent
    <3>2. PICK c \in 0 .. downSent' : Carries(got', 0, c)
      BY DEF IInv, DownRight
    <3>3. c \in Nat /\ c <= downSent /\ got' = got \o sent /\ got' \in Seq(Byte)
      BY <2>1, <2>3, <3>1, <3>2, Concat DEF sent
    <3>4. PICK b \in 0 .. c : Carries(got, 0, b)
      BY <2>1, <3>1, <3>2, <3>3, CarriesSplit
    <3>5. b \in Nat /\ b <= c
      BY <3>3, <3>4
    <3>6. Payload(got) = Numbers(0, b) /\ Len(Payload(got)) = b
      <4>1. Payload(got) = Numbers(0, b - 0) /\ b - 0 = b
        BY <2>1, <3>4, <3>5, CarriedPayload
      <4>. QED  BY <4>1, <3>5, NumbersFacts
    <3>7. Payload(got') = Numbers(0, c) /\ Len(Payload(got')) = c
      <4>1. 0 \in Nat /\ 0 <= c /\ c - 0 = c
        BY <3>3
      <4>2. Payload(got') = Numbers(0, c - 0)
        BY <4>1, <3>2, <3>3, CarriedPayload, Zenon
      <4>. QED  BY <4>1, <4>2, <3>3, NumbersFacts
    <3>8. Payload(got)' = Payload(got')
      BY DEF Payload, PayloadAt, Place
    <3>9. CASE b = c
      BY <3>6, <3>7, <3>8, <3>9, <2>1
    <3>10. CASE b # c
      <4>1. c \in b + 1 .. downSent
        BY <3>3, <3>5, <3>10, <2>1
      <4>2. Payload(got') = [i \in 1 .. c |-> i]
        BY <3>3, <3>7, CountedFromOne
      <4>. QED  BY <4>1, <4>2, <3>6, <3>7, <3>8, <2>1 DEF Down!Arrive
    <3>. QED  BY <3>9, <3>10
  <2>. QED  BY <2>2, <2>3, <1>2 DEF WriteClient
<1>3. CASE \/ \E f \in Frames : SendFrame(f)
           \/ ClientGoes \/ TargetGoes \/ WriteTarget \/ ReadTarget \/ ReadClient
           \/ Finish \/ UNCHANGED vars
  <2>1. downSent' = downSent /\ got' = got
    BY <1>3 DEF SendFrame, ClientGoes, TargetGoes, WriteTarget, ReadTarget, ReadClient,
                Leave, Finish, vars, down
  <2>. QED  BY <2>1 DEF Payload, PayloadAt, Place
<1>. QED  BY <1>1, <1>2, <1>3 DEF Next, Loop

(* Both directions of do_proxy implement a channel that delivers bytes in  *)
(* order and each once, however frames are cut up: every step of the loop  *)
(* is a step of the channel or none.                                       *)
THEOREM BytesInOrder == Spec => InOrder
<1>1. Init => Up!Init /\ Down!Init
  <2> SUFFICES ASSUME Init PROVE Up!Init /\ Down!Init
    OBVIOUS
  <2>1. upSent = 0 /\ upRcvd = << >> /\ downSent = 0 /\ got = << >>
    BY DEF Init
  <2>2. Payload(got) = << >>
    <3>1. Carries(<< >>, 0, 0)
      BY CarriesNothing
    <3>2. 0 \in Nat /\ 0 <= 0 /\ 0 - 0 = 0
      OBVIOUS
    <3>3. Payload(<< >>) = Numbers(0, 0 - 0)
      BY <3>1, <3>2, Empty, CarriedPayload, Zenon
    <3>4. Payload(<< >>) = Numbers(0, 0)
      BY <3>2, <3>3, Zenon
    <3>. QED  BY <3>2, <3>4, <2>1, Empty, Zenon
  <2>. QED  BY <2>1, <2>2 DEF Up!Init, Down!Init
<1>. QED  BY <1>1, Invariant, UpStep, DownStep, PTL DEF Spec, InOrder, Up!Spec, Down!Spec

-----------------------------------------------------------------------------
(* No byte goes missing, and no whole frame stays behind *)

(* Behind the last complete frame there is only the beginning of another.  *)
LEMMA RestIsPart ==
  ASSUME NEW buf \in Seq(Byte)
  PROVE  \A i \in 1 .. Len(Drop(buf, Whole(buf))) :
           Drop(buf, Whole(buf))[i].at # Drop(buf, Whole(buf))[i].of
<1> DEFINE last == {i \in 1 .. Len(buf) : buf[i].at = buf[i].of}
           k == Whole(buf)
<1>1. Len(buf) \in Nat
  BY LenProperties
<1>2. \A j \in last : j <= k
  <2>1. CASE last = {}
    BY <2>1
  <2>2. CASE last # {}
    <3>1. k = CHOOSE i \in last : \A j \in last : j <= i
      BY <2>2, Zenon DEF Whole
    <3>2. last \subseteq 1 .. Len(buf)
      OBVIOUS
    <3> HIDE DEF last, k
    <3>3. \E i \in last : \A j \in last : j <= i
      BY <1>1, <2>2, <3>2, Greatest
    <3>. QED  BY <3>1, <3>3, Zenon
  <2>. QED  BY <2>1, <2>2
<1>3. k \in 0 .. Len(buf)
  BY WholePart
<1> HIDE DEF k
<1>4. /\ Len(Drop(buf, k)) = Len(buf) - k
      /\ \A i \in 1 .. Len(buf) - k : Drop(buf, k)[i] = buf[k + i]
  BY <1>3, Cut
<1>5. ASSUME NEW i \in 1 .. Len(buf) - k PROVE buf[k + i].at # buf[k + i].of
  <2>1. k + i \in 1 .. Len(buf) /\ ~(k + i <= k)
    BY <1>1, <1>3
  <2>. QED  BY <1>2, <2>1
<1>. QED  BY <1>4, <1>5 DEF k

(* What is kept in tin_buf between two reads.                              *)
OnlyPart == \A i \in 1 .. Len(tin) : tin[i].at # tin[i].of

LEMMA PartKept == ASSUME IInv, OnlyPart, [Next]_vars PROVE OnlyPart'
<1>1. CASE tin' = tin
  BY <1>1 DEF OnlyPart
<1>2. CASE ReadClient /\ tin' # tin
  <2> DEFINE room == BUFSIZE - 1 - Len(tin)
  <2>1. PICK n \in 1 .. Least(room, Len(wire)) :
          room > 0 /\ tin' = Drop(tin \o SubSeq(wire, 1, n), Whole(tin \o SubSeq(wire, 1, n)))
    BY <1>2 DEF ReadClient, Leave, up
  <2>2. wire \in Seq(Byte) /\ tin \in Seq(Byte) /\ Len(tin) \in Nat /\ Len(wire) \in Nat
    <3>1. wire \in Seq(Byte) /\ tin \in Seq(Byte)
      BY TypedFacts DEF IInv
    <3>. QED  BY <3>1, LenProperties
  <2>3. n \in 0 .. Len(wire)
    <3>1. room \in Nat
      BY <2>1, <2>2, Sizes
    <3>. QED  BY <3>1, <2>2, LeastFacts
  <2>4. SubSeq(wire, 1, n) \in Seq(Byte)
    BY <2>2, <2>3, Cut
  <2> DEFINE buf == tin \o SubSeq(wire, 1, n)
  <2>5. buf \in Seq(Byte)
    BY <2>2, <2>4, Concat
  <2>6. tin' = Drop(buf, Whole(buf))
    BY <2>1
  <2> HIDE DEF buf
  <2>. QED  BY <2>5, <2>6, RestIsPart DEF OnlyPart
<1>3. ReadClient \/ tin' = tin
  BY DEF Next, Loop, SendFrame, TargetSends, ClientGoes, TargetGoes, WriteTarget, WriteClient,
         ReadTarget, Leave, Finish, vars, up
<1>. QED  BY <1>1, <1>2, <1>3

(* The books of either direction balance: each byte sent is with the other *)
(* end, in one of the proxy's buffers, or still to be read; and what is    *)
(* kept in tin_buf is only the beginning of a frame.                       *)
NothingLost ==
  /\ upSent = Len(upRcvd) + Len(tout) + Len(Payload(tin \o wire))
  /\ OnlyPart
  /\ client # "reset" => downSent = Len(Payload(got \o cout)) + Len(pipe)

LEMMA CarriedCount ==
  ASSUME NEW s \in Seq(Byte), NEW a \in Nat, NEW c \in Nat, a <= c, Carries(s, a, c)
  PROVE  Len(Payload(s)) = c - a
<1>1. Payload(s) = Numbers(a, c - a) /\ c - a \in Nat
  BY CarriedPayload
<1>. QED  BY <1>1, NumbersFacts

(* do_proxy drops nothing on its way, whatever parts reads and writes come *)
(* in: partial frames are kept, whole ones passed on, and tout_buf and     *)
(* cout_buf are not refilled before they are empty.                        *)
THEOREM NoByteLost == Spec => []NothingLost
<1>1. Init => OnlyPart
  <2>1. ASSUME tin = << >> PROVE OnlyPart
    <3>1. Len(tin) = 0
      BY <2>1, Empty
    <3>2. ASSUME NEW i \in 1 .. Len(tin) PROVE FALSE
      BY <3>1, <3>2
    <3>. QED  BY <3>2 DEF OnlyPart
  <2>. QED  BY <2>1 DEF Init
<1>2. IInv /\ OnlyPart /\ [Next]_vars => OnlyPart'
  BY PartKept
<1>3. ASSUME IInv, OnlyPart PROVE NothingLost
  <2>1. /\ upSent \in Nat /\ downSent \in Nat
        /\ Len(upRcvd) \in Nat /\ Len(tout) \in Nat /\ Len(pipe) \in Nat
        /\ tin \o wire \in Seq(Byte) /\ got \o cout \in Seq(Byte)
    BY <1>3, TypedFacts, Concat DEF IInv
  <2>2. upSent = Len(upRcvd) + Len(tout) + Len(Payload(tin \o wire))
    <3> DEFINE a == Len(upRcvd) + Len(tout)
    <3>1. a \in Nat /\ a <= upSent /\ Carries(tin \o wire, a, upSent)
      BY <1>3, <2>1 DEF IInv, UpRight
    <3>2. Len(Payload(tin \o wire)) = upSent - a
      BY <2>1, <3>1, CarriedCount
    <3>. QED  BY <2>1, <3>2
  <2>3. ASSUME client # "reset" PROVE downSent = Len(Payload(got \o cout)) + Len(pipe)
    <3> DEFINE c == downSent - Len(pipe)
    <3>1. c \in Nat /\ 0 <= c /\ Carries(got \o cout, 0, c)
      BY <1>3, <2>1, <2>3 DEF IInv, DownRight
    <3>2. Len(Payload(got \o cout)) = c - 0
      BY <2>1, <3>1, CarriedCount
    <3>. QED  BY <2>1, <3>2
  <2>. QED  BY <1>3, <2>2, <2>3 DEF NothingLost
<1>. QED  BY <1>1, <1>2, <1>3, Invariant, PTL DEF Spec
=============================================================================
