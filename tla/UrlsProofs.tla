------------------------------ MODULE UrlsProofs ------------------------------
(***************************************************************************)
(* What parse_url and urlencode do to every string, and the properties of  *)
(* Urls.                                                                   *)
(***************************************************************************)
EXTENDS Urls, WellFoundedInduction, SequenceTheorems, TLAPS

(* Induction on strings is by the shortest counterexample: every set of     *)
(* naturals that is not empty has a least element.                          *)
LEMMA Least ==
  ASSUME NEW T, T \subseteq Nat, T # {}
  PROVE  \E x \in T : \A y \in T : x <= y
<1> DEFINE R == {ss \in Nat \X Nat : ss[1] < ss[2]}
<1>1. IsWellFoundedOn(R, Nat)
  BY NatLessThanWellFounded DEF OpToRel
<1>2. PICK x \in T : \A y \in T : <<y, x>> \notin R
  <2> HIDE DEF R
  <2> QED BY <1>1, WFMin
<1>3. ASSUME NEW y \in T PROVE x <= y
  <2>1. x \in Nat /\ y \in Nat
    OBVIOUS
  <2>2. <<y, x>> \in Nat \X Nat /\ <<y, x>> \notin R
    BY <1>2, <2>1
  <2>3. ~ (y < x)
    BY <2>2
  <2> QED BY <2>1, <2>3
<1> QED BY <1>3

(* Place is what its definition asks for: such a place always exists.       *)
LEMMA FirstPlace ==
  ASSUME NEW s \in Seq(Nat), NEW delimiters
  PROVE  /\ Place(s, delimiters) \in 1..(Len(s) + 1)
         /\ Place(s, delimiters) # Len(s) + 1 => s[Place(s, delimiters)] \in delimiters
         /\ \A i \in 1..(Place(s, delimiters) - 1) : s[i] \notin delimiters
<1> DEFINE T == {n \in 1..(Len(s) + 1) : n = Len(s) + 1 \/ s[n] \in delimiters}
<1>1. Len(s) \in Nat
  BY LenProperties
<1>2. T \subseteq Nat /\ Len(s) + 1 \in T
  BY <1>1
<1>3. PICK n \in T : \A m \in T : n <= m
  <2> HIDE DEF T
  <2> QED BY <1>2, Least
<1>4. \A i \in 1..(n - 1) : s[i] \notin delimiters
  <2> SUFFICES ASSUME NEW i \in 1..(n - 1), s[i] \in delimiters PROVE FALSE
    OBVIOUS
  <2>1. i \in T
    BY <1>1
  <2> QED BY <2>1, <1>1, <1>3
<1>5. n \in 1..(Len(s) + 1) /\ (n = Len(s) + 1 \/ s[n] \in delimiters)
  OBVIOUS
<1> QED BY <1>4, <1>5 DEF Place

(* ... and only one.                                                        *)
LEMMA PlaceIs ==
  ASSUME NEW s \in Seq(Nat), NEW delimiters, NEW n \in 1..(Len(s) + 1),
         n = Len(s) + 1 \/ s[n] \in delimiters,
         \A i \in 1..(n - 1) : s[i] \notin delimiters
  PROVE  Place(s, delimiters) = n
<1> DEFINE m == Place(s, delimiters)
<1>1. Len(s) \in Nat
  BY LenProperties
<1>2. /\ m \in 1..(Len(s) + 1)
      /\ m # Len(s) + 1 => s[m] \in delimiters
      /\ \A i \in 1..(m - 1) : s[i] \notin delimiters
  BY FirstPlace
<1> HIDE DEF m
<1>3. ~ (m < n)
  BY <1>1, <1>2
<1>4. ~ (n < m)
  BY <1>1, <1>2
<1> QED BY <1>1, <1>2, <1>3, <1>4 DEF m

(* Strings in a row.                                                        *)
LEMMA Catenation ==
  ASSUME NEW s \in Seq(Nat), NEW t \in Seq(Nat)
  PROVE  /\ s \o t \in Seq(Nat)
         /\ Len(s \o t) = Len(s) + Len(t)
         /\ \A i \in 1..Len(s) : (s \o t)[i] = s[i]
         /\ \A i \in 1..Len(t) : (s \o t)[Len(s) + i] = t[i]
<1>1. /\ s \o t \in Seq(Nat)
      /\ Len(s \o t) = Len(s) + Len(t)
  BY ConcatProperties
<1>2. \A i \in 1 .. Len(s) + Len(t) :
        (s \o t)[i] = IF i <= Len(s) THEN s[i] ELSE t[i - Len(s)]
  BY ConcatProperties
<1>3. Len(s) \in Nat /\ Len(t) \in Nat
  BY LenProperties
<1> DEFINE m == Len(s) n == Len(t) c == s \o t
<1>4. /\ m \in Nat /\ n \in Nat
      /\ \A i \in 1 .. m + n : c[i] = IF i <= m THEN s[i] ELSE t[i - m]
  BY <1>2, <1>3
<1> HIDE DEF m, n, c
<1>5. \A i \in 1..m : c[i] = s[i]
  BY <1>4
<1>6. ASSUME NEW i \in 1..n PROVE c[m + i] = t[i]
  <2>1. m + i \in 1 .. m + n /\ ~ (m + i <= m) /\ (m + i) - m = i
    BY <1>4
  <2> QED BY <2>1, <1>4
<1> QED BY <1>1, <1>5, <1>6 DEF m, n, c

(* A part of a string.                                                      *)
LEMMA Part ==
  ASSUME NEW s \in Seq(Nat), NEW i \in 1..(Len(s) + 1), NEW j \in 0..Len(s), j >= i - 1
  PROVE  /\ SubSeq(s, i, j) \in Seq(Nat)
         /\ Len(SubSeq(s, i, j)) = j - i + 1
         /\ \A n \in 1..(j - i + 1) : SubSeq(s, i, j)[n] = s[i + n - 1]
<1>1. Len(s) \in Nat /\ \A n \in 1..Len(s) : s[n] \in Nat
  BY LenProperties, ElementOfSeq
<1>2. i \in Int /\ j \in Int /\ \A n \in i..j : s[n] \in Nat
  BY <1>1
<1>3. /\ SubSeq(s, i, j) \in Seq(Nat)
      /\ Len(SubSeq(s, i, j)) = IF i <= j THEN j - i + 1 ELSE 0
      /\ \A n \in 1..(j - i + 1) : SubSeq(s, i, j)[n] = s[i + n - 1]
  BY <1>2, SubSeqProperties
<1> QED BY <1>1, <1>2, <1>3

(* Lower changes letters only.                                              *)
LEMMA LowerProperties ==
  ASSUME NEW s \in Seq(Nat)
  PROVE  /\ Lower(s) \in Seq(Nat)
         /\ Len(Lower(s)) = Len(s)
         /\ \A i \in 1..Len(s) : s[i] \notin 65..90 => Lower(s)[i] = s[i]
<1>1. Len(s) \in Nat /\ DOMAIN s = 1..Len(s) /\ \A i \in 1..Len(s) : s[i] \in Nat
  BY LenProperties, ElementOfSeq
<1> DEFINE k == Len(s)
           l == [i \in 1..k |-> IF s[i] \in 65..90 THEN s[i] + 32 ELSE s[i]]
<1>2. l \in [1..k -> Nat]
  BY <1>1
<1>3. Lower(s) = l
  BY <1>1 DEF Lower
<1>4. Len(l) = k
  BY <1>1, <1>2
<1>5. l \in Seq(Nat)
  BY <1>1, <1>2
<1> QED BY <1>3, <1>4, <1>5

-----------------------------------------------------------------------------

(* The characters of a URL.                                                 *)
LEMMA JoinedProperties ==
  ASSUME NEW P \in Seq(Nat), NEW R \in Seq(Nat)
  PROVE  /\ Joined(P, R) \in Seq(Nat)
         /\ Len(Joined(P, R)) = Len(P) + 3 + Len(R)
         /\ \A i \in 1..Len(P) : Joined(P, R)[i] = P[i]
         /\ Joined(P, R)[Len(P) + 1] = Colon
         /\ Joined(P, R)[Len(P) + 2] = Slash
         /\ Joined(P, R)[Len(P) + 3] = Slash
         /\ \A i \in 1..Len(R) : Joined(P, R)[Len(P) + 3 + i] = R[i]
<1> DEFINE D == <<Colon, Slash, Slash>>
           PD == P \o D
           p == Len(P)
<1>1. /\ D \in Seq(Nat) /\ Len(D) = 3
      /\ D[1] = Colon /\ D[2] = Slash /\ D[3] = Slash
  BY DEF Colon, Slash
<1>2. p \in Nat
  BY LenProperties
<1> HIDE DEF D
<1>3. /\ PD \in Seq(Nat) /\ Len(PD) = Len(P) + Len(D)
      /\ \A i \in 1..Len(P) : PD[i] = P[i]
      /\ \A i \in 1..Len(D) : PD[Len(P) + i] = D[i]
  BY <1>1, Catenation
<1> HIDE DEF PD
<1>4. /\ PD \o R \in Seq(Nat) /\ Len(PD \o R) = Len(PD) + Len(R)
      /\ \A i \in 1..Len(PD) : (PD \o R)[i] = PD[i]
      /\ \A i \in 1..Len(R) : (PD \o R)[Len(PD) + i] = R[i]
  BY <1>3, Catenation
<1>5. /\ Joined(P, R) \in Seq(Nat) /\ Len(Joined(P, R)) = Len(PD) + Len(R)
      /\ \A i \in 1..Len(PD) : Joined(P, R)[i] = PD[i]
      /\ \A i \in 1..Len(R) : Joined(P, R)[Len(PD) + i] = R[i]
  <2>1. Joined(P, R) = PD \o R
    BY DEF Joined, D, PD
  <2> QED BY <1>4, <2>1
<1>6. Len(PD) = p + 3
  BY <1>1, <1>3
<1>7. PD[p + 1] = Colon /\ PD[p + 2] = Slash /\ PD[p + 3] = Slash
  BY <1>1, <1>3
<1>8. \A i \in 1..p : PD[i] = P[i]
  BY <1>3
<1> HIDE DEF p
<1>9. /\ Joined(P, R)[p + 1] = Colon
      /\ Joined(P, R)[p + 2] = Slash
      /\ Joined(P, R)[p + 3] = Slash
  <2>1. \A i \in 1..(p + 3) : Joined(P, R)[i] = PD[i]
    BY <1>5, <1>6
  <2> QED BY <2>1, <1>2, <1>7
<1>10. \A i \in 1..p : Joined(P, R)[i] = P[i]
  BY <1>2, <1>5, <1>6, <1>8
<1> QED BY <1>5, <1>6, <1>9, <1>10 DEF p

(* What url_regex takes for the protocol is the protocol.                   *)
LEMMA ProtocolOf ==
  ASSUME NEW P \in Seq(Nat), OneProtocol(P), NEW R \in Seq(Nat),
         NEW n \in ProtocolLengths(Joined(P, R))
  PROVE  n = Len(P) /\ SubSeq(Joined(P, R), 1, n) = P
<1> DEFINE U == Joined(P, R)
           p == Len(P)
           s == SubSeq(U, 1, n)
           d == SubSeq(U, n + 1, n + 3)
<1>1. /\ U \in Seq(Nat) /\ Len(U) = p + 3 + Len(R)
      /\ \A i \in 1..p : U[i] = P[i]
      /\ U[p + 1] = Colon
      /\ p \in Nat /\ Len(R) \in Nat
  BY JoinedProperties, LenProperties
<1>2. /\ n \in {4, 5} /\ n + 3 <= Len(U)
      /\ Lower(s) \in {Http, Https}
      /\ d = <<Colon, Slash, Slash>>
  BY DEF ProtocolLengths, Http, Https
<1> HIDE DEF U
<1>3. Len(U) \in Nat
  BY <1>1, LenProperties
<1>4. /\ s \in Seq(Nat) /\ Len(s) = n
      /\ \A i \in 1..n : s[i] = U[i]
  <2>1. 1 \in 1..(Len(U) + 1) /\ n \in 0..Len(U) /\ n >= 1 - 1
    BY <1>2, <1>3
  <2>2. /\ s \in Seq(Nat) /\ Len(s) = n - 1 + 1
        /\ \A i \in 1..(n - 1 + 1) : s[i] = U[1 + i - 1]
    BY <1>1, <2>1, Part
  <2> HIDE DEF s
  <2> QED BY <2>2, <1>2
<1>5. U[n + 1] = Colon /\ U[n + 2] = Slash /\ U[n + 3] = Slash
  <2>1. \A i \in 1..((n + 3) - (n + 1) + 1) : d[i] = U[(n + 1) + i - 1]
    BY <1>1, <1>2, <1>3, Part
  <2>2. d[1] = U[n + 1] /\ d[2] = U[n + 2] /\ d[3] = U[n + 3]
    <3> HIDE DEF d
    <3> QED BY <2>1, <1>2
  <2>3. d[1] = Colon /\ d[2] = Slash /\ d[3] = Slash
    <3> HIDE DEF d
    <3> QED BY <1>2
  <2> QED BY <2>2, <2>3
<1> HIDE DEF s, d
<1>6. \A i \in 1..n : U[i] # Colon
  <2> SUFFICES ASSUME NEW i \in 1..n, U[i] = Colon PROVE FALSE
    OBVIOUS
  <2>1. s[i] = 58
    BY <1>4 DEF Colon
  <2>2. Lower(s)[i] = 58 /\ Len(Lower(s)) = n
    <3>1. i \in 1..Len(s) /\ s[i] \notin 65..90
      BY <1>4, <2>1
    <3>2. /\ Len(Lower(s)) = Len(s)
          /\ \A j \in 1..Len(s) : s[j] \notin 65..90 => Lower(s)[j] = s[j]
      BY <1>4, LowerProperties
    <3> QED BY <1>4, <2>1, <3>1, <3>2
  <2>3. \A j \in 1..4 : Http[j] # 58
    BY DEF Http
  <2>4. \A j \in 1..5 : Https[j] # 58
    BY DEF Https
  <2>5. Len(Http) = 4 /\ Len(Https) = 5
    BY DEF Http, Https
  <2> QED BY <2>2, <2>3, <2>4, <2>5, <1>2
<1> HIDE DEF p
<1>7. ~ (p < n)
  BY <1>1, <1>2, <1>6
<1>8. ~ (n < p)
  <2> SUFFICES ASSUME n < p PROVE FALSE
    OBVIOUS
  <2>1. CASE n + 3 <= p
    <3>1. P[n + 1] = Colon /\ P[n + 2] = Slash /\ P[n + 3] = Slash
      <4>1. n + 1 \in 1..p /\ n + 2 \in 1..p /\ n + 3 \in 1..p
        BY <1>1, <1>2, <2>1
      <4> QED BY <4>1, <1>1, <1>5
    <3>2. n + 1 \in 1..(p - 2)
      BY <1>1, <1>2, <2>1
    <3>3. (n + 1) + 1 = n + 2 /\ (n + 1) + 2 = n + 3
      BY <1>2
    <3> QED BY <3>1, <3>2, <3>3 DEF OneProtocol, p
  <2>2. CASE n + 1 = p \/ n + 2 = p
    BY <1>1, <1>2, <1>5, <2>2 DEF Colon, Slash
  <2> QED BY <1>1, <1>2, <2>1, <2>2
<1>9. n = p
  BY <1>1, <1>2, <1>7, <1>8
<1>10. s = P
  BY <1>1, <1>4, <1>9, SeqEqual DEF p
<1> QED BY <1>9, <1>10 DEF U, p, s

(* What Matches asks of a match, said of the part behind the protocol: the  *)
(* lengths of the host, the optional colon and the port.                    *)
MatchOf(R, h, k, q) ==
  /\ h + k + q <= Len(R)
  /\ \A i \in 1..h : R[i] \notin HostDelimiters
  /\ k = 1 => R[h + 1] = Colon
  /\ \A i \in (h + k + 1)..(h + k + q) : R[i] \notin PortDelimiters
  /\ \A i \in (h + k + q + 1)..Len(R) : R[i] # Space

(* The matches of a URL.                                                    *)
LEMMA MatchOfRest ==
  ASSUME NEW P \in Seq(Nat), OneProtocol(P), NEW R \in Seq(Nat),
         NEW n, NEW h, NEW k, NEW q
  PROVE  <<n, h, k, q>> \in Matches(Joined(P, R))
           <=> /\ n = Len(P) /\ n \in ProtocolLengths(Joined(P, R))
               /\ h \in 1..Len(R) /\ k \in 0..1 /\ q \in 0..Len(R)
               /\ MatchOf(R, h, k, q)
<1> DEFINE U == Joined(P, R)
           p == Len(P)
           r == Len(R)
           u == Len(U)
           L == ProtocolLengths(U)
<1>1. /\ p \in Nat /\ r \in Nat /\ u = p + 3 + r
      /\ \A i \in 1..r : U[p + 3 + i] = R[i]
  BY JoinedProperties, LenProperties
<1>2. n \in L => n = p
  BY ProtocolOf
<1>3. <<n, h, k, q>> \in Matches(U)
        <=> /\ n \in L
            /\ h \in 1..u /\ k \in 0..1 /\ q \in 0..u
            /\ n + 4 + h + k + q <= u + 1
            /\ Without(U, n + 4, (n + 4 + h) - 1, HostDelimiters)
            /\ k = 1 => U[n + 4 + h] = Colon
            /\ Without(U, n + 4 + h + k, (n + 4 + h + k + q) - 1, PortDelimiters)
            /\ Without(U, n + 4 + h + k + q, u, {Space})
  <2> HIDE DEF U, L, u
  <2> DEFINE Fits(a, b, c, d) ==
        /\ a + 4 + b + c + d <= u + 1
        /\ Without(U, a + 4, (a + 4 + b) - 1, HostDelimiters)
        /\ c = 1 => U[a + 4 + b] = Colon
        /\ Without(U, a + 4 + b + c, (a + 4 + b + c + d) - 1, PortDelimiters)
        /\ Without(U, a + 4 + b + c + d, u, {Space})
      S == L \X (1..u) \X (0..1) \X (0..u)
      m == <<n, h, k, q>>
  <2>1. Matches(U) = {x \in S : Fits(x[1], x[2], x[3], x[4])}
    BY DEF Matches, L, u
  <2>2. m \in S <=> n \in L /\ h \in 1..u /\ k \in 0..1 /\ q \in 0..u
    OBVIOUS
  <2>3. m[1] = n /\ m[2] = h /\ m[3] = k /\ m[4] = q
    OBVIOUS
  <2> HIDE DEF S, m
  <2>4. m \in Matches(U) <=> m \in S /\ Fits(n, h, k, q)
    <3> HIDE DEF Fits
    <3> QED BY <2>1, <2>3
  <2> QED BY <2>2, <2>4 DEF m
<1> HIDE DEF U, p, r, u, L
<1>4. ASSUME n = p, h \in Nat, k \in 0..1, q \in Nat, h + k + q <= r,
             NEW class, NEW i \in Nat, NEW j \in Nat, j <= r
      PROVE  Without(U, p + 4 + i, (p + 4 + j) - 1, class)
               <=> \A x \in (i + 1)..j : R[x] \notin class
  <2>1. ASSUME NEW x \in (i + 1)..j
        PROVE  p + 3 + x \in (p + 4 + i)..((p + 4 + j) - 1) /\ U[p + 3 + x] = R[x]
    <3>1. x \in 1..r /\ p + 3 + x \in (p + 4 + i)..((p + 4 + j) - 1)
      BY <1>1, <1>4
    <3> QED BY <3>1, <1>1
  <2>2. ASSUME NEW y \in (p + 4 + i)..((p + 4 + j) - 1)
        PROVE  y - (p + 3) \in (i + 1)..j /\ U[y] = R[y - (p + 3)]
    <3>1. y - (p + 3) \in (i + 1)..j /\ y - (p + 3) \in 1..r /\ p + 3 + (y - (p + 3)) = y
      BY <1>1, <1>4
    <3> QED BY <3>1, <1>1
  <2> QED BY <2>1, <2>2 DEF Without
<1>5. ASSUME n = p, h \in Nat, k \in 0..1, q \in Nat, h + k + q <= r
      PROVE  /\ Without(U, n + 4, (n + 4 + h) - 1, HostDelimiters)
             /\ k = 1 => U[n + 4 + h] = Colon
             /\ Without(U, n + 4 + h + k, (n + 4 + h + k + q) - 1, PortDelimiters)
             /\ Without(U, n + 4 + h + k + q, u, {Space})
             <=> MatchOf(R, h, k, q)
  <2>1. Without(U, n + 4, (n + 4 + h) - 1, HostDelimiters)
          <=> \A x \in 1..h : R[x] \notin HostDelimiters
    <3>1. 0 \in Nat /\ h <= r /\ p + 4 + 0 = p + 4 /\ 0 + 1 = 1
      BY <1>1, <1>5
    <3>2. Without(U, p + 4 + 0, (p + 4 + h) - 1, HostDelimiters)
            <=> \A x \in (0 + 1)..h : R[x] \notin HostDelimiters
      BY <3>1, <1>4, <1>5
    <3> QED BY <3>1, <3>2, <1>5
  <2>2. Without(U, n + 4 + h + k, (n + 4 + h + k + q) - 1, PortDelimiters)
          <=> \A x \in (h + k + 1)..(h + k + q) : R[x] \notin PortDelimiters
    <3>1. /\ h + k \in Nat /\ h + k + q \in Nat
          /\ p + 4 + (h + k) = p + 4 + h + k
          /\ (p + 4 + (h + k + q)) - 1 = (p + 4 + h + k + q) - 1
      BY <1>1, <1>5
    <3>2. Without(U, p + 4 + (h + k), (p + 4 + (h + k + q)) - 1, PortDelimiters)
            <=> \A x \in (h + k + 1)..(h + k + q) : R[x] \notin PortDelimiters
      BY <3>1, <1>4, <1>5
    <3> QED BY <3>1, <3>2, <1>5
  <2>3. Without(U, n + 4 + h + k + q, u, {Space})
          <=> \A x \in (h + k + q + 1)..r : R[x] # Space
    <3>1. /\ h + k + q \in Nat /\ r <= r
          /\ p + 4 + (h + k + q) = p + 4 + h + k + q
          /\ (p + 4 + r) - 1 = u
      BY <1>1, <1>5
    <3>2. Without(U, p + 4 + (h + k + q), (p + 4 + r) - 1, {Space})
            <=> \A x \in (h + k + q + 1)..r : R[x] \notin {Space}
      BY <3>1, <1>1, <1>4, <1>5
    <3> QED BY <3>1, <3>2, <1>5
  <2>4. k = 1 => U[n + 4 + h] = R[h + 1]
    <3> SUFFICES ASSUME k = 1 PROVE U[n + 4 + h] = R[h + 1]
      OBVIOUS
    <3>1. h + 1 \in 1..r /\ n + 4 + h = p + 3 + (h + 1)
      BY <1>1, <1>5
    <3> QED BY <3>1, <1>1
  <2> QED BY <2>1, <2>2, <2>3, <2>4, <1>5 DEF MatchOf, r
<1>6. <<n, h, k, q>> \in Matches(U)
        => /\ n = p /\ n \in L
           /\ h \in 1..r /\ k \in 0..1 /\ q \in 0..r
           /\ MatchOf(R, h, k, q)
  <2> SUFFICES ASSUME <<n, h, k, q>> \in Matches(U)
               PROVE  /\ n = p /\ n \in L
                      /\ h \in 1..r /\ k \in 0..1 /\ q \in 0..r
                      /\ MatchOf(R, h, k, q)
    OBVIOUS
  <2>1. n = p /\ h \in 1..u /\ k \in 0..1 /\ q \in 0..u /\ n + 4 + h + k + q <= u + 1
    BY <1>2, <1>3
  <2>2. h + k + q <= r /\ h \in 1..r /\ q \in 0..r /\ h \in Nat /\ q \in Nat
    BY <2>1, <1>1
  <2> QED BY <2>1, <2>2, <1>1, <1>3, <1>5
<1>7. ASSUME n = p, n \in L, h \in 1..r, k \in 0..1, q \in 0..r, MatchOf(R, h, k, q)
      PROVE  <<n, h, k, q>> \in Matches(U)
  <2>1. h + k + q <= r
    BY <1>7 DEF MatchOf, r
  <2>2. h \in 1..u /\ q \in 0..u /\ n + 4 + h + k + q <= u + 1 /\ h \in Nat /\ q \in Nat
    BY <2>1, <1>1, <1>7
  <2> QED BY <2>1, <2>2, <1>3, <1>5, <1>7
<1> QED BY <1>6, <1>7 DEF U, p, r, L

(* How the part behind the protocol is divided.                             *)
HostLength(R) == Place(R, {Colon, Slash}) - 1

ServedLength(R) == Place(R, {Slash}) - 1

(* The host ends at the first colon or slash, the port at the first slash.  *)
LEMMA Lengths ==
  ASSUME NEW R \in Seq(Nat)
  PROVE  /\ HostLength(R) \in 0..Len(R) /\ ServedLength(R) \in 0..Len(R)
         /\ HostLength(R) <= ServedLength(R)
         /\ \A i \in 1..HostLength(R) : R[i] \notin {Colon, Slash}
         /\ \A i \in 1..ServedLength(R) : R[i] # Slash
         /\ HostLength(R) < ServedLength(R) => R[HostLength(R) + 1] = Colon
         /\ ServedLength(R) < Len(R) => R[ServedLength(R) + 1] = Slash
<1> DEFINE h == HostLength(R)
           s == ServedLength(R)
           r == Len(R)
<1>1. r \in Nat
  BY LenProperties
<1>2. /\ h \in 0..r
      /\ h < r => R[h + 1] \in {Colon, Slash}
      /\ \A i \in 1..h : R[i] \notin {Colon, Slash}
  <2> DEFINE n == Place(R, {Colon, Slash})
  <2>1. /\ n \in 1..(r + 1)
        /\ n # r + 1 => R[n] \in {Colon, Slash}
        /\ \A i \in 1..(n - 1) : R[i] \notin {Colon, Slash}
    BY FirstPlace
  <2>2. h = n - 1
    BY DEF HostLength
  <2> HIDE DEF n, h
  <2>3. n = h + 1
    BY <1>1, <2>1, <2>2
  <2> QED BY <1>1, <2>1, <2>2, <2>3
<1>3. /\ s \in 0..r
      /\ s < r => R[s + 1] = Slash
      /\ \A i \in 1..s : R[i] # Slash
  <2> DEFINE n == Place(R, {Slash})
  <2>1. /\ n \in 1..(r + 1)
        /\ n # r + 1 => R[n] \in {Slash}
        /\ \A i \in 1..(n - 1) : R[i] \notin {Slash}
    BY FirstPlace
  <2>2. s = n - 1
    BY DEF ServedLength
  <2> HIDE DEF n, s
  <2>3. n = s + 1
    BY <1>1, <2>1, <2>2
  <2> QED BY <1>1, <2>1, <2>2, <2>3
<1> HIDE DEF h, s, r
<1>4. h <= s
  <2> SUFFICES ASSUME s < h PROVE FALSE
    BY <1>1, <1>2, <1>3
  <2>1. s + 1 \in 1..h /\ s < r
    BY <1>1, <1>2, <1>3
  <2> QED BY <2>1, <1>2, <1>3
<1>5. h < s => R[h + 1] = Colon
  <2> SUFFICES ASSUME h < s PROVE R[h + 1] = Colon
    OBVIOUS
  <2>1. h + 1 \in 1..s /\ h < r
    BY <1>1, <1>2, <1>3
  <2> QED BY <2>1, <1>2, <1>3
<1> QED BY <1>2, <1>3, <1>4, <1>5 DEF h, s, r

(* The match that url_regex finds first.                                    *)
ColonLength(R) == IF HostLength(R) < ServedLength(R) THEN 1 ELSE 0

PortLength(R) == ServedLength(R) - (HostLength(R) + ColonLength(R))

Web(P) == Lower(P) \in {Http, Https}

(* The protocol matches if it is http or https, and in no other way.        *)
LEMMA WebLength ==
  ASSUME NEW P \in Seq(Nat), OneProtocol(P), NEW R \in Seq(Nat)
  PROVE  IF Web(P) THEN ProtocolLengths(Joined(P, R)) = {Len(P)}
                   ELSE ProtocolLengths(Joined(P, R)) = {}
<1> DEFINE U == Joined(P, R)
           p == Len(P)
           s == SubSeq(U, 1, p)
           d == SubSeq(U, p + 1, p + 3)
<1>1. /\ U \in Seq(Nat) /\ Len(U) = p + 3 + Len(R)
      /\ \A i \in 1..p : U[i] = P[i]
      /\ U[p + 1] = Colon /\ U[p + 2] = Slash /\ U[p + 3] = Slash
      /\ p \in Nat /\ Len(R) \in Nat
  BY JoinedProperties, LenProperties
<1> HIDE DEF U, p
<1>2. s = P
  <2>1. 1 \in 1..(Len(U) + 1) /\ p \in 0..Len(U) /\ p >= 1 - 1
    BY <1>1
  <2>2. /\ s \in Seq(Nat) /\ Len(s) = p - 1 + 1
        /\ \A i \in 1..(p - 1 + 1) : s[i] = U[1 + i - 1]
    BY <1>1, <2>1, Part
  <2> HIDE DEF s
  <2>3. Len(s) = p /\ \A i \in 1..p : s[i] = P[i]
    BY <1>1, <2>2
  <2> QED BY <2>2, <2>3, SeqEqual DEF p
<1>3. d = <<Colon, Slash, Slash>>
  <2>1. p + 1 \in 1..(Len(U) + 1) /\ p + 3 \in 0..Len(U) /\ p + 3 >= (p + 1) - 1
    BY <1>1
  <2>2. /\ d \in Seq(Nat) /\ Len(d) = (p + 3) - (p + 1) + 1
        /\ \A i \in 1..((p + 3) - (p + 1) + 1) : d[i] = U[(p + 1) + i - 1]
    BY <1>1, <2>1, Part
  <2> HIDE DEF d
  <2>3. Len(d) = 3 /\ d[1] = Colon /\ d[2] = Slash /\ d[3] = Slash
    BY <1>1, <2>2
  <2> DEFINE e == <<Colon, Slash, Slash>>
  <2>4. e \in Seq(Nat) /\ Len(e) = 3 /\ e[1] = Colon /\ e[2] = Slash /\ e[3] = Slash
    BY DEF Colon, Slash
  <2> HIDE DEF e
  <2>5. \A i \in 1..3 : d[i] = e[i]
    BY <2>3, <2>4
  <2>6. d = e
    BY <2>2, <2>3, <2>4, <2>5, SeqEqual
  <2> QED BY <2>6 DEF e
<1>4. CASE Web(P)
  <2>1. p \in {4, 5}
    <3>1. Len(Lower(P)) = p
      BY LowerProperties DEF p
    <3>2. Len(Http) = 4 /\ Len(Https) = 5
      BY DEF Http, Https
    <3> QED BY <3>1, <3>2, <1>4 DEF Web
  <2>2. Len(Http) = 4 /\ Len(Https) = 5
    BY DEF Http, Https
  <2>3. p + 3 <= Len(U)
    BY <1>1
  <2>4. p \in ProtocolLengths(U)
    <3> HIDE DEF s, d
    <3>1. Lower(s) \in {Http, Https}
      BY <1>2, <1>4 DEF Web
    <3> QED BY <1>3, <2>1, <2>2, <2>3, <3>1 DEF ProtocolLengths, s, d
  <2>5. \A n \in ProtocolLengths(U) : n = p
    BY ProtocolOf DEF U, p
  <2> QED BY <2>4, <2>5, <1>4 DEF U, p
<1>5. CASE ~Web(P)
  <2> SUFFICES ASSUME NEW n \in ProtocolLengths(U) PROVE FALSE
    BY <1>5 DEF U
  <2>1. SubSeq(U, 1, n) = P
    BY ProtocolOf DEF U
  <2>2. Lower(SubSeq(U, 1, n)) \in {Http, Https}
    BY DEF ProtocolLengths
  <2> QED BY <2>1, <2>2, <1>5 DEF Web
<1> QED BY <1>4, <1>5

(* The URLs that url_regex matches.                                         *)
Accepted(P, R) ==
  /\ Web(P) /\ HostLength(R) > 0
  /\ \A i \in 1..Len(R) : R[i] # Space

TheMatch(P, R) == <<Len(P), HostLength(R), ColonLength(R), PortLength(R)>>

(* No other URL has a match.                                                *)
LEMMA Refused ==
  ASSUME NEW P \in Seq(Nat), OneProtocol(P), NEW R \in Seq(Nat), ~Accepted(P, R)
  PROVE  Matches(Joined(P, R)) = {}
<1> SUFFICES ASSUME NEW m \in Matches(Joined(P, R)) PROVE FALSE
  OBVIOUS
<1>1. PICK n, h, k, q : m = <<n, h, k, q>>
  BY DEF Matches
<1>2. /\ n \in ProtocolLengths(Joined(P, R))
      /\ h \in 1..Len(R) /\ k \in 0..1 /\ q \in 0..Len(R)
      /\ MatchOf(R, h, k, q)
  BY <1>1, MatchOfRest
<1>3. Web(P)
  BY <1>2, WebLength
<1>4. Len(R) \in Nat
  BY LenProperties
<1>5. HostLength(R) > 0
  <2>1. R[1] \notin HostDelimiters
    BY <1>2, <1>4 DEF MatchOf
  <2>2. R[1] \notin {Colon, Slash}
    BY <2>1 DEF HostDelimiters
  <2>3. SUFFICES ASSUME HostLength(R) = 0 PROVE FALSE
    BY Lengths, <1>4
  <2>4. Place(R, {Colon, Slash}) = 1
    <3>1. Place(R, {Colon, Slash}) \in 1..(Len(R) + 1)
      BY FirstPlace
    <3> QED BY <3>1, <1>4, <2>3 DEF HostLength
  <2>5. Place(R, {Colon, Slash}) # Len(R) + 1
          => R[Place(R, {Colon, Slash})] \in {Colon, Slash}
    BY FirstPlace
  <2> QED BY <1>2, <1>4, <2>2, <2>4, <2>5
<1>6. ASSUME NEW i \in 1..Len(R) PROVE R[i] # Space
  <2>1. CASE i \in 1..h
    BY <2>1, <1>2 DEF MatchOf, HostDelimiters
  <2>2. CASE k = 1 /\ i = h + 1
    BY <2>2, <1>2 DEF MatchOf, Colon, Space
  <2>3. CASE i \in (h + k + 1)..(h + k + q)
    BY <2>3, <1>2 DEF MatchOf, PortDelimiters
  <2>4. CASE i \in (h + k + q + 1)..Len(R)
    BY <2>4, <1>2 DEF MatchOf
  <2> QED BY <1>2, <1>4, <2>1, <2>2, <2>3, <2>4
<1> QED BY <1>3, <1>5, <1>6 DEF Accepted

(* The host, colon and port of an accepted URL make a match ...             *)
LEMMA Found ==
  ASSUME NEW P \in Seq(Nat), OneProtocol(P), NEW R \in Seq(Nat), Accepted(P, R)
  PROVE  TheMatch(P, R) \in Matches(Joined(P, R))
<1> DEFINE h == HostLength(R)
           s == ServedLength(R)
           k == ColonLength(R)
           q == PortLength(R)
           r == Len(R)
<1>1. /\ h \in 0..r /\ s \in 0..r /\ h <= s
      /\ \A i \in 1..h : R[i] \notin {Colon, Slash}
      /\ \A i \in 1..s : R[i] # Slash
      /\ h < s => R[h + 1] = Colon
      /\ r \in Nat
  BY Lengths, LenProperties
<1>2. /\ k = IF h < s THEN 1 ELSE 0
      /\ q = s - (h + k)
  BY DEF ColonLength, PortLength
<1>3. h > 0 /\ \A i \in 1..r : R[i] # Space
  BY DEF Accepted
<1> HIDE DEF h, s, k, q, r
<1>4. h \in 1..r /\ k \in 0..1 /\ q \in 0..r /\ h + k + q = s
  BY <1>1, <1>2, <1>3
<1>5. \A i \in 1..h : R[i] \notin HostDelimiters
  BY <1>1, <1>3, <1>4 DEF HostDelimiters
<1>6. \A i \in (h + k + 1)..(h + k + q) : R[i] \notin PortDelimiters
  BY <1>1, <1>3, <1>4 DEF PortDelimiters
<1>7. MatchOf(R, h, k, q)
  BY <1>1, <1>2, <1>3, <1>4, <1>5, <1>6 DEF MatchOf, r
<1>8. Len(P) \in ProtocolLengths(Joined(P, R))
  BY WebLength DEF Accepted
<1>9. <<Len(P), h, k, q>> \in Matches(Joined(P, R))
  BY <1>4, <1>7, <1>8, MatchOfRest DEF r
<1> QED BY <1>9 DEF TheMatch, h, k, q

(* ... which the regex tries before all the others, so that the backtracking*)
(* never gives a character back.                                            *)
LEMMA TriedFirst ==
  ASSUME NEW P \in Seq(Nat), OneProtocol(P), NEW R \in Seq(Nat), Accepted(P, R),
         NEW m \in Matches(Joined(P, R)), m # TheMatch(P, R)
  PROVE  TriedBefore(TheMatch(P, R), m) /\ ~TriedBefore(m, TheMatch(P, R))
<1> DEFINE h == HostLength(R)
           s == ServedLength(R)
           k == ColonLength(R)
           q == PortLength(R)
           r == Len(R)
<1>1. /\ h \in 0..r /\ s \in 0..r /\ h <= s
      /\ h < s => R[h + 1] = Colon
      /\ s < r => R[s + 1] = Slash
      /\ h < r => R[h + 1] \in {Colon, Slash}
      /\ r \in Nat
  <2>1. h = s \/ h < s
    BY Lengths, LenProperties
  <2> QED BY <2>1, Lengths, LenProperties
<1>2. /\ k = IF h < s THEN 1 ELSE 0
      /\ q = s - (h + k)
  BY DEF ColonLength, PortLength
<1>3. PICK n, a, b, c : m = <<n, a, b, c>>
  BY DEF Matches
<1>4. /\ n = Len(P) /\ a \in 1..r /\ b \in 0..1 /\ c \in 0..r
      /\ MatchOf(R, a, b, c)
  BY <1>3, MatchOfRest
<1>5. a # h \/ b # k \/ c # q
  BY <1>3, <1>4 DEF TheMatch
<1> HIDE DEF h, s, k, q, r
<1>6. a <= h
  <2> SUFFICES ASSUME h < a PROVE FALSE
    BY <1>1, <1>4
  <2>1. h + 1 \in 1..a /\ h < r
    BY <1>1, <1>4
  <2>2. R[h + 1] \notin HostDelimiters
    BY <2>1, <1>4 DEF MatchOf
  <2> QED BY <2>1, <2>2, <1>1 DEF HostDelimiters
<1>7. a = h => b <= k
  <2> SUFFICES ASSUME a = h, b = 1, k = 0 PROVE FALSE
    BY <1>2, <1>4
  <2>1. h = s /\ h < r
    BY <1>1, <1>2, <1>4 DEF MatchOf, r
  <2>2. R[h + 1] = Colon
    BY <1>4 DEF MatchOf
  <2> QED BY <2>1, <2>2, <1>1 DEF Colon, Slash
<1>8. a = h /\ b = k => c <= q
  <2> SUFFICES ASSUME a = h, b = k, q < c PROVE FALSE
    BY <1>1, <1>2, <1>4
  <2>1. s + 1 \in (h + k + 1)..(h + k + c) /\ h + k + c <= r /\ s < r
    BY <1>1, <1>2, <1>4 DEF MatchOf, r
  <2>2. R[s + 1] \notin PortDelimiters
    BY <2>1, <1>4 DEF MatchOf
  <2> QED BY <2>1, <2>2, <1>1 DEF PortDelimiters
<1> DEFINE t == <<Len(P), h, k, q>>
<1>9. /\ t[2] = h /\ t[3] = k /\ t[4] = q
      /\ m[2] = a /\ m[3] = b /\ m[4] = c
      /\ TheMatch(P, R) = t
  BY <1>3 DEF TheMatch, h, k, q
<1> HIDE DEF t
<1>10. h \in Nat /\ k \in Nat /\ q \in Int /\ a \in Nat /\ b \in Nat /\ c \in Nat
  BY <1>1, <1>2, <1>4
<1>11. TriedBefore(t, m)
  <2>1. CASE h > a
    BY <2>1, <1>9 DEF TriedBefore
  <2>2. CASE h = a /\ k > b
    BY <2>2, <1>9 DEF TriedBefore
  <2>3. CASE h = a /\ k = b /\ q > c
    <3>1. \A j \in 2..(4 - 1) : t[j] = m[j]
      BY <2>3, <1>9
    <3>2. t[4] > m[4]
      BY <2>3, <1>9
    <3> QED BY <3>1, <3>2 DEF TriedBefore
  <2> QED BY <1>5, <1>6, <1>7, <1>8, <1>10, <2>1, <2>2, <2>3
<1>12. ~TriedBefore(m, t)
  <2> SUFFICES ASSUME NEW i \in 2..4, m[i] > t[i], \A j \in 2..(i - 1) : m[j] = t[j]
               PROVE FALSE
    BY DEF TriedBefore
  <2>1. CASE i = 2
    BY <2>1, <1>6, <1>9, <1>10
  <2>2. CASE i = 3
    BY <2>2, <1>7, <1>9, <1>10
  <2>3. CASE i = 4
    BY <2>3, <1>8, <1>9, <1>10
  <2> QED BY <2>1, <2>2, <2>3
<1> QED BY <1>9, <1>11, <1>12

(* FirstMatch is determined.                                                *)
LEMMA FirstMatchFound ==
  ASSUME NEW P \in Seq(Nat), OneProtocol(P), NEW R \in Seq(Nat), Accepted(P, R)
  PROVE  FirstMatch(Matches(Joined(P, R))) = TheMatch(P, R)
<1> DEFINE M == Matches(Joined(P, R))
           t == TheMatch(P, R)
<1>1. t \in M
  BY Found
<1>2. \A m \in M \ {t} : TriedBefore(t, m) /\ ~TriedBefore(m, t)
  BY TriedFirst
<1> HIDE DEF M, t
<1>3. FirstMatch(M) = t
  BY <1>1, <1>2 DEF FirstMatch
<1> QED BY <1>3 DEF M, t

(* Parts of a URL behind its protocol are parts of what follows it.         *)
LEMMA PartOfRest ==
  ASSUME NEW P \in Seq(Nat), NEW R \in Seq(Nat),
         NEW i \in 1..(Len(R) + 1), NEW j \in 0..Len(R), j >= i - 1
  PROVE  SubSeq(Joined(P, R), Len(P) + 3 + i, Len(P) + 3 + j) = SubSeq(R, i, j)
<1> DEFINE U == Joined(P, R)
           p == Len(P)
           a == SubSeq(U, p + 3 + i, p + 3 + j)
           b == SubSeq(R, i, j)
<1>1. /\ U \in Seq(Nat) /\ Len(U) = p + 3 + Len(R)
      /\ \A n \in 1..Len(R) : U[p + 3 + n] = R[n]
      /\ p \in Nat /\ Len(R) \in Nat
  BY JoinedProperties, LenProperties
<1> HIDE DEF U, p
<1>2. /\ b \in Seq(Nat) /\ Len(b) = j - i + 1
      /\ \A n \in 1..(j - i + 1) : b[n] = R[i + n - 1]
  BY Part
<1>3. /\ a \in Seq(Nat) /\ Len(a) = (p + 3 + j) - (p + 3 + i) + 1
      /\ \A n \in 1..((p + 3 + j) - (p + 3 + i) + 1) : a[n] = U[(p + 3 + i) + n - 1]
  <2>1. /\ p + 3 + i \in 1..(Len(U) + 1)
        /\ p + 3 + j \in 0..Len(U)
        /\ p + 3 + j >= (p + 3 + i) - 1
    BY <1>1
  <2> QED BY <2>1, <1>1, Part
<1> HIDE DEF a, b
<1>4. (p + 3 + j) - (p + 3 + i) + 1 = j - i + 1
  BY <1>1
<1>5. ASSUME NEW n \in 1..(j - i + 1) PROVE a[n] = b[n]
  <2>1. i \in Int /\ j \in Int /\ n \in Int /\ p \in Int
    BY <1>1
  <2>2. i + n - 1 >= 1 /\ i + n - 1 <= j /\ j <= Len(R)
    BY <1>1, <2>1
  <2>3. i + n - 1 \in 1..Len(R)
    BY <1>1, <2>1, <2>2
  <2>4. (p + 3 + i) + n - 1 = p + 3 + (i + n - 1)
    BY <2>1
  <2> QED BY <2>3, <2>4, <1>1, <1>2, <1>3, <1>4
<1>6. a = b
  BY <1>2, <1>3, <1>4, <1>5, SeqEqual
<1> QED BY <1>6 DEF a, b, U, p

(* The text between the colon and the target.                               *)
PortOf(R) == SubSeq(R, HostLength(R) + ColonLength(R) + 1, ServedLength(R))

(* The groups of the first match.                                           *)
LEMMA UrlParts ==
  ASSUME NEW P \in Seq(Nat), NEW R \in Seq(Nat)
  PROVE  LET m     == TheMatch(P, R)
             colon == m[1] + 4 + m[2]
             end   == colon + m[3] + m[4]
             url   == Joined(P, R)
         IN  /\ SubSeq(url, 1, m[1]) = P
             /\ SubSeq(url, m[1] + 4, colon - 1) = SubSeq(R, 1, HostLength(R))
             /\ SubSeq(url, colon + m[3], end - 1) = PortOf(R)
             /\ From(url, end) = From(R, ServedLength(R) + 1)
<1> DEFINE h == HostLength(R)
           s == ServedLength(R)
           k == ColonLength(R)
           q == PortLength(R)
           r == Len(R)
           p == Len(P)
           U == Joined(P, R)
           m == TheMatch(P, R)
<1>1. /\ h \in 0..r /\ s \in 0..r /\ h <= s
      /\ r \in Nat /\ p \in Nat
      /\ k = IF h < s THEN 1 ELSE 0
      /\ q = s - (h + k)
      /\ Len(U) = p + 3 + r
  BY Lengths, LenProperties, JoinedProperties DEF ColonLength, PortLength
<1>2. m[1] = p /\ m[2] = h /\ m[3] = k /\ m[4] = q
  BY DEF TheMatch
<1> HIDE DEF h, s, k, q, r, p, m, U
<1>3. SubSeq(U, 1, p) = P
  <2> DEFINE a == SubSeq(U, 1, p)
  <2>1. U \in Seq(Nat) /\ \A i \in 1..p : U[i] = P[i]
    BY JoinedProperties DEF U, p
  <2>2. 1 \in 1..(Len(U) + 1) /\ p \in 0..Len(U) /\ p >= 1 - 1
    BY <1>1
  <2>3. /\ a \in Seq(Nat) /\ Len(a) = p - 1 + 1
        /\ \A i \in 1..(p - 1 + 1) : a[i] = U[1 + i - 1]
    BY <2>1, <2>2, Part
  <2> HIDE DEF a
  <2>4. Len(a) = p /\ \A i \in 1..p : a[i] = P[i]
    BY <1>1, <2>1, <2>3
  <2>5. a = P
    BY <2>3, <2>4, SeqEqual DEF p
  <2> QED BY <2>5 DEF a
<1>4. ASSUME NEW i \in 1..(r + 1), NEW j \in 0..r, j >= i - 1
      PROVE  SubSeq(U, p + 3 + i, p + 3 + j) = SubSeq(R, i, j)
  BY <1>4, PartOfRest DEF U, p, r
<1>5. SubSeq(U, p + 4, (p + 4 + h) - 1) = SubSeq(R, 1, h)
  <2>1. /\ 1 \in 1..(r + 1) /\ h \in 0..r /\ h >= 1 - 1
        /\ p + 4 = p + 3 + 1 /\ (p + 4 + h) - 1 = p + 3 + h
    BY <1>1
  <2> QED BY <2>1, <1>4
<1>6. SubSeq(U, p + 4 + h + k, (p + 4 + h + k + q) - 1) = SubSeq(R, h + k + 1, s)
  <2>1. /\ h + k + 1 \in 1..(r + 1) /\ s \in 0..r /\ s >= (h + k + 1) - 1
        /\ p + 4 + h + k = p + 3 + (h + k + 1)
        /\ (p + 4 + h + k + q) - 1 = p + 3 + s
    BY <1>1
  <2> QED BY <2>1, <1>4
<1>7. SubSeq(U, p + 4 + h + k + q, Len(U)) = SubSeq(R, s + 1, r)
  <2>1. /\ s + 1 \in 1..(r + 1) /\ r \in 0..r /\ r >= (s + 1) - 1
        /\ p + 4 + h + k + q = p + 3 + (s + 1)
        /\ Len(U) = p + 3 + r
    BY <1>1
  <2> QED BY <2>1, <1>4
<1>8. /\ SubSeq(U, 1, m[1]) = P
      /\ SubSeq(U, m[1] + 4, (m[1] + 4 + m[2]) - 1) = SubSeq(R, 1, h)
      /\ SubSeq(U, m[1] + 4 + m[2] + m[3], (m[1] + 4 + m[2] + m[3] + m[4]) - 1)
           = SubSeq(R, h + k + 1, s)
      /\ SubSeq(U, m[1] + 4 + m[2] + m[3] + m[4], Len(U)) = SubSeq(R, s + 1, r)
  BY <1>2, <1>3, <1>5, <1>6, <1>7
<1> QED BY <1>8 DEF m, U, h, k, s, r, PortOf, From

(* The same parts as ParseAgrees names them.                                *)
LEMMA AfterColon ==
  ASSUME NEW R \in Seq(Nat)
  PROVE  LET served == Before(R, {Slash})
         IN  /\ served \in Seq(Nat) /\ Len(served) = ServedLength(R)
             /\ After(served, {Colon}) = PortOf(R)
             /\ Before(served, {Colon}) = SubSeq(R, 1, HostLength(R))
             /\ Before(R, {Colon, Slash}) = SubSeq(R, 1, HostLength(R))
<1> DEFINE h == HostLength(R)
           s == ServedLength(R)
           k == ColonLength(R)
           r == Len(R)
           served == SubSeq(R, 1, s)
<1>1. /\ h \in 0..r /\ s \in 0..r /\ h <= s
      /\ \A i \in 1..h : R[i] \notin {Colon, Slash}
      /\ h < s => R[h + 1] = Colon
      /\ r \in Nat
      /\ k = IF h < s THEN 1 ELSE 0
  BY Lengths, LenProperties DEF ColonLength
<1>2. Before(R, {Slash}) = served /\ Before(R, {Colon, Slash}) = SubSeq(R, 1, h)
  BY DEF Before, HostLength, ServedLength
<1> HIDE DEF h, s, k
<1>3. /\ served \in Seq(Nat) /\ Len(served) = s
      /\ \A i \in 1..s : served[i] = R[i]
  <2>1. 1 \in 1..(Len(R) + 1) /\ s \in 0..Len(R) /\ s >= 1 - 1
    BY <1>1
  <2>2. /\ served \in Seq(Nat) /\ Len(served) = s - 1 + 1
        /\ \A i \in 1..(s - 1 + 1) : served[i] = R[1 + i - 1]
    BY <2>1, Part
  <2> HIDE DEF served
  <2> QED BY <1>1, <2>2
<1> HIDE DEF served, r
<1>4. Place(served, {Colon}) = h + 1
  <2>1. h + 1 \in 1..(Len(served) + 1)
    BY <1>1, <1>3
  <2>2. h + 1 = Len(served) + 1 \/ served[h + 1] \in {Colon}
    BY <1>1, <1>3
  <2>3. \A i \in 1..((h + 1) - 1) : served[i] \notin {Colon}
    BY <1>1, <1>3
  <2> QED BY <2>1, <2>2, <2>3, <1>3, PlaceIs
<1>5. Before(served, {Colon}) = SubSeq(R, 1, h)
  <2> DEFINE a == SubSeq(served, 1, h)
             b == SubSeq(R, 1, h)
  <2>1. Before(served, {Colon}) = a
    <3>1. (h + 1) - 1 = h
      BY <1>1
    <3> QED BY <3>1, <1>4 DEF Before
  <2>2. 1 \in 1..(Len(served) + 1) /\ h \in 0..Len(served) /\ h >= 1 - 1
    BY <1>1, <1>3
  <2>3. 1 \in 1..(Len(R) + 1) /\ h \in 0..Len(R)
    BY <1>1 DEF r
  <2>4. /\ a \in Seq(Nat) /\ Len(a) = h - 1 + 1
        /\ \A i \in 1..(h - 1 + 1) : a[i] = served[1 + i - 1]
    BY <1>3, <2>2, Part
  <2>5. /\ b \in Seq(Nat) /\ Len(b) = h - 1 + 1
        /\ \A i \in 1..(h - 1 + 1) : b[i] = R[1 + i - 1]
    BY <2>2, <2>3, Part
  <2> HIDE DEF a, b
  <2>6. ASSUME NEW i \in 1..Len(a) PROVE a[i] = b[i]
    <3>1. i \in 1..(h - 1 + 1) /\ 1 + i - 1 \in 1..s
      BY <1>1, <2>4
    <3> QED BY <3>1, <1>3, <2>4, <2>5
  <2>7. a = b
    BY <2>4, <2>5, <2>6, SeqEqual
  <2> QED BY <2>1, <2>7 DEF b
<1>6. After(served, {Colon}) = SubSeq(R, h + k + 1, s)
  <2> DEFINE a == SubSeq(served, h + 2, s)
             b == SubSeq(R, h + k + 1, s)
  <2>1. After(served, {Colon}) = a
    <3>1. (h + 1) + 1 = h + 2
      BY <1>1
    <3> QED BY <3>1, <1>3, <1>4 DEF After, From
  <2>2. CASE h < s
    <3>1. k = 1 /\ h + k + 1 = h + 2
      BY <2>2, <1>1
    <3>2. /\ h + 2 \in 1..(Len(served) + 1) /\ s \in 0..Len(served)
          /\ s >= (h + 2) - 1 /\ h + 2 \in 1..(Len(R) + 1) /\ s \in 0..Len(R)
      BY <2>2, <1>1, <1>3 DEF r
    <3>3. /\ a \in Seq(Nat) /\ Len(a) = s - (h + 2) + 1
          /\ \A i \in 1..(s - (h + 2) + 1) : a[i] = served[(h + 2) + i - 1]
      BY <1>3, <3>2, Part
    <3> DEFINE c == SubSeq(R, h + 2, s)
    <3>4. /\ c \in Seq(Nat) /\ Len(c) = s - (h + 2) + 1
          /\ \A i \in 1..(s - (h + 2) + 1) : c[i] = R[(h + 2) + i - 1]
      BY <3>2, Part
    <3>5. b = c
      BY <3>1
    <3> HIDE DEF a, b, c
    <3>6. ASSUME NEW i \in 1..Len(a) PROVE a[i] = c[i]
      <4>1. i \in 1..(s - (h + 2) + 1) /\ (h + 2) + i - 1 \in 1..s
        BY <1>1, <3>3
      <4> QED BY <4>1, <1>3, <3>3, <3>4
    <3>7. a = c
      BY <3>3, <3>4, <3>6, SeqEqual
    <3> QED BY <2>1, <3>5, <3>7 DEF b
  <2>3. CASE h = s
    <3>1. k = 0 /\ h + k + 1 > s /\ h + 2 > s
      BY <2>3, <1>1
    <3>2. h + 2 \in Int /\ h + k + 1 \in Int /\ s \in Int
      BY <3>1, <1>1
    <3>3. a = <<>> /\ b = <<>>
      BY <3>1, <3>2, SubSeqEmpty
    <3> QED BY <2>1, <3>3
  <2>4. h < s \/ h = s
    BY <1>1
  <2> QED BY <2>2, <2>3, <2>4
<1> QED BY <1>2, <1>3, <1>5, <1>6 DEF h, s, k, PortOf

-----------------------------------------------------------------------------

(* The words that deduce_port and deduce_scheme compare with are distinct   *)
(* and in lower case.                                                       *)
LEMMA Words ==
  /\ Http # Https
  /\ Lower(Http) = Http
  /\ Lower(Https) = Https
<1>1. Http # Https
  <2>1. Len(Http) = 4 /\ Len(Https) = 5
    BY DEF Http, Https
  <2> QED BY <2>1
<1>2. Lower(Http) = Http
  <2>1. DOMAIN Http = 1..4
    BY DEF Http
  <2>2. \A i \in 1..4 : Http[i] \notin 65..90
    BY DEF Http
  <2>3. Http \in Seq(Nat)
    BY DEF Http
  <2> QED BY <2>1, <2>2, <2>3 DEF Lower
<1>3. Lower(Https) = Https
  <2>1. DOMAIN Https = 1..5
    BY DEF Https
  <2>2. \A i \in 1..5 : Https[i] \notin 65..90
    BY DEF Https
  <2>3. Https \in Seq(Nat)
    BY DEF Https
  <2> QED BY <2>1, <2>2, <2>3 DEF Lower
<1> QED BY <1>1, <1>2, <1>3

(* Once url_regex has matched, no deduction throws, and the protocol alone  *)
(* decides the transport, whatever the port says (deduce_port,              *)
(* deduce_scheme).  The branches of deduce_scheme on an empty scheme are    *)
(* never taken.                                                             *)
THEOREM DeductionsFollowProtocol ==
  ASSUME NEW url, NEW n \in ProtocolLengths(url), NEW port
  PROVE  LET scheme == SubSeq(url, 1, n)
         IN  /\ deduce_port(scheme, port).error = "none"
             /\ deduce_port(scheme, port).value # <<>>
             /\ deduce_scheme(scheme, port) =
                  Value(IF Lower(scheme) = Https THEN "tls" ELSE "tcp")
<1> DEFINE scheme == SubSeq(url, 1, n)
<1>1. Lower(scheme) \in {Http, Https}
  BY DEF ProtocolLengths
<1>2. scheme # <<>>
  <2>1. Lower(scheme) # <<>>
    BY <1>1 DEF Http, Https
  <2>2. Lower(<<>>) = <<>>
    BY DEF Lower
  <2> QED BY <2>1, <2>2
<1>3. iequals(scheme, Http) <=> Lower(scheme) = Http
  BY Words DEF iequals
<1>4. iequals(scheme, Https) <=> Lower(scheme) = Https
  BY Words DEF iequals
<1> HIDE DEF scheme
<1>5. deduce_scheme(scheme, port) = Value(IF Lower(scheme) = Https THEN "tls" ELSE "tcp")
  BY <1>1, <1>2, <1>3, <1>4, Words DEF deduce_scheme
<1>6. deduce_port(scheme, port).error = "none" /\ deduce_port(scheme, port).value # <<>>
  <2>1. Http # <<>> /\ Https # <<>>
    BY DEF Http, Https
  <2>2. deduce_port(scheme, port) \in {Value(port), Value(Http), Value(Https)}
    BY <1>1, <1>3, <1>4 DEF deduce_port
  <2>3. deduce_port(scheme, port) = Value(port) => port # <<>>
    BY <1>1, <1>3, <1>4, <2>1 DEF deduce_port, Value
  <2> QED BY <2>1, <2>2, <2>3 DEF Value
<1> QED BY <1>5, <1>6 DEF scheme

(* The digits that urlencode writes for a byte give the byte back, and are  *)
(* digits: hex_digit is never called with an argument outside its table.    *)
THEOREM EncodedByteIsDecoded ==
  ASSUME NEW c \in Char
  PROVE  \/ /\ EncodeByte(c) = <<c>>
            /\ c = AsInt(c) /\ KeepsByte(c)
         \/ LET h == EncodeByte(c)[2]
                l == EncodeByte(c)[3]
            IN  /\ EncodeByte(c) = <<37, h, l>>
                /\ h \in (48..57) \cup (65..70)
                /\ l \in (48..57) \cup (65..70)
                /\ 16 * HexValue(h) + HexValue(l) = AsInt(c)
<1> DEFINE i == AsInt(c)
           h == hex_digit(i \div 16)
           l == hex_digit(i % 16)
<1>1. i \in 0..255 /\ (c >= 0 => i = c) /\ (c < 0 => i = c + 256)
  BY DEF AsInt, Char
<1>2. i \div 16 \in 0..15 /\ i % 16 \in 0..15 /\ 16 * (i \div 16) + (i % 16) = i
  BY <1>1
<1> HIDE DEF i
<1>3. ASSUME NEW x \in 0..15
      PROVE  hex_digit(x) \in (48..57) \cup (65..70) /\ HexValue(hex_digit(x)) = x
  BY DEF hex_digit, HexValue
<1>4. CASE KeepsByte(i)
  <2>1. c >= 0
    BY <1>1, <1>4 DEF KeepsByte, Char
  <2> QED BY <1>1, <1>4, <2>1 DEF EncodeByte, i
<1>5. CASE ~KeepsByte(i)
  <2>1. EncodeByte(c) = <<37, h, l>>
    BY <1>5 DEF EncodeByte, i
  <2>2. h \in (48..57) \cup (65..70) /\ HexValue(h) = i \div 16
    BY <1>2, <1>3
  <2>3. l \in (48..57) \cup (65..70) /\ HexValue(l) = i % 16
    BY <1>2, <1>3
  <2> HIDE DEF h, l
  <2> QED BY <1>2, <2>1, <2>2, <2>3 DEF i
<1> QED BY <1>4, <1>5

-----------------------------------------------------------------------------

(* The characters that urlencode must not write.                            *)
Reserved == {Space, Hash, Slash, Colon, Question}

(* One piece of an encoded string stands for byte b.                        *)
EncodesByte(e, b) ==
  \/ Len(e) = 1 /\ e[1] # 37 /\ e[1] = b
  \/ Len(e) = 3 /\ e[1] = 37 /\ 16 * HexValue(e[2]) + HexValue(e[3]) = b

(* EncodeByte as one piece of a string.                                     *)
LEMMA EncodedByte ==
  ASSUME NEW c \in Char
  PROVE  /\ EncodeByte(c) \in Seq(Nat)
         /\ \A i \in 1..Len(EncodeByte(c)) : EncodeByte(c)[i] \notin Reserved
         /\ EncodesByte(EncodeByte(c), c % 256)
<1> DEFINE e == EncodeByte(c)
           h == e[2]
           l == e[3]
           digits == (48..57) \cup (65..70)
<1>1. AsInt(c) = c % 256 /\ c % 256 \in 0..255
  BY DEF AsInt, Char
<1>2. CASE e = <<c>> /\ c = AsInt(c) /\ KeepsByte(c)
  <2>1. c \in Nat /\ c \notin Reserved /\ c # 37
    BY <1>1, <1>2 DEF KeepsByte, Reserved, Space, Hash, Slash, Colon, Question
  <2>2. e \in Seq(Nat) /\ Len(e) = 1 /\ e[1] = c
    BY <1>2, <2>1
  <2> HIDE DEF e
  <2>3. \A n \in 1..Len(e) : e[n] \notin Reserved
    BY <2>1, <2>2
  <2>4. EncodesByte(e, c % 256)
    BY <1>1, <1>2, <2>1, <2>2 DEF EncodesByte
  <2> QED BY <2>2, <2>3, <2>4 DEF e
<1>3. CASE /\ e = <<37, h, l>> /\ h \in digits /\ l \in digits
           /\ 16 * HexValue(h) + HexValue(l) = AsInt(c)
  <2> HIDE DEF e, h, l
  <2>1. e \in Seq(Nat) /\ Len(e) = 3 /\ e[1] = 37
    BY <1>3
  <2>2. 37 \notin Reserved /\ h \notin Reserved /\ l \notin Reserved
    BY <1>3 DEF Reserved, Space, Hash, Slash, Colon, Question
  <2>3. \A n \in 1..Len(e) : e[n] \in {37, h, l}
    BY <2>1 DEF h, l
  <2>4. EncodesByte(e, c % 256)
    BY <1>1, <1>3, <2>1 DEF EncodesByte, h, l
  <2> QED BY <2>1, <2>2, <2>3, <2>4 DEF e
<1> QED BY <1>2, <1>3, EncodedByteIsDecoded

(* What the loop of urlencode has written after each char.                  *)
Written(f, src) ==
  /\ f[0] = <<>>
  /\ \A i \in 1..Len(src) : f[i] = f[i - 1] \o EncodeByte(src[i])

(* The function by which FlattenSeq is defined ...                          *)
Flattened(f, seqs, n) ==
  f = [i \in 1..n |-> IF i = 1 THEN seqs[i] ELSE f[i - 1] \o seqs[i]]

(* ... exists, for any number of sequences.                                 *)
LEMMA FlattenedExists ==
  ASSUME NEW seqs, NEW n \in Nat
  PROVE  \E f : Flattened(f, seqs, n)
<1> DEFINE T == {k \in Nat : ~ \E f : Flattened(f, seqs, k)}
<1>1. SUFFICES ASSUME T # {} PROVE FALSE
  OBVIOUS
<1>2. PICK k \in T : \A y \in T : k <= y
  <2> HIDE DEF T
  <2>1. T \subseteq Nat
    BY DEF T
  <2> QED BY <1>1, <2>1, Least
<1>3. CASE k = 0
  <2>1. Flattened([i \in 1..0 |-> <<>>], seqs, 0)
    BY DEF Flattened
  <2> QED BY <2>1, <1>3
<1>4. CASE k > 0
  <2>1. k \in Nat /\ k - 1 \in Nat /\ k - 1 \notin T
    BY <1>2, <1>4
  <2>2. PICK f : Flattened(f, seqs, k - 1)
    BY <2>1
  <2> DEFINE Step(g, i) == IF i = 1 THEN seqs[i] ELSE g[i - 1] \o seqs[i]
             h == [i \in 1..k |-> Step(f, i)]
  <2>3. \A i \in 1..(k - 1) : f[i] = Step(f, i)
    BY <2>2 DEF Flattened
  <2>4. \A i \in 1..k : h[i] = Step(f, i)
    OBVIOUS
  <2>5. \A i \in 1..k : Step(h, i) = Step(f, i)
    <3>1. ASSUME NEW i \in 1..k, i # 1 PROVE h[i - 1] = f[i - 1]
      <4>1. i - 1 \in 1..(k - 1) /\ i - 1 \in 1..k
        BY <2>1, <3>1
      <4> HIDE DEF h, Step
      <4> QED BY <4>1, <2>3, <2>4
    <3> HIDE DEF h
    <3> QED BY <3>1
  <2> HIDE DEF Step
  <2>6. h = [i \in 1..k |-> Step(h, i)]
    BY <2>4, <2>5
  <2>7. Flattened(h, seqs, k)
    BY <2>6 DEF Flattened, Step
  <2> QED BY <2>7
<1> QED BY <1>2, <1>3, <1>4

(* urlencode writes what its loop does.                                     *)
LEMMA WrittenByUrlencode ==
  ASSUME NEW src \in Seq(Char)
  PROVE  \E f : Written(f, src) /\ urlencode(src) = f[Len(src)]
<1> DEFINE n == Len(src)
           seqs == [i \in 1..n |-> EncodeByte(src[i])]
<1>1. n \in Nat /\ DOMAIN src = 1..n
  BY LenProperties
<1>2. urlencode(src) = FlattenSeq(seqs)
  BY <1>1 DEF urlencode
<1>3. Len(seqs) = n
  BY <1>1
<1>4. \A c \in Char : EncodeByte(c) \in Seq(Nat)
  BY EncodedByte
<1>5. \A i \in 1..n : seqs[i] = EncodeByte(src[i]) /\ seqs[i] \in Seq(Nat)
  BY <1>1, <1>4, ElementOfSeq
<1>6. CASE n = 0
  <2> DEFINE f == [i \in 0..0 |-> <<>>]
  <2>1. FlattenSeq(seqs) = <<>>
    <3>1. seqs = <<>>
      BY <1>6
    <3> QED BY <3>1 DEF FlattenSeq
  <2>2. Written(f, src) /\ f[n] = <<>>
    BY <1>6 DEF Written
  <2> QED BY <1>2, <2>1, <2>2
<1>7. CASE n # 0
  <2> DEFINE g == CHOOSE x : Flattened(x, seqs, n)
             f == [i \in 0..n |-> IF i = 0 THEN <<>> ELSE g[i]]
  <2>1. Flattened(g, seqs, n)
    <3>1. \E x : Flattened(x, seqs, n)
      BY <1>1, FlattenedExists
    <3> HIDE DEF seqs, n
    <3> QED BY <3>1
  <2>2. FlattenSeq(seqs) = g[n]
    <3> HIDE DEF seqs, n
    <3> QED BY <1>3, <1>7 DEF FlattenSeq, Flattened
  <2> HIDE DEF seqs, n, g
  <2>3. \A i \in 1..n : g[i] = IF i = 1 THEN seqs[i] ELSE g[i - 1] \o seqs[i]
    BY <2>1 DEF Flattened
  <2>4. ASSUME NEW i \in 1..n PROVE f[i] = f[i - 1] \o EncodeByte(src[i])
    <3>1. f[i] = g[i] /\ f[i - 1] = IF i = 1 THEN <<>> ELSE g[i - 1]
      BY <1>1
    <3>2. <<>> \o seqs[i] = seqs[i]
      BY <1>5, ConcatEmptySeq
    <3> HIDE DEF f
    <3> QED BY <2>3, <3>1, <3>2, <1>5
  <2>5. f[0] = <<>> /\ f[n] = g[n]
    BY <1>1, <1>7
  <2> HIDE DEF f
  <2>6. Written(f, src)
    BY <2>4, <2>5 DEF Written, n
  <2> QED BY <1>2, <2>2, <2>5, <2>6 DEF n
<1> QED BY <1>6, <1>7

(* A string with nothing that parse_url or a server would split at.         *)
Clean(s) == s \in Seq(Nat) /\ \A i \in 1..Len(s) : s[i] \notin Reserved

(* The loop never writes a reserved character.                              *)
LEMMA WrittenIsClean ==
  ASSUME NEW src \in Seq(Char), NEW f, Written(f, src)
  PROVE  \A j \in 0..Len(src) : Clean(f[j])
<1> DEFINE n == Len(src)
           T == {j \in 0..n : ~Clean(f[j])}
<1>1. n \in Nat /\ \A i \in 1..n : src[i] \in Char
  BY LenProperties, ElementOfSeq
<1>2. SUFFICES ASSUME T # {} PROVE FALSE
  OBVIOUS
<1>3. PICK j \in T : \A i \in T : j <= i
  <2>1. T \subseteq Nat
    BY <1>1
  <2> HIDE DEF T
  <2> QED BY <1>2, <2>1, Least
<1>4. j \in 0..n /\ ~Clean(f[j])
  BY <1>3
<1>5. j # 0
  <2>1. Clean(<<>>)
    BY DEF Clean
  <2> QED BY <2>1, <1>4 DEF Written
<1>6. j \in 1..n /\ j - 1 \in 0..n /\ j - 1 \notin T
  <2>1. j \in 1..n /\ j - 1 \in 0..n /\ ~ (j <= j - 1)
    BY <1>1, <1>4, <1>5
  <2> QED BY <2>1, <1>3
<1>7. Clean(f[j - 1])
  BY <1>6
<1> DEFINE a == f[j - 1]
           e == EncodeByte(src[j])
<1>8. f[j] = a \o e
  BY <1>6 DEF Written
<1>9. Clean(e)
  BY <1>1, <1>6, EncodedByte DEF Clean
<1>10. Clean(a)
  BY <1>7
<1> HIDE DEF a, e
<1>11. /\ a \o e \in Seq(Nat) /\ Len(a \o e) = Len(a) + Len(e)
       /\ \A i \in 1..Len(a) : (a \o e)[i] = a[i]
       /\ \A i \in 1..Len(e) : (a \o e)[Len(a) + i] = e[i]
       /\ Len(a) \in Nat /\ Len(e) \in Nat
  BY <1>9, <1>10, Catenation, LenProperties DEF Clean
<1>12. ASSUME NEW i \in 1..Len(a \o e) PROVE (a \o e)[i] \notin Reserved
  <2>1. CASE i \in 1..Len(a)
    BY <2>1, <1>10, <1>11 DEF Clean
  <2>2. CASE i - Len(a) \in 1..Len(e)
    <3>1. Len(a) + (i - Len(a)) = i
      BY <1>11
    <3> QED BY <3>1, <2>2, <1>9, <1>11 DEF Clean
  <2> QED BY <1>11, <2>1, <2>2
<1> QED BY <1>4, <1>8, <1>11, <1>12 DEF Clean

(* s is the beginning of t.                                                 *)
Begins(s, t) == Len(s) <= Len(t) /\ \A x \in 1..Len(s) : t[x] = s[x]

(* The loop only appends.                                                   *)
LEMMA WrittenGrows ==
  ASSUME NEW src \in Seq(Char), NEW f, Written(f, src)
  PROVE  \A j \in 0..Len(src) : \A i \in 0..j : Begins(f[i], f[j])
<1> DEFINE n == Len(src)
           T == {j \in 0..n : ~ \A i \in 0..j : Begins(f[i], f[j])}
<1>1. n \in Nat /\ \A i \in 1..n : src[i] \in Char
  BY LenProperties, ElementOfSeq
<1>2. \A i \in 0..n : f[i] \in Seq(Nat) /\ Len(f[i]) \in Nat
  BY WrittenIsClean, LenProperties DEF Clean
<1>3. SUFFICES ASSUME T # {} PROVE FALSE
  OBVIOUS
<1>4. PICK j \in T : \A i \in T : j <= i
  <2>1. T \subseteq Nat
    BY <1>1
  <2> HIDE DEF T
  <2> QED BY <1>3, <2>1, Least
<1>5. PICK i \in 0..j : ~Begins(f[i], f[j])
  BY <1>4
<1>6. j \in 0..n
  BY <1>4
<1>7. i # j
  BY <1>2, <1>5, <1>6 DEF Begins
<1>8. /\ j \in 1..n /\ j - 1 \in 0..n /\ i \in 0..(j - 1) /\ i \in 0..n
      /\ j - 1 \notin T
  <2>1. /\ j \in 1..n /\ j - 1 \in 0..n /\ i \in 0..(j - 1) /\ i \in 0..n
        /\ ~ (j <= j - 1)
    BY <1>1, <1>5, <1>6, <1>7
  <2> QED BY <2>1, <1>4
<1>9. Begins(f[i], f[j - 1])
  BY <1>8
<1>10. Begins(f[j - 1], f[j])
  <2> DEFINE a == f[j - 1]
             e == EncodeByte(src[j])
  <2>1. f[j] = a \o e
    BY <1>8 DEF Written
  <2>2. a \in Seq(Nat) /\ e \in Seq(Nat) /\ Len(a) \in Nat
    BY <1>1, <1>2, <1>8, EncodedByte
  <2> HIDE DEF a, e
  <2>3. /\ Len(a \o e) = Len(a) + Len(e) /\ Len(e) \in Nat
        /\ \A x \in 1..Len(a) : (a \o e)[x] = a[x]
    BY <2>2, Catenation, LenProperties
  <2>4. Begins(a, a \o e)
    BY <2>2, <2>3 DEF Begins
  <2> QED BY <2>1, <2>4 DEF a
<1>11. Begins(f[i], f[j])
  <2> DEFINE a == f[i] b == f[j - 1] c == f[j]
  <2>1. /\ Len(a) \in Nat /\ Len(b) \in Nat /\ Len(c) \in Nat
        /\ Begins(a, b) /\ Begins(b, c)
    BY <1>2, <1>6, <1>8, <1>9, <1>10
  <2> HIDE DEF a, b, c
  <2>2. Begins(a, c)
    BY <2>1 DEF Begins
  <2> QED BY <2>2 DEF a, c
<1> QED BY <1>5, <1>11

(* A server reads out of an encoded string of any length what was encoded:  *)
(* each byte, signed or not, comes back, and none of the string is a        *)
(* delimiter (urlencode, hex_digit).                                        *)
THEOREM UrlencodeIsDecoded ==
  ASSUME NEW src \in Seq(Char)
  PROVE  /\ Clean(urlencode(src))
         /\ Decodes(urlencode(src), [n \in DOMAIN src |-> src[n] % 256])
<1> DEFINE n == Len(src)
           bytes == [i \in DOMAIN src |-> src[i] % 256]
<1>1. n \in Nat /\ DOMAIN src = 1..n /\ \A i \in 1..n : src[i] \in Char
  BY LenProperties, ElementOfSeq
<1>2. Len(bytes) = n /\ \A i \in 1..n : bytes[i] = src[i] % 256
  BY <1>1
<1>3. PICK f : Written(f, src) /\ urlencode(src) = f[n]
  BY WrittenByUrlencode
<1> HIDE DEF bytes, n
<1>4. \A i \in 0..n : Clean(f[i]) /\ Begins(f[i], f[n]) /\ Len(f[i]) \in Nat
  <2>1. \A i \in 0..n : Clean(f[i])
    BY <1>3, WrittenIsClean DEF n
  <2>2. n \in 0..n
    BY <1>1
  <2>3. \A i \in 0..n : Begins(f[i], f[n])
    BY <1>3, <2>2, WrittenGrows DEF n
  <2>4. \A i \in 0..n : Len(f[i]) \in Nat
    BY <2>1, LenProperties DEF Clean
  <2> QED BY <2>1, <2>3, <2>4
<1> DEFINE s == f[n]
           cut == [i \in 1..(n + 1) |-> Len(f[i - 1]) + 1]
<1>5. cut \in [1..(n + 1) -> 1..(Len(s) + 1)]
  <2>1. ASSUME NEW i \in 1..(n + 1) PROVE Len(f[i - 1]) + 1 \in 1..(Len(s) + 1)
    <3>1. i - 1 \in 0..n /\ n \in 0..n
      BY <1>1
    <3>2. Len(f[i - 1]) \in Nat /\ Len(s) \in Nat /\ Len(f[i - 1]) <= Len(s)
      BY <3>1, <1>4 DEF Begins
    <3> HIDE DEF s
    <3> QED BY <3>2
  <2> QED BY <2>1
<1>6. cut[1] = 1 /\ cut[n + 1] = Len(s) + 1
  <2>1. 1 \in 1..(n + 1) /\ n + 1 \in 1..(n + 1) /\ 1 - 1 = 0 /\ (n + 1) - 1 = n
    BY <1>1
  <2>2. Len(f[0]) = 0
    BY <1>3 DEF Written
  <2> QED BY <2>1, <2>2
<1>7. ASSUME NEW i \in 1..n
      PROVE  LET c == cut[i]
             IN  /\ c <= Len(s)
                 /\ IF s[c] = 37
                      THEN /\ cut[i + 1] = c + 3
                           /\ bytes[i] = 16 * HexValue(s[c + 1]) + HexValue(s[c + 2])
                      ELSE /\ cut[i + 1] = c + 1
                           /\ bytes[i] = s[c]
  <2> DEFINE a == f[i - 1]
             b == f[i]
             e == EncodeByte(src[i])
             c == cut[i]
  <2>1. /\ i - 1 \in 0..n /\ i \in 0..n
        /\ i \in 1..(n + 1) /\ i + 1 \in 1..(n + 1) /\ (i + 1) - 1 = i
    BY <1>1
  <2>2. /\ Clean(a) /\ Len(a) \in Nat
        /\ Begins(b, s) /\ Len(b) \in Nat
    BY <1>4, <2>1
  <2>3. b = a \o e
    BY <1>3 DEF Written, n
  <2>4. e \in Seq(Nat) /\ EncodesByte(e, bytes[i])
    BY <1>1, <1>2, EncodedByte
  <2>5. c = Len(a) + 1 /\ cut[i + 1] = Len(b) + 1
    BY <2>1
  <2>6. Len(s) \in Nat
    BY <1>1, <1>4
  <2> HIDE DEF s, cut, a, b, e, c
  <2>7. /\ Len(b) = Len(a) + Len(e) /\ Len(e) \in Nat
        /\ \A x \in 1..Len(e) : b[Len(a) + x] = e[x]
    BY <2>2, <2>3, <2>4, Catenation, LenProperties DEF Clean
  <2>8. ASSUME NEW x \in 1..Len(e) PROVE s[Len(a) + x] = e[x]
    <3>1. Len(a) + x \in 1..Len(b)
      BY <2>2, <2>7
    <3> QED BY <3>1, <2>2, <2>7 DEF Begins
  <2>9. Len(b) <= Len(s)
    BY <2>2 DEF Begins
  <2>10. CASE Len(e) = 1 /\ e[1] # 37 /\ e[1] = bytes[i]
    <3>1. s[c] = e[1]
      BY <2>5, <2>8, <2>10
    <3>2. c <= Len(s) /\ cut[i + 1] = c + 1
      BY <2>2, <2>5, <2>6, <2>7, <2>9, <2>10
    <3> QED BY <2>10, <3>1, <3>2 DEF c
  <2>11. CASE Len(e) = 3 /\ e[1] = 37 /\ 16 * HexValue(e[2]) + HexValue(e[3]) = bytes[i]
    <3>1. /\ c = Len(a) + 1 /\ c + 1 = Len(a) + 2 /\ c + 2 = Len(a) + 3
          /\ 1 \in 1..Len(e) /\ 2 \in 1..Len(e) /\ 3 \in 1..Len(e)
      BY <2>2, <2>5, <2>11
    <3>2. s[c] = e[1] /\ s[c + 1] = e[2] /\ s[c + 2] = e[3]
      BY <3>1, <2>8
    <3>3. c <= Len(s) /\ cut[i + 1] = c + 3
      BY <2>2, <2>5, <2>6, <2>7, <2>9, <2>11
    <3> QED BY <2>11, <3>2, <3>3 DEF c
  <2> QED BY <2>4, <2>10, <2>11 DEF EncodesByte
<1> HIDE DEF s, cut
<1>8. Decodes(s, bytes)
  BY <1>2, <1>5, <1>6, <1>7 DEF Decodes
<1>9. Clean(s)
  BY <1>1, <1>4 DEF s
<1> QED BY <1>3, <1>8, <1>9 DEF s, bytes

-----------------------------------------------------------------------------
(* parse_url is given by where the first colon and the first slash are, for *)
(* every URL: it accepts what has a protocol of the web, a host, and no     *)
(* space, divides it there, and throws nothing but invalid url (parse_url,  *)
(* deduce_port, deduce_scheme, url_regex).                                  *)
THEOREM ParsedUrl ==
  ASSUME NEW P \in Seq(Nat), OneProtocol(P), NEW R \in Seq(Nat)
  PROVE  parse_url(Joined(P, R)) =
           IF Accepted(P, R)
             THEN Value([key    |-> [hostname |-> SubSeq(R, 1, HostLength(R)),
                                     port     |-> IF PortOf(R) = <<>> THEN Lower(P)
                                                  ELSE PortOf(R),
                                     scheme   |-> IF Lower(P) = Https THEN "tls"
                                                  ELSE "tcp"],
                         target |-> From(R, ServedLength(R) + 1)])
             ELSE Thrown("invalid url")
<1> DEFINE U == Joined(P, R)
<1>1. CASE ~Accepted(P, R)
  <2>1. Matches(U) = {}
    BY <1>1, Refused
  <2> HIDE DEF U
  <2>2. parse_url(U) = Thrown("invalid url")
    BY <2>1 DEF parse_url
  <2> QED BY <1>1, <2>2 DEF U
<1>2. CASE Accepted(P, R)
  <2> DEFINE m        == TheMatch(P, R)
             colon    == m[1] + 4 + m[2]
             end      == colon + m[3] + m[4]
             protocol_ind == SubSeq(U, 1, m[1])
             port_ind == SubSeq(U, colon + m[3], end - 1)
             host     == SubSeq(U, m[1] + 4, colon - 1)
             port     == deduce_port(protocol_ind, port_ind)
             scheme   == deduce_scheme(protocol_ind, port_ind)
  <2>1. Matches(U) # {} /\ FirstMatch(Matches(U)) = m
    BY <1>2, Found, FirstMatchFound
  <2>2. /\ protocol_ind = P
        /\ host = SubSeq(R, 1, HostLength(R))
        /\ port_ind = PortOf(R)
        /\ From(U, end) = From(R, ServedLength(R) + 1)
    BY UrlParts
  <2>3. parse_url(U) = IF port.error # "none" THEN port
                       ELSE IF scheme.error # "none" THEN scheme
                       ELSE Value([key    |-> [hostname |-> host,
                                               port     |-> port.value,
                                               scheme   |-> scheme.value],
                                   target |-> From(U, end)])
    <3> HIDE DEF U, m
    <3> QED BY <2>1, Zenon DEF parse_url
  <2>4. Len(P) \in ProtocolLengths(U) /\ m[1] = Len(P)
    BY <1>2, WebLength DEF Accepted, TheMatch
  <2>5. /\ port.error = "none"
        /\ scheme = Value(IF Lower(P) = Https THEN "tls" ELSE "tcp")
    <3> HIDE DEF U, m, port_ind
    <3>1. m[1] \in ProtocolLengths(U)
      BY <2>4
    <3>2. /\ port.error = "none"
          /\ scheme = Value(IF Lower(protocol_ind) = Https THEN "tls" ELSE "tcp")
      BY <3>1, DeductionsFollowProtocol
    <3> QED BY <2>2, <3>2
  <2>6. port.value = IF PortOf(R) = <<>> THEN Lower(P) ELSE PortOf(R)
    <3>1. port = deduce_port(P, PortOf(R))
      BY <2>2
    <3>2. Lower(P) \in {Http, Https}
      BY <1>2 DEF Accepted, Web
    <3>3. /\ iequals(P, Http) <=> Lower(P) = Http
          /\ iequals(P, Https) <=> Lower(P) = Https
      BY Words DEF iequals
    <3> HIDE DEF port
    <3> QED BY <3>1, <3>2, <3>3, Words DEF deduce_port, Value
  <2> HIDE DEF U, m, colon, end, protocol_ind, port_ind, host, port, scheme
  <2>7. scheme.error = "none" /\ scheme.value = IF Lower(P) = Https THEN "tls" ELSE "tcp"
    BY <2>5 DEF Value
  <2>8. parse_url(U) = Value([key    |-> [hostname |-> host,
                                          port     |-> port.value,
                                          scheme   |-> scheme.value],
                              target |-> From(U, end)])
    BY <2>3, <2>5, <2>7
  <2> QED BY <1>2, <2>2, <2>6, <2>7, <2>8 DEF U
<1> QED BY <1>1, <1>2

(* A URL is a string of codes, the data a string of chars (parse_url,       *)
(* urlencode: any string is a legal argument).                              *)
THEOREM UrlsTypeInvariant == UrlsSpec => []UrlsTypeOK
<1>1. UrlsInit => UrlsTypeOK
  BY EmptySeq DEF UrlsInit, UrlsTypeOK
<1>2. UrlsTypeOK /\ [UrlsNext]_urlVars => UrlsTypeOK'
  <2> SUFFICES ASSUME UrlsTypeOK, [UrlsNext]_urlVars PROVE UrlsTypeOK'
    OBVIOUS
  <2>1. CASE AddPiece
    <3>1. PICK p \in Pieces : rest' = rest \o p
      BY <2>1 DEF AddPiece
    <3>2. rest \in Seq(Nat) /\ p \in Seq(Nat)
      BY <3>1, UrlsAssumption DEF UrlsTypeOK
    <3>3. rest' \in Seq(Nat)
      BY <3>1, <3>2, ConcatProperties
    <3> QED BY <2>1, <3>3 DEF AddPiece, UrlsTypeOK
  <2>2. CASE AddChar
    <3>1. PICK c \in Chars : data' = Append(data, c)
      BY <2>2 DEF AddChar
    <3>2. data \in Seq(Char) /\ c \in Char
      BY <3>1, UrlsAssumption DEF UrlsTypeOK
    <3>3. data' \in Seq(Char)
      BY <3>1, <3>2, AppendProperties
    <3> QED BY <2>2, <3>3 DEF AddChar, UrlsTypeOK
  <2>3. CASE UNCHANGED urlVars
    BY <2>3 DEF UrlsTypeOK, urlVars
  <2> QED BY <2>1, <2>2, <2>3 DEF UrlsNext
<1> QED BY <1>1, <1>2, PTL DEF UrlsSpec

(* Accepted in the words of ParseAgrees.                                    *)
LEMMA AcceptedUrl ==
  ASSUME NEW P \in Seq(Nat), NEW R \in Seq(Nat)
  PROVE  Accepted(P, R) <=> /\ Lower(P) \in {Http, Https}
                            /\ Before(R, {Colon, Slash}) # <<>>
                            /\ Space \notin Range(R)
<1>1. Len(R) \in Nat /\ DOMAIN R = 1..Len(R)
  BY LenProperties
<1>2. Space \notin Range(R) <=> \A i \in 1..Len(R) : R[i] # Space
  BY <1>1 DEF Range
<1>3. Before(R, {Colon, Slash}) # <<>> <=> HostLength(R) > 0
  <2> DEFINE h == HostLength(R)
             b == SubSeq(R, 1, h)
  <2>1. h \in 0..Len(R)
    BY Lengths
  <2>2. 1 \in 1..(Len(R) + 1) /\ h >= 1 - 1
    BY <1>1, <2>1
  <2> HIDE DEF h
  <2>3. b \in Seq(Nat) /\ Len(b) = h - 1 + 1
    BY <2>1, <2>2, Part
  <2>4. Before(R, {Colon, Slash}) = b
    BY AfterColon DEF h
  <2> HIDE DEF b
  <2>5. b # <<>> <=> h > 0
    <3>1. b = <<>> => Len(b) = 0
      OBVIOUS
    <3>2. b # <<>> => Len(b) \in Nat \ {0}
      BY <2>3, EmptySeq
    <3> QED BY <1>1, <2>1, <2>3, <3>1, <3>2
  <2> QED BY <2>4, <2>5 DEF h
<1> QED BY <1>2, <1>3 DEF Accepted, Web

(* ParseAgrees holds of every string.                                       *)
LEMMA ParseAgreesOfType == UrlsTypeOK => ParseAgrees
<1> SUFFICES ASSUME UrlsTypeOK PROVE ParseAgrees
  OBVIOUS
<1> DEFINE P == protocol
           R == rest
           parsed == parse_url(Url)
           sound == WebProtocol /\ NamedHost # <<>> /\ Space \notin Range(rest)
           key == [hostname |-> SubSeq(R, 1, HostLength(R)),
                   port     |-> IF PortOf(R) = <<>> THEN Lower(P) ELSE PortOf(R),
                   scheme   |-> IF Lower(P) = Https THEN "tls" ELSE "tcp"]
           target == From(R, ServedLength(R) + 1)
<1>1. P \in Seq(Nat) /\ OneProtocol(P) /\ R \in Seq(Nat)
  BY UrlsAssumption DEF UrlsTypeOK
<1>2. parsed = IF Accepted(P, R) THEN Value([key |-> key, target |-> target])
               ELSE Thrown("invalid url")
  BY <1>1, ParsedUrl DEF Url
<1>3. Accepted(P, R) <=> /\ WebProtocol
                         /\ Before(rest, {Colon, Slash}) # <<>>
                         /\ Space \notin Range(rest)
  BY <1>1, AcceptedUrl DEF WebProtocol
<1>4. /\ key.hostname = SubSeq(R, 1, HostLength(R))
      /\ key.port = IF PortOf(R) = <<>> THEN Lower(P) ELSE PortOf(R)
  OBVIOUS
<1>5. HasPath => /\ NamedHost = Before(rest, {Colon, Slash})
                 /\ NamedHost = key.hostname
                 /\ NamedService = key.port
                 /\ PathAndQuery = target
  <2> SUFFICES ASSUME HasPath
               PROVE  /\ NamedHost = Before(rest, {Colon, Slash})
                      /\ NamedHost = key.hostname
                      /\ NamedService = key.port
                      /\ PathAndQuery = target
    OBVIOUS
  <2>1. Authority = Before(R, {Slash})
    BY DEF HasPath
  <2>2. /\ Len(Authority) = ServedLength(R)
        /\ After(Authority, {Colon}) = PortOf(R)
        /\ Before(Authority, {Colon}) = SubSeq(R, 1, HostLength(R))
        /\ Before(R, {Colon, Slash}) = SubSeq(R, 1, HostLength(R))
    BY <1>1, <2>1, AfterColon
  <2> HIDE DEF key
  <2> QED BY <1>4, <2>2 DEF NamedHost, NamedService, PathAndQuery
<1> HIDE DEF parsed, P, R, key, target
<1>6. HasPath => (Accepted(P, R) <=> sound)
  BY <1>3, <1>5
<1> HIDE DEF sound
<1>7. CASE Accepted(P, R)
  <2>1. parsed.error = "none" /\ parsed.value.key = key /\ parsed.value.target = target
    BY <1>2, <1>7 DEF Value
  <2>2. HasPath => /\ parsed.error = "none" <=> sound
                   /\ sound => /\ parsed.value.key.hostname = NamedHost
                               /\ parsed.value.key.port = NamedService
                               /\ parsed.value.target = PathAndQuery
    BY <1>5, <1>6, <1>7, <2>1
  <2> QED BY <2>1, <2>2 DEF ParseAgrees, parsed, sound
<1>8. CASE ~Accepted(P, R)
  <2>1. parsed.error = "invalid url"
    BY <1>2, <1>8 DEF Thrown
  <2>2. HasPath => ~sound
    BY <1>6, <1>8
  <2> QED BY <2>1, <2>2 DEF ParseAgrees, parsed, sound
<1> QED BY <1>7, <1>8

(* So does KeyLeadsToEndpoint.                                              *)
LEMMA KeyLeadsOfType == UrlsTypeOK => KeyLeadsToEndpoint
<1> DEFINE P == protocol
           R == rest
           parsed == parse_url(Url)
<1> SUFFICES ASSUME UrlsTypeOK, parsed.error = "none", Authority = Before(rest, {Slash})
             PROVE  KeyEndpoint(parsed.value.key) = NamedEndpoint
  BY DEF KeyLeadsToEndpoint
<1> DEFINE host == SubSeq(R, 1, HostLength(R))
           port == IF PortOf(R) = <<>> THEN Lower(P) ELSE PortOf(R)
           key == [hostname |-> host, port |-> port,
                   scheme   |-> IF Lower(P) = Https THEN "tls" ELSE "tcp"]
           target == From(R, ServedLength(R) + 1)
<1>1. P \in Seq(Nat) /\ OneProtocol(P) /\ R \in Seq(Nat)
  BY UrlsAssumption DEF UrlsTypeOK
<1>2. parsed = IF Accepted(P, R) THEN Value([key |-> key, target |-> target])
               ELSE Thrown("invalid url")
  BY <1>1, ParsedUrl DEF Url
<1>3. /\ After(Authority, {Colon}) = PortOf(R)
      /\ Before(Authority, {Colon}) = host
  BY <1>1, AfterColon
<1>4. Thrown("invalid url").error # "none"
  BY DEF Thrown
<1> HIDE DEF parsed, P, R, host, port, key, target
<1>5. parsed.value.key = key
  BY <1>2, <1>4 DEF Value
<1>6. key.hostname = host /\ key.port = port /\ (key.scheme = "tls" <=> Lower(P) = Https)
  BY DEF key
<1>7. KeyEndpoint(key) = Endpoint(host, port, Lower(P) = Https)
  <2>1. (key.scheme = "tls") = (Lower(P) = Https)
    BY <1>6
  <2> HIDE DEF key
  <2> QED BY <1>6, <2>1 DEF KeyEndpoint
<1>8. NamedEndpoint = Endpoint(host, port, Lower(P) = Https)
  BY <1>3 DEF NamedEndpoint, NamedHost, NamedService, port, P
<1> QED BY <1>5, <1>7, <1>8 DEF parsed

(* The URL of EncodedDataArrives behind its protocol.                       *)
DataUrl(e) == <<104, Slash>> \o e \o <<Question>> \o e

(* Its characters.                                                          *)
LEMMA DataUrlProperties ==
  ASSUME NEW e \in Seq(Nat)
  PROVE  LET R == DataUrl(e)
         IN  /\ R \in Seq(Nat)
             /\ Len(R) = 2 * Len(e) + 3
             /\ R[1] = 104 /\ R[2] = Slash
             /\ \A i \in 1..Len(e) : R[2 + i] = e[i]
             /\ R[Len(e) + 3] = Question
             /\ \A i \in 1..Len(e) : R[Len(e) + 3 + i] = e[i]
<1> DEFINE a == <<104, Slash>>
           b == a \o e
           c == <<Question>>
           d == b \o c
           R == d \o e
           n == Len(e)
<1>0. a \in Seq(Nat) /\ c \in Seq(Nat)
  BY DEF Slash, Question
<1>1. /\ a \in Seq(Nat) /\ Len(a) = 2 /\ a[1] = 104 /\ a[2] = Slash
      /\ c \in Seq(Nat) /\ Len(c) = 1 /\ c[1] = Question
      /\ n \in Nat
  BY LenProperties DEF Slash, Question
<1> HIDE DEF a, c
<1>2. /\ b \in Seq(Nat) /\ Len(b) = Len(a) + Len(e)
      /\ \A i \in 1..Len(a) : b[i] = a[i]
      /\ \A i \in 1..Len(e) : b[Len(a) + i] = e[i]
  BY <1>0, Catenation
<1> HIDE DEF b
<1>3. /\ d \in Seq(Nat) /\ Len(d) = Len(b) + Len(c)
      /\ \A i \in 1..Len(b) : d[i] = b[i]
      /\ \A i \in 1..Len(c) : d[Len(b) + i] = c[i]
  BY <1>0, <1>2, Catenation
<1> HIDE DEF d
<1>4. /\ R \in Seq(Nat) /\ Len(R) = Len(d) + Len(e)
      /\ \A i \in 1..Len(d) : R[i] = d[i]
      /\ \A i \in 1..Len(e) : R[Len(d) + i] = e[i]
  BY <1>3, Catenation
<1> HIDE DEF R, n
<1>5. Len(b) = 2 + n /\ Len(d) = n + 3 /\ Len(R) = 2 * n + 3 /\ n \in Nat
  <2>1. n \in Nat /\ Len(b) = 2 + n
    BY <1>1, <1>2 DEF n
  <2>2. Len(d) = n + 3
    BY <2>1, <1>1, <1>3
  <2> QED BY <2>1, <2>2, <1>4 DEF n
<1>6. /\ \A i \in 1..2 : b[i] = a[i]
      /\ \A i \in 1..n : b[2 + i] = e[i]
      /\ \A i \in 1..(2 + n) : d[i] = b[i]
      /\ d[(2 + n) + 1] = Question
      /\ \A i \in 1..(n + 3) : R[i] = d[i]
      /\ \A i \in 1..n : R[n + 3 + i] = e[i]
  <2>1. 1 \in 1..Len(c)
    BY <1>1
  <2> QED BY <2>1, <1>1, <1>2, <1>3, <1>4, <1>5 DEF n
<1>7. R[1] = 104 /\ R[2] = Slash
  <2>1. /\ 1 \in 1..2 /\ 2 \in 1..2 /\ 1 \in 1..(2 + n) /\ 2 \in 1..(2 + n)
        /\ 1 \in 1..(n + 3) /\ 2 \in 1..(n + 3)
    BY <1>5
  <2>2. b[1] = 104 /\ b[2] = Slash
    BY <2>1, <1>1, <1>6
  <2>3. d[1] = 104 /\ d[2] = Slash
    BY <2>1, <2>2, <1>6
  <2> QED BY <2>1, <2>3, <1>6
<1>8. ASSUME NEW i \in 1..n PROVE R[2 + i] = e[i]
  <2>1. 2 + i \in 1..(2 + n) /\ 2 + i \in 1..(n + 3)
    BY <1>5
  <2>2. b[2 + i] = e[i]
    BY <1>6
  <2>3. d[2 + i] = b[2 + i] /\ R[2 + i] = d[2 + i]
    BY <2>1, <1>6
  <2> QED BY <2>2, <2>3
<1>9. R[n + 3] = Question
  <2>1. n + 3 \in 1..(n + 3) /\ (2 + n) + 1 = n + 3
    BY <1>5
  <2> QED BY <2>1, <1>6
<1>10. DataUrl(e) = R
  BY DEF DataUrl, R, d, c, b, a
<1> QED BY <1>4, <1>5, <1>6, <1>7, <1>8, <1>9, <1>10 DEF n

(* parse_url accepts it and leaves all of it behind the host.               *)
LEMMA DataUrlAccepted ==
  ASSUME NEW e, Clean(e)
  PROVE  LET target == SubSeq(DataUrl(e), 2, Len(DataUrl(e)))
         IN  /\ parse_url(Joined(Http, DataUrl(e))).error = "none"
             /\ parse_url(Joined(Http, DataUrl(e))).value.target = target
<1> DEFINE R == DataUrl(e)
           n == Len(e)
<1>1. /\ R \in Seq(Nat) /\ Len(R) = 2 * n + 3 /\ n \in Nat
      /\ R[1] = 104 /\ R[2] = Slash
      /\ \A i \in 1..n : R[2 + i] = e[i]
      /\ R[n + 3] = Question
      /\ \A i \in 1..n : R[n + 3 + i] = e[i]
      /\ \A i \in 1..n : e[i] \notin Reserved
  BY DataUrlProperties, LenProperties DEF Clean
<1> HIDE DEF R, n
<1>2. Place(R, {Colon, Slash}) = 2 /\ Place(R, {Slash}) = 2
  <2>1. 2 \in 1..(Len(R) + 1)
    BY <1>1
  <2>2. \A i \in 1..(2 - 1) : R[i] = 104
    BY <1>1
  <2>3. 104 \notin {Colon, Slash} /\ 104 \notin {Slash}
    BY DEF Colon, Slash
  <2>4. R[2] \in {Colon, Slash} /\ R[2] \in {Slash}
    BY <1>1
  <2>5. /\ \A i \in 1..(2 - 1) : R[i] \notin {Colon, Slash}
        /\ \A i \in 1..(2 - 1) : R[i] \notin {Slash}
    BY <2>2, <2>3
  <2>6. Place(R, {Colon, Slash}) = 2
    BY <2>1, <2>4, <2>5, <1>1, PlaceIs
  <2>7. Place(R, {Slash}) = 2
    BY <2>1, <2>4, <2>5, <1>1, PlaceIs
  <2> QED BY <2>6, <2>7
<1>3. HostLength(R) = 1 /\ ServedLength(R) = 1
  BY <1>2 DEF HostLength, ServedLength
<1>4. ASSUME NEW i \in 1..Len(R) PROVE R[i] # Space
  <2>1. CASE i = 1
    BY <2>1, <1>1 DEF Space
  <2>2. CASE i = 2
    BY <2>2, <1>1 DEF Space, Slash
  <2>3. CASE i = n + 3
    BY <2>3, <1>1 DEF Space, Question
  <2>4. CASE i - 2 \in 1..n
    <3>1. 2 + (i - 2) = i
      BY <1>1
    <3>2. R[2 + (i - 2)] = e[i - 2] /\ e[i - 2] # Space
      BY <2>4, <1>1 DEF Reserved
    <3> QED BY <3>1, <3>2
  <2>5. CASE i - (n + 3) \in 1..n
    <3>1. n + 3 + (i - (n + 3)) = i
      BY <1>1
    <3>2. R[n + 3 + (i - (n + 3))] = e[i - (n + 3)] /\ e[i - (n + 3)] # Space
      BY <2>5, <1>1 DEF Reserved
    <3> QED BY <3>1, <3>2
  <2> QED BY <1>1, <2>1, <2>2, <2>3, <2>4, <2>5
<1>5. Http \in Seq(Nat) /\ OneProtocol(Http)
  BY DEF Http, OneProtocol, Colon
<1>6. Accepted(Http, R)
  <2>1. Web(Http)
    BY Words DEF Web
  <2> QED BY <2>1, <1>3, <1>4 DEF Accepted
<1> DEFINE key == [hostname |-> SubSeq(R, 1, HostLength(R)),
                   port     |-> IF PortOf(R) = <<>> THEN Lower(Http) ELSE PortOf(R),
                   scheme   |-> IF Lower(Http) = Https THEN "tls" ELSE "tcp"]
           target == SubSeq(R, 2, Len(R))
<1>7. From(R, ServedLength(R) + 1) = target
  <2>1. 1 + 1 = 2
    OBVIOUS
  <2> QED BY <2>1, <1>3 DEF From
<1>8. parse_url(Joined(Http, R)) = Value([key |-> key, target |-> target])
  <2>1. parse_url(Joined(Http, R))
          = Value([key |-> key, target |-> From(R, ServedLength(R) + 1)])
    BY <1>1, <1>5, <1>6, ParsedUrl
  <2> HIDE DEF key, target
  <2> QED BY <2>1, <1>7
<1> HIDE DEF key, target
<1>9. /\ parse_url(Joined(Http, R)).error = "none"
      /\ parse_url(Joined(Http, R)).value.target = target
  BY <1>8 DEF Value
<1> QED BY <1>9 DEF target, R

(* The path and the query that a server finds there are the encoded strings.*)
LEMMA DataUrlRead ==
  ASSUME NEW e, Clean(e)
  PROVE  LET target == SubSeq(DataUrl(e), 2, Len(DataUrl(e)))
         IN  /\ From(Before(target, {Question, Hash}), 2) = e
             /\ Before(After(target, {Question}), {Hash}) = e
<1> DEFINE R == DataUrl(e)
           n == Len(e)
           target == SubSeq(R, 2, Len(R))
<1>1. /\ R \in Seq(Nat) /\ Len(R) = 2 * n + 3 /\ n \in Nat
      /\ R[2] = Slash
      /\ \A i \in 1..n : R[2 + i] = e[i]
      /\ R[n + 3] = Question
      /\ \A i \in 1..n : R[n + 3 + i] = e[i]
      /\ e \in Seq(Nat) /\ \A i \in 1..n : e[i] \notin Reserved
  BY DataUrlProperties, LenProperties DEF Clean
<1> HIDE DEF R
<1>2. /\ target \in Seq(Nat) /\ Len(target) = 2 * n + 2
      /\ \A i \in 1..(2 * n + 2) : target[i] = R[i + 1]
  <2> HIDE DEF n
  <2>1. 2 \in 1..(Len(R) + 1) /\ Len(R) \in 0..Len(R) /\ Len(R) >= 2 - 1
    BY <1>1
  <2>2. /\ target \in Seq(Nat) /\ Len(target) = Len(R) - 2 + 1
        /\ \A i \in 1..(Len(R) - 2 + 1) : target[i] = R[2 + i - 1]
    BY <1>1, <2>1, Part
  <2> HIDE DEF target
  <2>3. Len(R) - 2 + 1 = 2 * n + 2
    BY <1>1
  <2>4. \A i \in 1..(2 * n + 2) : 2 + i - 1 = i + 1
    BY <1>1
  <2> QED BY <2>2, <2>3, <2>4
<1> HIDE DEF target, n
<1>3. /\ target[1] = Slash /\ target[n + 2] = Question
      /\ \A i \in 1..n : target[i + 1] = e[i] /\ target[n + 2 + i] = e[i]
  <2>1. target[1] = Slash /\ target[n + 2] = Question
    <3>1. /\ 1 \in 1..(2 * n + 2) /\ n + 2 \in 1..(2 * n + 2)
          /\ 1 + 1 = 2 /\ (n + 2) + 1 = n + 3
      BY <1>1
    <3> QED BY <3>1, <1>1, <1>2
  <2>2. ASSUME NEW i \in 1..n PROVE target[i + 1] = e[i] /\ target[n + 2 + i] = e[i]
    <3>1. /\ i + 1 \in 1..(2 * n + 2) /\ n + 2 + i \in 1..(2 * n + 2)
          /\ (i + 1) + 1 = 2 + i /\ (n + 2 + i) + 1 = n + 3 + i
      BY <1>1
    <3> QED BY <3>1, <1>1, <1>2
  <2> QED BY <2>1, <2>2
<1>4. Place(target, {Question, Hash}) = n + 2 /\ Place(target, {Question}) = n + 2
  <2>1. n + 2 \in 1..(Len(target) + 1)
    BY <1>1, <1>2
  <2>2. ASSUME NEW i \in 1..((n + 2) - 1) PROVE target[i] \notin {Question, Hash}
    <3>1. CASE i = 1
      BY <3>1, <1>3 DEF Slash, Question, Hash
    <3>2. CASE i # 1
      <4>1. i - 1 \in 1..n /\ (i - 1) + 1 = i
        BY <1>1, <3>2
      <4>2. target[(i - 1) + 1] = e[i - 1] /\ e[i - 1] \notin Reserved
        BY <4>1, <1>1, <1>3
      <4>3. target[i] \notin Reserved
        BY <4>1, <4>2
      <4> QED BY <4>3 DEF Reserved
    <3> QED BY <3>1, <3>2
  <2>3. \A i \in 1..((n + 2) - 1) : target[i] \notin {Question}
    BY <2>2
  <2> QED BY <2>1, <2>2, <2>3, <1>2, <1>3, PlaceIs
<1>5. From(Before(target, {Question, Hash}), 2) = e
  <2> DEFINE path == SubSeq(target, 1, n + 1)
             a == SubSeq(path, 2, n + 1)
  <2>1. Before(target, {Question, Hash}) = path
    <3>1. (n + 2) - 1 = n + 1
      BY <1>1
    <3> QED BY <3>1, <1>4 DEF Before
  <2>2. /\ path \in Seq(Nat) /\ Len(path) = n + 1
        /\ \A i \in 1..(n + 1) : path[i] = target[i]
    <3>1. 1 \in 1..(Len(target) + 1) /\ n + 1 \in 0..Len(target) /\ n + 1 >= 1 - 1
      BY <1>1, <1>2
    <3>2. /\ path \in Seq(Nat) /\ Len(path) = (n + 1) - 1 + 1
          /\ \A i \in 1..((n + 1) - 1 + 1) : path[i] = target[1 + i - 1]
      BY <1>2, <3>1, Part
    <3> HIDE DEF path
    <3>3. (n + 1) - 1 + 1 = n + 1 /\ \A i \in 1..(n + 1) : 1 + i - 1 = i
      BY <1>1
    <3> QED BY <3>2, <3>3
  <2> HIDE DEF path
  <2>3. From(path, 2) = a
    BY <2>2 DEF From
  <2>4. /\ a \in Seq(Nat) /\ Len(a) = n
        /\ \A i \in 1..n : a[i] = path[i + 1]
    <3>1. 2 \in 1..(Len(path) + 1) /\ n + 1 \in 0..Len(path) /\ n + 1 >= 2 - 1
      BY <1>1, <2>2
    <3>2. /\ a \in Seq(Nat) /\ Len(a) = (n + 1) - 2 + 1
          /\ \A i \in 1..((n + 1) - 2 + 1) : a[i] = path[2 + i - 1]
      BY <2>2, <3>1, Part
    <3> HIDE DEF a
    <3>3. (n + 1) - 2 + 1 = n /\ \A i \in 1..n : 2 + i - 1 = i + 1
      BY <1>1
    <3> QED BY <3>2, <3>3
  <2> HIDE DEF a
  <2>5. ASSUME NEW i \in 1..Len(a) PROVE a[i] = e[i]
    <3>1. i \in 1..n /\ i + 1 \in 1..(n + 1)
      BY <1>1, <2>4
    <3> QED BY <3>1, <1>3, <2>2, <2>4
  <2>6. a = e
    BY <1>1, <2>4, <2>5, SeqEqual DEF n
  <2> QED BY <2>1, <2>3, <2>6
<1>6. Before(After(target, {Question}), {Hash}) = e
  <2> DEFINE a == SubSeq(target, n + 3, 2 * n + 2)
  <2>1. After(target, {Question}) = a
    <3>1. (n + 2) + 1 = n + 3
      BY <1>1
    <3> QED BY <3>1, <1>2, <1>4 DEF After, From
  <2>2. /\ a \in Seq(Nat) /\ Len(a) = n
        /\ \A i \in 1..n : a[i] = target[n + 2 + i]
    <3>1. /\ n + 3 \in 1..(Len(target) + 1) /\ 2 * n + 2 \in 0..Len(target)
          /\ 2 * n + 2 >= (n + 3) - 1
      BY <1>1, <1>2
    <3>2. /\ a \in Seq(Nat) /\ Len(a) = (2 * n + 2) - (n + 3) + 1
          /\ \A i \in 1..((2 * n + 2) - (n + 3) + 1) : a[i] = target[(n + 3) + i - 1]
      BY <1>2, <3>1, Part
    <3> HIDE DEF a
    <3>3. /\ (2 * n + 2) - (n + 3) + 1 = n
          /\ \A i \in 1..n : (n + 3) + i - 1 = n + 2 + i
      BY <1>1
    <3> QED BY <3>2, <3>3
  <2> HIDE DEF a
  <2>3. \A i \in 1..Len(a) : a[i] = e[i]
    BY <1>3, <2>2
  <2>4. a = e
    BY <1>1, <2>2, <2>3, SeqEqual DEF n
  <2>5. Place(e, {Hash}) = n + 1
    <3>1. n + 1 \in 1..(Len(e) + 1) /\ n + 1 = Len(e) + 1 /\ (n + 1) - 1 = n
      BY <1>1 DEF n
    <3>2. \A i \in 1..((n + 1) - 1) : e[i] \notin {Hash}
      BY <3>1, <1>1 DEF Reserved
    <3> QED BY <3>1, <3>2, <1>1, PlaceIs
  <2>6. Before(e, {Hash}) = SubSeq(e, 1, Len(e))
    <3>1. (n + 1) - 1 = n
      BY <1>1
    <3> QED BY <3>1, <2>5 DEF Before, n
  <2>7. SubSeq(e, 1, Len(e)) = e
    BY <1>1, SubSeqFull
  <2> QED BY <2>1, <2>4, <2>6, <2>7
<1> QED BY <1>5, <1>6 DEF target, R

(* EncodedDataArrives holds of data of any length.                          *)
LEMMA EncodedDataOfType == UrlsTypeOK => EncodedDataArrives
<1> SUFFICES ASSUME UrlsTypeOK PROVE EncodedDataArrives
  OBVIOUS
<1> DEFINE e      == urlencode(data)
           bytes  == [n \in DOMAIN data |-> data[n] % 256]
           parsed == parse_url(Joined(Http, DataUrl(e)))
           target == SubSeq(DataUrl(e), 2, Len(DataUrl(e)))
<1>1. Clean(e) /\ Decodes(e, bytes)
  BY UrlencodeIsDecoded DEF UrlsTypeOK
<1> HIDE DEF e
<1>2. parsed.error = "none" /\ parsed.value.target = target
  BY <1>1, DataUrlAccepted
<1>3. /\ From(Before(target, {Question, Hash}), 2) = e
      /\ Before(After(target, {Question}), {Hash}) = e
  BY <1>1, DataUrlRead
<1> HIDE DEF parsed, target, bytes
<1>4. /\ parsed.error = "none"
      /\ Decodes(From(Before(parsed.value.target, {Question, Hash}), 2), bytes)
      /\ Decodes(Before(After(parsed.value.target, {Question}), {Hash}), bytes)
  BY <1>1, <1>2, <1>3
<1> QED BY <1>4 DEF EncodedDataArrives, parsed, DataUrl, e, bytes

(* Whatever pieces a URL is made of, and however many: if it has the form   *)
(* protocol://host[:port]/path[?query], parse_url divides it where generic  *)
(* syntax does, and refuses it just if its protocol is not of the web, its  *)
(* host is empty or it holds a space; no URL meets another error (parse_url,*)
(* url_regex, deduce_port, deduce_scheme).                                  *)
THEOREM AlwaysParseAgrees == UrlsSpec => []ParseAgrees
BY ParseAgreesOfType, UrlsTypeInvariant, PTL

(* The key of every URL leads where the URL leads, so that calls which are  *)
(* given one connection for equal keys all mean its endpoint (parse_url,    *)
(* deduce_port, deduce_scheme).                                             *)
THEOREM AlwaysKeyLeadsToEndpoint == UrlsSpec => []KeyLeadsToEndpoint
BY KeyLeadsOfType, UrlsTypeInvariant, PTL

(* Data of any length that a caller encodes comes out at the server, in the *)
(* path and in the query (urlencode, parse_url).                            *)
THEOREM AlwaysEncodedDataArrives == UrlsSpec => []EncodedDataArrives
BY EncodedDataOfType, UrlsTypeInvariant, PTL
=============================================================================
