-------------------------- MODULE CookieJarProofs ---------------------------
(***************************************************************************)
(* Theorems about CookieJar, for all cookies, lifetimes and responses of   *)
(* any number of headers.                                                  *)
(***************************************************************************)
EXTENDS CookieJar, Integers, WellFoundedInduction, TLAPS

-----------------------------------------------------------------------------
(* Induction up to a limit, over a set of numbers                           *)

LEMMA LessIsWellFounded == IsWellFoundedOn({p \in Nat \X Nat : p[1] < p[2]}, Nat)
BY NatLessThanWellFounded DEF OpToRel

\* A set of numbers that is not empty has a smallest one.
LEMMA Smallest ==
    ASSUME NEW S \in SUBSET Nat, S # {}
    PROVE  \E m \in S : \A k \in S : m <= k
<1> DEFINE less == {p \in Nat \X Nat : p[1] < p[2]}
<1>1. IsWellFoundedOn(less, Nat)
  BY LessIsWellFounded
<1> HIDE DEF less
<1>2. PICK m \in S : \A k \in S : ~(<<k, m>> \in less)
  BY <1>1, WFMin
<1>3. \A k \in S : k < m => <<k, m>> \in less
  BY DEF less
<1>4. m \in Nat /\ \A k \in S : k \in Nat
  OBVIOUS
<1>5. ASSUME NEW k \in S PROVE m <= k
  <2>1. ~(k < m)
    BY <1>2, <1>3
  <2> QED
    BY <1>4, <2>1
<1> QED
  BY <1>5

\* A set of numbers that has 0, and with every number the next, has them all:
\* a counterexample would have a smallest one.
LEMMA InductionToLimit ==
    ASSUME NEW N \in Nat, NEW G, 0 \in G, \A k \in 0..(N - 1) : k \in G => k + 1 \in G
    PROVE  \A k \in 0..N : k \in G
<1> DEFINE missing == {k \in 0..N : k \notin G}
<1> SUFFICES ASSUME missing # {} PROVE FALSE
  OBVIOUS
<1>1. missing \in SUBSET Nat
  OBVIOUS
<1> HIDE DEF missing
<1>2. PICK m \in missing : \A k \in missing : m <= k
  BY <1>1, Smallest
<1>3. m \in 0..N /\ m \notin G
  BY <1>2 DEF missing
<1>4. m \in 1..N /\ m - 1 \in 0..(N - 1) /\ (m - 1) + 1 = m /\ m - 1 \in 0..N
  BY <1>3
<1>5. m - 1 \notin missing
  BY <1>2, <1>4
<1>6. m - 1 \in G
  BY <1>4, <1>5 DEF missing
<1> QED
  BY <1>3, <1>4, <1>6

-----------------------------------------------------------------------------
(* A response is taken one header after the other                           *)

\* The latest of some of the first m + 1 places, and the places left without it.
LEMMA LatestOfPrefix ==
    ASSUME NEW m \in Nat, NEW s \in SUBSET (1..(m + 1))
    PROVE  /\ m + 1 \in s => Max(s) = m + 1
           /\ s # {} => Max(s) \in s
           /\ s \ {m + 1} \in SUBSET (1..m)
<1>1. ASSUME s # {} PROVE \E x \in s : \A y \in s : x >= y
  <2> DEFINE rest == {m + 1 - y : y \in s}
  <2>1. rest \in SUBSET Nat /\ rest # {}
    <3>1. \A y \in s : m + 1 - y \in Nat
      OBVIOUS
    <3> QED
      BY <1>1, <3>1
  <2>2. PICK r \in rest : \A k \in rest : r <= k
    BY <2>1, Smallest
  <2>3. PICK x \in s : r = m + 1 - x
    BY <2>2
  <2>4. \A y \in s : m + 1 - x <= m + 1 - y
    BY <2>2, <2>3
  <2> QED
    BY <2>4
<1>2. s # {} => Max(s) \in s /\ \A y \in s : Max(s) >= y
  BY <1>1 DEF Max
<1>3. \A y \in s : y \in Nat /\ y <= m + 1
  OBVIOUS
<1>4. ASSUME m + 1 \in s PROVE Max(s) = m + 1
  <2>1. Max(s) \in s /\ Max(s) >= m + 1
    BY <1>2, <1>4
  <2>2. Max(s) \in Nat /\ Max(s) <= m + 1
    BY <1>3, <2>1
  <2> QED
    BY <2>1, <2>2
<1>5. s \ {m + 1} \in SUBSET (1..m)
  OBVIOUS
<1> QED
  BY <1>2, <1>4, <1>5

\* map[0], map[1], ...: each is the one before it with one more entry stored.
Row(map, base, entries) ==
    /\ map[0] = base
    /\ \A k \in DOMAIN entries : map[k] = Store(map[k - 1], entries[k])

\* A fold is the last of a row of maps, each of which is the one before it with
\* one more entry stored. The folds of the parts of 1..N, which are what
\* FoldLeft goes through, exist by induction on N.
LEMMA StoredInOrder ==
    ASSUME NEW base, NEW N \in Nat, NEW entries, DOMAIN entries = 1..N
    PROVE  \E row : Row(row, base, entries) /\ StoreAll(base, entries) = row[N]
<1> DEFINE Body(g, s) == IF s = {} THEN base ELSE Store(g[s \ {Max(s)}], entries[Max(s)])
           Iterates(g, m) == g = [s \in SUBSET (1..m) |-> Body(g, s)]
           G == {m \in 0..N : \E g : Iterates(g, m)}
           iter == CHOOSE g : Iterates(g, N)
<1>1. StoreAll(base, entries) = iter[1..N]
  BY DEF StoreAll, FoldLeft, MapThenFoldSet
<1>2. 0 \in G
  <2> DEFINE g == [s \in {{}} |-> base]
  <2>1. SUBSET (1..0) = {{}}
    OBVIOUS
  <2>2. g = [s \in {{}} |-> Body(g, s)]
    OBVIOUS
  <2>3. Iterates(g, 0)
    BY <2>1, <2>2
  <2>4. 0 \in 0..N
    OBVIOUS
  <2> HIDE DEF Iterates, g
  <2> QED
    BY <2>3, <2>4
<1>3. ASSUME NEW m \in 0..(N - 1), m \in G PROVE m + 1 \in G
  <2>1. PICK g : Iterates(g, m)
    BY <1>3
  <2> DEFINE h == [s \in SUBSET (1..(m + 1)) |->
                     IF m + 1 \in s THEN Store(g[s \ {m + 1}], entries[m + 1]) ELSE g[s]]
  <2>2. ASSUME NEW s \in SUBSET (1..(m + 1)) PROVE h[s] = Body(h, s)
    <3>1. CASE m + 1 \in s
      <4>1. Max(s) = m + 1 /\ s \ {m + 1} \in SUBSET (1..m) /\ s \ {m + 1} \in SUBSET (1..(m + 1))
        BY <3>1, LatestOfPrefix
      <4>2. h[s] = Store(g[s \ {m + 1}], entries[m + 1])
        BY <3>1
      <4>3. h[s \ {m + 1}] = g[s \ {m + 1}]
        BY <4>1
      <4> HIDE DEF h
      <4> QED
        BY <3>1, <4>1, <4>2, <4>3
    <3>2. CASE m + 1 \notin s
      <4>1. s \in SUBSET (1..m)
        BY <3>2
      <4>2. h[s] = g[s]
        BY <3>2
      <4>3. g[s] = Body(g, s)
        BY <2>1, <4>1
      <4>4. CASE s = {}
        <5> HIDE DEF h
        <5> QED
          BY <4>2, <4>3, <4>4
      <4>5. CASE s # {}
        <5>1. Max(s) \in s
          BY <4>5, LatestOfPrefix
        <5>2. s \ {Max(s)} \in SUBSET (1..(m + 1)) /\ m + 1 \notin s \ {Max(s)}
          BY <3>2
        <5>3. h[s \ {Max(s)}] = g[s \ {Max(s)}]
          BY <5>2
        <5> HIDE DEF h
        <5> QED
          BY <4>2, <4>3, <4>5, <5>3
      <4> QED
        BY <4>4, <4>5
    <3> QED
      BY <3>1, <3>2
  <2>3. Iterates(h, m + 1)
    <3> DEFINE b == [s \in SUBSET (1..(m + 1)) |-> Body(h, s)]
    <3>1. \A s \in SUBSET (1..(m + 1)) : h[s] = b[s]
      BY <2>2
    <3> QED
      BY <3>1
  <2>4. m + 1 \in 0..N
    OBVIOUS
  <2> HIDE DEF Iterates, h
  <2> QED
    BY <2>3, <2>4
<1>4. N \in G
  <2> HIDE DEF G
  <2>1. \A k \in 0..N : k \in G
    BY <1>2, <1>3, InductionToLimit
  <2> QED
    BY <2>1
<1>5. Iterates(iter, N)
  BY <1>4
<1> DEFINE map == [k \in 0..N |-> iter[1..k]]
<1>6. map[0] = base
  <2>1. 1..0 = {} /\ {} \in SUBSET (1..N)
    OBVIOUS
  <2>2. iter[{}] = Body(iter, {})
    BY <1>5, <2>1
  <2> QED
    BY <2>1, <2>2
<1>7. ASSUME NEW k \in 1..N PROVE map[k] = Store(map[k - 1], entries[k])
  <2>0. k \in Nat /\ 1 <= k /\ k <= N
    OBVIOUS
  <2>1. 1..k \in SUBSET (1..N) /\ 1..k # {} /\ (1..k) \ {k} = 1..(k - 1)
    <3>1. \A i \in 1..k : i \in 1..N
      BY <2>0
    <3>2. k \in 1..k
      BY <2>0
    <3>3. \A i \in Int : i \in 1..(k - 1) <=> i \in 1..k /\ i # k
      BY <2>0
    <3>4. \A i \in (1..k) \cup (1..(k - 1)) : i \in Int
      OBVIOUS
    <3>5. (1..k) \ {k} = 1..(k - 1)
      BY <3>3, <3>4
    <3> QED
      BY <3>1, <3>2, <3>5
  <2>2. k - 1 \in Nat /\ (k - 1) + 1 = k /\ k \in 1..k
    OBVIOUS
  <2>3. Max(1..k) = k
    <3>1. \A m \in Nat : \A s \in SUBSET (1..(m + 1)) : m + 1 \in s => Max(s) = m + 1
      BY LatestOfPrefix
    <3>2. 1..k \in SUBSET (1..((k - 1) + 1))
      BY <2>2
    <3>3. (k - 1) + 1 \in 1..k => Max(1..k) = (k - 1) + 1
      BY <2>2, <3>1, <3>2
    <3> QED
      BY <2>2, <3>3
  <2>4. iter[1..k] = Body(iter, 1..k)
    BY <1>5, <2>1
  <2>5. map[k] = iter[1..k] /\ map[k - 1] = iter[1..(k - 1)]
    OBVIOUS
  <2> HIDE DEF iter, map
  <2> QED
    BY <2>1, <2>3, <2>4, <2>5
<1>8. map[N] = iter[1..N]
  OBVIOUS
<1> HIDE DEF iter
<1> QED
  BY <1>1, <1>6, <1>7, <1>8 DEF Row

\* The entry that is stored is there, the others stay.
LEMMA EntryStored ==
    ASSUME NEW jar, NEW entry
    PROVE  /\ DOMAIN Store(jar, entry) = DOMAIN jar \cup {entry.name}
           /\ Store(jar, entry)[entry.name] = entry.cookie
           /\ \A m \in DOMAIN jar : m # entry.name => Store(jar, entry)[m] = jar[m]
BY DEF Store

-----------------------------------------------------------------------------
(* The jar and what the server said                                         *)

JarOK(jar) == DOMAIN jar \subseteq Names /\ \A n \in DOMAIN jar : jar[n] \in Cookie
SaidOK(map) == DOMAIN map \subseteq Names /\ \A n \in DOMAIN map : map[n] \in Meaning

\* A cookie of the jar has the value and the lifetime the server last gave it;
\* one that is not in the jar is gone.
Tells(jar, map) ==
    /\ DOMAIN jar \subseteq DOMAIN map
    /\ \A n \in DOMAIN jar :
         /\ jar[n].value = map[n].value
         /\ jar[n].expiry_time = IF map[n].until.ends THEN map[n].until.at ELSE Session
    /\ \A n \in DOMAIN map : n \notin DOMAIN jar => Gone(map[n].until)

\* No cookie ends at the epoch, which the jar takes for no end at all.
NoEpoch(map) == \A n \in DOMAIN map : map[n].until.ends => map[n].until.at # Session

Agreement ==
    /\ now \in Nat /\ now # 0
    /\ JarOK(cookies_) /\ SaidOK(said)
    /\ Tells(cookies_, said)
    /\ 0 \notin Expiries => NoEpoch(said)

LEMMA LifetimesAgree ==
    ASSUME now \in Nat, now # 0, NEW life \in Lifetimes
    PROVE  /\ Until(life) \in [ends : BOOLEAN, at : Nat]
           /\ ExpiryTime(life) = IF Until(life).ends THEN Until(life).at ELSE Session
           /\ ExpiryTime(life) \in Nat
           /\ 0 \notin Expiries /\ Until(life).ends => Until(life).at # Session
<1>1. CASE life \in [kind : {"none", "malformed"}, n : {0}]
  BY <1>1 DEF Until, ExpiryTime, Forever, Session
<1>2. CASE life \in [kind : {"max-age"}, n : MaxAges]
  BY <1>2, TimesAssumption DEF Until, ExpiryTime, Session
<1>3. CASE life \in [kind : {"expires"}, n : Expiries]
  BY <1>3, TimesAssumption DEF Until, ExpiryTime, Session
<1> QED
  BY <1>1, <1>2, <1>3 DEF Lifetimes

\* One header keeps the two in agreement.
LEMMA OneHeader ==
    ASSUME now \in Nat, now # 0, NEW c \in SetCookie,
           NEW jar, NEW map, JarOK(jar), SaidOK(map), Tells(jar, map),
           0 \notin Expiries => NoEpoch(map)
    PROVE  /\ JarOK(Store(jar, Stored(c)))
           /\ SaidOK(Store(map, Meant(c)))
           /\ Tells(Store(jar, Stored(c)), Store(map, Meant(c)))
           /\ 0 \notin Expiries => NoEpoch(Store(map, Meant(c)))
<1> DEFINE jar2 == Store(jar, Stored(c))
           map2 == Store(map, Meant(c))
<1>1. c.name \in Names /\ c.value \in Values /\ c.life \in Lifetimes
  BY DEF SetCookie
<1>0. Stored(c).name = c.name /\ Meant(c).name = c.name
  BY DEF Stored, Meant
<1>2. /\ DOMAIN jar2 = DOMAIN jar \cup {c.name} /\ jar2[c.name] = Stored(c).cookie
      /\ \A m \in DOMAIN jar : m # c.name => jar2[m] = jar[m]
  <2>1. DOMAIN jar2 = DOMAIN jar \cup {Stored(c).name} /\ jar2[Stored(c).name] = Stored(c).cookie
    BY EntryStored
  <2>2. \A m \in DOMAIN jar : m # Stored(c).name => jar2[m] = jar[m]
    BY EntryStored
  <2> HIDE DEF jar2, map2
  <2> QED
    BY <1>0, <2>1, <2>2
<1>3. /\ DOMAIN map2 = DOMAIN map \cup {c.name} /\ map2[c.name] = Meant(c).cookie
      /\ \A m \in DOMAIN map : m # c.name => map2[m] = map[m]
  <2>1. DOMAIN map2 = DOMAIN map \cup {Meant(c).name} /\ map2[Meant(c).name] = Meant(c).cookie
    BY EntryStored
  <2>2. \A m \in DOMAIN map : m # Meant(c).name => map2[m] = map[m]
    BY EntryStored
  <2> HIDE DEF jar2, map2
  <2> QED
    BY <1>0, <2>1, <2>2
<1>4. /\ Until(c.life) \in [ends : BOOLEAN, at : Nat]
      /\ ExpiryTime(c.life) = IF Until(c.life).ends THEN Until(c.life).at ELSE Session
      /\ ExpiryTime(c.life) \in Nat
      /\ 0 \notin Expiries /\ Until(c.life).ends => Until(c.life).at # Session
  BY <1>1, LifetimesAgree
<1>5. /\ Stored(c).cookie \in Cookie
      /\ Stored(c).cookie.value = c.value /\ Stored(c).cookie.expiry_time = ExpiryTime(c.life)
  BY <1>1, <1>4 DEF Stored, Cookie
<1>6. /\ Meant(c).cookie \in Meaning
      /\ Meant(c).cookie.value = c.value /\ Meant(c).cookie.until = Until(c.life)
  BY <1>1, <1>4 DEF Meant, Meaning
<1> HIDE DEF jar2, map2
<1>7. JarOK(jar2)
  BY <1>1, <1>2, <1>5 DEF JarOK
<1>8. SaidOK(map2)
  BY <1>1, <1>3, <1>6 DEF SaidOK
<1>9. Tells(jar2, map2)
  BY <1>2, <1>3, <1>4, <1>5, <1>6 DEF Tells
<1>10. 0 \notin Expiries => NoEpoch(map2)
  BY <1>3, <1>4, <1>6 DEF NoEpoch
<1> QED
  BY <1>7, <1>8, <1>9, <1>10 DEF jar2, map2

\* And so does a response.
LEMMA OneResponse ==
    ASSUME Agreement, NEW headers \in Headers, update(headers)
    PROVE  Agreement'
<1> DEFINE stored == [i \in DOMAIN headers |-> Stored(headers[i])]
           meant == [i \in DOMAIN headers |-> Meant(headers[i])]
<1>1. PICK N \in 0..MaxHeaders : headers \in [1..N -> SetCookie]
  BY DEF Headers
<1>2. N \in Nat /\ DOMAIN stored = 1..N /\ DOMAIN meant = 1..N
  BY <1>1, HeadersAssumption
<1>3. now \in Nat /\ now # 0 /\ now' = now /\ JarOK(cookies_) /\ SaidOK(said) /\ Tells(cookies_, said)
  BY DEF Agreement, update
<1>4. \A i \in 1..N : /\ headers[i] \in SetCookie
                      /\ stored[i] = Stored(headers[i])
                      /\ meant[i] = Meant(headers[i])
  BY <1>1
<1>5. cookies_' = StoreAll(cookies_, stored) /\ said' = StoreAll(said, meant)
  BY DEF update
<1> HIDE DEF stored, meant
<1>6. PICK jar : Row(jar, cookies_, stored) /\ StoreAll(cookies_, stored) = jar[N]
  BY <1>2, StoredInOrder
<1>7. PICK map : Row(map, said, meant) /\ StoreAll(said, meant) = map[N]
  BY <1>2, StoredInOrder
<1>8. /\ jar[0] = cookies_ /\ map[0] = said
      /\ \A k \in 1..N : jar[k] = Store(jar[k - 1], stored[k]) /\ map[k] = Store(map[k - 1], meant[k])
  BY <1>2, <1>6, <1>7 DEF Row
<1> DEFINE Agree(k) == /\ JarOK(jar[k]) /\ SaidOK(map[k]) /\ Tells(jar[k], map[k])
                       /\ 0 \notin Expiries => NoEpoch(map[k])
           G == {k \in 0..N : Agree(k)}
<1>9. 0 \in G
  BY <1>2, <1>3, <1>8 DEF Agreement
<1>10. ASSUME NEW k \in 0..(N - 1), k \in G PROVE k + 1 \in G
  <2>1. k + 1 \in 1..N /\ (k + 1) - 1 = k /\ k + 1 \in 0..N
    BY <1>2
  <2>2. Agree(k)
    BY <1>10
  <2>3. jar[k + 1] = Store(jar[k], Stored(headers[k + 1]))
    BY <1>4, <1>8, <2>1
  <2>4. map[k + 1] = Store(map[k], Meant(headers[k + 1]))
    BY <1>4, <1>8, <2>1
  <2>5. headers[k + 1] \in SetCookie
    BY <1>4, <2>1
  <2>6. Agree(k + 1)
    BY <1>3, <2>2, <2>3, <2>4, <2>5, OneHeader
  <2> QED
    BY <2>1, <2>6
<1>11. N \in G
  <2> HIDE DEF G
  <2>1. \A k \in 0..N : k \in G
    BY <1>2, <1>9, <1>10, InductionToLimit
  <2> QED
    BY <1>2, <2>1
<1>12. JarOK(cookies_') /\ SaidOK(said') /\ Tells(cookies_', said') /\ (0 \notin Expiries => NoEpoch(said'))
  BY <1>5, <1>6, <1>7, <1>11
<1> QED
  BY <1>3, <1>12 DEF Agreement, JarOK, SaidOK, Tells, NoEpoch, Gone

-----------------------------------------------------------------------------
(* The theorems                                                             *)

LEMMA InitAgreement == Init => Agreement
<1> SUFFICES ASSUME Init PROVE Agreement
  OBVIOUS
<1> DEFINE lines == [value : Values, life : [kind : {"none"}, n : {0}]
                                              \cup [kind : {"expires"}, n : Expiries \ {0}]]
<1>1. PICK file \in Maps(lines) :
        /\ cookies_ = [n \in DOMAIN file |->
                         [value |-> file[n].value, expiry_time |-> file[n].life.n]]
        /\ said = [n \in DOMAIN file |->
                     [value |-> file[n].value, until |-> Until(file[n].life)]]
  BY DEF Init, Load
<1>2. now \in Nat /\ now # 0
  BY TimesAssumption DEF Init
<1>3. DOMAIN file \subseteq Names /\ \A n \in DOMAIN file : file[n] \in lines
  BY DEF Maps
<1>4. ASSUME NEW n \in DOMAIN file
      PROVE  /\ file[n].value \in Values
             /\ file[n].life.n \in Nat
             /\ Until(file[n].life) \in [ends : BOOLEAN, at : Nat]
             /\ file[n].life.n = IF Until(file[n].life).ends THEN Until(file[n].life).at ELSE Session
             /\ Until(file[n].life).ends => Until(file[n].life).at # Session
  <2>1. file[n] \in lines
    BY <1>3
  <2>2. file[n].value \in Values
    BY <2>1
  <2>3. CASE file[n].life \in [kind : {"none"}, n : {0}]
    BY <2>2, <2>3 DEF Until, Forever, Session
  <2>4. CASE file[n].life \in [kind : {"expires"}, n : Expiries \ {0}]
    BY <2>2, <2>4, TimesAssumption DEF Until, Session
  <2> QED
    BY <2>1, <2>3, <2>4
<1>5. JarOK(cookies_)
  BY <1>1, <1>3, <1>4 DEF JarOK, Cookie
<1>6. SaidOK(said)
  BY <1>1, <1>3, <1>4 DEF SaidOK, Meaning
<1>7. Tells(cookies_, said)
  BY <1>1, <1>4 DEF Tells
<1>8. NoEpoch(said)
  BY <1>1, <1>4 DEF NoEpoch
<1> QED
  BY <1>2, <1>5, <1>6, <1>7, <1>8 DEF Agreement

\* apply takes out of the jar only what is gone, and time only makes more so.
LEMMA NextAgreement == Agreement /\ [Next]_vars => Agreement'
<1> SUFFICES ASSUME Agreement, [Next]_vars PROVE Agreement'
  OBVIOUS
<1>1. CASE apply
  <2> DEFINE kept == {n \in DOMAIN cookies_ : ~Expired(cookies_[n])}
  <2>1. cookies_' = [n \in kept |-> cookies_[n]] /\ now' = now /\ said' = said
    BY <1>1 DEF apply
  <2>2. ASSUME NEW n \in DOMAIN cookies_, n \notin kept PROVE Gone(said[n].until)
    <3>1. /\ said[n].until \in [ends : BOOLEAN, at : Nat]
          /\ cookies_[n].expiry_time = IF said[n].until.ends THEN said[n].until.at ELSE Session
      BY DEF Agreement, SaidOK, Tells, Meaning
    <3> QED
      BY <2>2, <3>1 DEF Expired, Gone
  <2> QED
    BY <2>1, <2>2 DEF Agreement, JarOK, SaidOK, Tells, NoEpoch, Gone
<1>2. CASE Tick
  <2>1. now' = now + 1 /\ cookies_' = cookies_ /\ said' = said
    BY <1>2 DEF Tick
  <2>2. ASSUME NEW n \in DOMAIN said, Gone(said[n].until) PROVE Gone(said[n].until)'
    BY <2>1, <2>2 DEF Agreement, SaidOK, Meaning, Gone
  <2> QED
    BY <2>1, <2>2 DEF Agreement, JarOK, SaidOK, Tells, NoEpoch
<1>3. CASE \E headers \in Headers : update(headers)
  BY <1>3, OneResponse
<1>4. CASE ExchangeFails
  BY <1>4 DEF ExchangeFails, Agreement, JarOK, SaidOK, Tells, NoEpoch, Gone
<1>5. CASE UNCHANGED vars
  BY <1>5 DEF vars, Agreement, JarOK, SaidOK, Tells, NoEpoch, Gone
<1> QED
  BY <1>1, <1>2, <1>3, <1>4, <1>5 DEF Next

LEMMA AgreementInvariant == Spec => []Agreement
BY InitAgreement, NextAgreement, PTL DEF Spec

\* The jar holds cookies by their names, each with a value and a time, and a
\* request carries names and values.
THEOREM TypeCorrect == Spec => []TypeOK
<1> DEFINE Rest == pc \in {"idle", "waiting"} /\ sent \subseteq Names \X Values
<1>1. Init => Rest
  BY DEF Init
<1>2. Agreement /\ Rest /\ [Next]_vars => Rest'
  <2> SUFFICES ASSUME Agreement, Rest, [Next]_vars PROVE Rest'
    OBVIOUS
  <2>1. CASE apply
    BY <2>1 DEF apply, Agreement, JarOK, Cookie
  <2>2. CASE ~apply
    BY <2>2 DEF Next, ExchangeFails, Tick, update, vars
  <2> QED
    BY <2>1, <2>2
<1>3. Agreement /\ Rest => TypeOK
  BY DEF Agreement, JarOK, SaidOK, TypeOK
<1> HIDE DEF Rest
<1> QED
  BY <1>1, <1>2, <1>3, AgreementInvariant, PTL DEF Spec

LEMMA KeptIsValid ==
    ASSUME Agreement, NEW n \in DOMAIN said
    PROVE  /\ ~Gone(said[n].until) =>
                n \in DOMAIN cookies_ /\ ~Expired(cookies_[n]) /\ cookies_[n].value = said[n].value
           /\ 0 \notin Expiries /\ n \in DOMAIN cookies_ /\ ~Expired(cookies_[n]) =>
                ~Gone(said[n].until) /\ cookies_[n].value = said[n].value
<1>1. said[n].until \in [ends : BOOLEAN, at : Nat] /\ now \in Nat
  BY DEF Agreement, SaidOK, Meaning
<1>2. n \in DOMAIN cookies_ =>
        /\ cookies_[n].expiry_time = IF said[n].until.ends THEN said[n].until.at ELSE Session
        /\ cookies_[n].value = said[n].value
  BY DEF Agreement, Tells
<1>3. n \notin DOMAIN cookies_ => Gone(said[n].until)
  BY DEF Agreement, Tells
<1>4. 0 \notin Expiries /\ said[n].until.ends => said[n].until.at # Session
  BY DEF Agreement, NoEpoch
<1> QED
  BY <1>1, <1>2, <1>3, <1>4 DEF Gone, Expired

LEMMA ApplySends ==
    ASSUME [Next]_vars, pc = "idle", pc' = "waiting"
    PROVE  sent' = {<<n, cookies_[n].value>> : n \in {m \in DOMAIN cookies_ : ~Expired(cookies_[m])}}
BY DEF Next, apply, update, ExchangeFails, Tick, vars

\* Every cookie that has not expired goes with every request, whatever headers
\* the responses had and in whatever order.
THEOREM NothingIsLeftOut == Spec => ValidCookiesSent
<1>1. Agreement /\ [Next]_vars => NothingLeftOut
  <2> SUFFICES ASSUME Agreement, [Next]_vars, pc = "idle", pc' = "waiting"
               PROVE  Valid \subseteq sent'
    BY DEF NothingLeftOut
  <2> QED
    BY ApplySends, KeptIsValid DEF Valid
<1> QED
  BY <1>1, AgreementInvariant, PTL DEF Spec, ValidCookiesSent

\* And nothing else goes with it, unless the server lets a cookie expire at the
\* epoch itself.
THEOREM NothingElseIsSent == ASSUME 0 \notin Expiries PROVE Spec => OnlyValidCookiesSent
<1>1. Agreement /\ [Next]_vars => NothingElseSent
  <2> SUFFICES ASSUME Agreement, [Next]_vars, pc = "idle", pc' = "waiting"
               PROVE  sent' \subseteq Valid
    BY DEF NothingElseSent
  <2>1. DOMAIN cookies_ \subseteq DOMAIN said
    BY DEF Agreement, Tells
  <2> QED
    BY <2>1, ApplySends, KeptIsValid DEF Valid
<1> QED
  BY <1>1, AgreementInvariant, PTL DEF Spec, OnlyValidCookiesSent

=============================================================================
