------------------------- MODULE ProviderListingProofs -------------------------
(***************************************************************************)
(* Lemmas about ProviderListing, for any repositories, page size and       *)
(* number of pages, and any number of changes that others make: what a     *)
(* listing has got, against what is still on the pages to come.            *)
(* CloneCommandProofs states the theorems, of the run that lists.          *)
(***************************************************************************)
EXTENDS ProviderListing, FiniteSetTheorems, SequenceTheorems, TLAPS

USE HoldingsAssumption, ListedAssumption, PagesAssumption

\* How many repositories the pages so far had room for, and those on the pages to come.
Read == (page - 1) * PageSize
Unread == {held[k] : k \in (Read + 1)..Len(held)}

\* Between two pages nothing is both listed and to come, unless others have made
\* repositories, and nothing is neither, unless others have deleted some.
PagingInv ==
  stage \in {"org", "user"} =>
    /\ lister # "gerrit" /\ Len(got) = Read
    /\ changed.made = 0 => IsInjective(got) /\ Range(got) \cap Unread = {}
    /\ changed.deleted = 0 => before \subseteq Range(got) \cup Unread

KeptInv == changed.deleted = 0 => before \subseteq Range(held)

\* The errors tell what has been tried before.
ErrorInv ==
  /\ stage = "auth" => err = "none"
  /\ stage = "anonymous" => err = "auth"
  /\ stage = "ssh" \/ (stage = "user" /\ lister = "gitlab") => err # "none"
  /\ err = "wrapped" => lister \in {"gitlab", "gerrit"}
  /\ again \/ (stage = "failed" /\ err = "rate") => lister = "github"

OffInv == stage = "off" => /\ page = 1 /\ got = <<>> /\ err = "none" /\ ~again
                           /\ changed = [made |-> 0, deleted |-> 0]

ListInv == ListTypeOK /\ PagingInv /\ KeptInv /\ ErrorInv /\ OffInv /\ ListingIsComplete /\ ListedOnce
-----------------------------------------------------------------------------
(***************************************************************************)
(* Pages and sequences.                                                    *)
(***************************************************************************)
LEMMA ReadPages ==
  ASSUME ListTypeOK
  PROVE  /\ Read \in Nat /\ page * PageSize = Read + PageSize
         /\ ((page + 1) - 1) * PageSize = Read + PageSize
         /\ page = 1 => Read = 0
<1>1. PICK n \in Nat : page = n + 1
  <2>1. page - 1 \in Nat /\ page = (page - 1) + 1
    BY DEF ListTypeOK
  <2> QED BY <2>1
<1>2. page - 1 = n /\ (page + 1) - 1 = n + 1
  BY <1>1
<1>3. n * PageSize \in Nat /\ (n + 1) * PageSize = n * PageSize + PageSize
  OBVIOUS
<1>4. n = 0 => n * PageSize = 0
  OBVIOUS
<1> QED BY <1>1, <1>2, <1>3, <1>4 DEF Read

\* A repository made meanwhile comes first and moves the others up.
LEMMA Made ==
  ASSUME NEW s \in Seq(Repos), IsInjective(s), NEW r \in Repos, r \notin Range(s)
  PROVE  LET t == <<r>> \o s IN
         /\ t \in Seq(Repos) /\ Len(t) = Len(s) + 1 /\ IsInjective(t) /\ t[1] = r
         /\ \A k \in 1..Len(s) : t[k + 1] = s[k]
<1> DEFINE t == <<r>> \o s
<1>1. <<r>> \in Seq(Repos) /\ Len(<<r>>) = 1 /\ <<r>>[1] = r
  OBVIOUS
<1>2. t \in Seq(Repos) /\ Len(t) = Len(s) + 1 /\ t[1] = r
      /\ \A i \in 1..Len(t) : i # 1 => t[i] = s[i - 1]
  BY <1>1, ConcatProperties
<1> HIDE DEF t
<1>3. \A k \in 1..Len(s) : t[k + 1] = s[k]
  BY <1>2
<1>4. ASSUME NEW i \in 1..Len(t), NEW k \in 1..Len(t), t[i] = t[k] PROVE i = k
  <2>1. \A n \in 1..Len(s) : s[n] # r
    BY RangeEquality
  <2>2. CASE i = 1 \/ k = 1
    BY <1>2, <1>4, <2>1, <2>2
  <2>3. CASE i # 1 /\ k # 1
    <3>1. i - 1 \in 1..Len(s) /\ k - 1 \in 1..Len(s) /\ s[i - 1] = s[k - 1]
      BY <1>2, <1>4, <2>3
    <3>2. i - 1 = k - 1
      BY <3>1 DEF IsInjective
    <3> QED BY <3>2
  <2> QED BY <2>2, <2>3
<1>5. IsInjective(t)
  BY <1>2, <1>4 DEF IsInjective
<1> QED BY <1>2, <1>3, <1>5 DEF t

\* A deletion moves those after it down by one.
LEMMA Deleted ==
  ASSUME NEW s \in Seq(Repos), IsInjective(s), NEW k \in 1..Len(s)
  PROVE  LET t == SubSeq(s, 1, k - 1) \o SubSeq(s, k + 1, Len(s)) IN
         /\ t \in Seq(Repos) /\ Len(t) = Len(s) - 1 /\ IsInjective(t)
         /\ \A i \in 1..Len(t) : t[i] = IF i < k THEN s[i] ELSE s[i + 1]
<1> DEFINE a == SubSeq(s, 1, k - 1)
           b == SubSeq(s, k + 1, Len(s))
           t == a \o b
<1>1. a \in Seq(Repos) /\ Len(a) = k - 1 /\ \A i \in 1..(k - 1) : a[i] = s[i]
  <2>1. \A i \in 1..(k - 1) : s[i] \in Repos
    OBVIOUS
  <2> QED BY <2>1, SubSeqProperties
<1>2. b \in Seq(Repos) /\ Len(b) = Len(s) - k /\ \A i \in 1..(Len(s) - k) : b[i] = s[k + i]
  <2>1. \A i \in (k + 1)..Len(s) : s[i] \in Repos
    OBVIOUS
  <2> QED BY <2>1, SubSeqProperties
<1> HIDE DEF a, b
<1>3. t \in Seq(Repos) /\ Len(t) = Len(s) - 1
      /\ \A i \in 1..Len(t) : t[i] = IF i <= k - 1 THEN a[i] ELSE b[i - (k - 1)]
  <2>1. /\ t \in Seq(Repos) /\ Len(t) = Len(a) + Len(b)
        /\ \A i \in 1..Len(a) + Len(b) : t[i] = IF i <= Len(a) THEN a[i] ELSE b[i - Len(a)]
    BY <1>1, <1>2, ConcatProperties
  <2> HIDE DEF t
  <2>2. Len(a) + Len(b) = Len(s) - 1
    BY <1>1, <1>2
  <2> QED BY <1>1, <2>1, <2>2
<1> HIDE DEF t
<1>4. \A i \in 1..Len(t) : t[i] = IF i < k THEN s[i] ELSE s[i + 1]
  <2> SUFFICES ASSUME NEW i \in 1..Len(t) PROVE t[i] = IF i < k THEN s[i] ELSE s[i + 1]
    OBVIOUS
  <2>1. CASE i < k
    BY <1>1, <1>3, <2>1
  <2>2. CASE ~(i < k)
    <3>1. i - (k - 1) \in 1..(Len(s) - k) /\ k + (i - (k - 1)) = i + 1
      BY <1>3, <2>2
    <3> QED BY <1>2, <1>3, <2>2, <3>1
  <2> QED BY <2>1, <2>2
<1>5. IsInjective(t)
  <2> SUFFICES ASSUME NEW i \in 1..Len(t), NEW j \in 1..Len(t), t[i] = t[j] PROVE i = j
    BY <1>3 DEF IsInjective
  <2> DEFINE f(n) == IF n < k THEN n ELSE n + 1
  <2>1. f(i) \in 1..Len(s) /\ f(j) \in 1..Len(s) /\ s[f(i)] = s[f(j)]
    BY <1>3, <1>4
  <2>2. f(i) = f(j)
    BY <2>1 DEF IsInjective
  <2> QED BY <2>2
<1> QED BY <1>3, <1>4, <1>5 DEF t, a, b

LEMMA PageOf ==
  ASSUME ListTypeOK
  PROVE  /\ Page(page) \in Seq(Repos)
         /\ ~LastPage(page) => Len(Page(page)) = PageSize /\ Read + PageSize < Len(held)
         /\ LastPage(page) /\ Read <= Len(held) => Len(Page(page)) = Len(held) - Read
         /\ LastPage(page) /\ Read > Len(held) => Len(Page(page)) = 0
         /\ \A k \in 1..Len(Page(page)) : Page(page)[k] = held[Read + k] /\ Read + k <= Len(held)
<1> DEFINE last == AtLeast(page * PageSize, Len(held))
<1>0. /\ held \in Seq(Repos) /\ Len(held) \in Nat /\ Read \in Nat
      /\ page * PageSize = Read + PageSize /\ (page - 1) * PageSize = Read
  BY ReadPages DEF ListTypeOK, Read
<1>1. /\ last \in Int /\ last <= Len(held)
      /\ ~LastPage(page) => last = Read + PageSize /\ Read + PageSize < Len(held)
      /\ LastPage(page) => last = Len(held)
  BY <1>0 DEF AtLeast, LastPage
<1>2. Page(page) = SubSeq(held, Read + 1, last)
  BY <1>0 DEF Page
<1> HIDE DEF last
<1>3. \A i \in (Read + 1)..last : held[i] \in Repos
  BY <1>0, <1>1
<1>4. Page(page) \in Seq(Repos)
      /\ Len(Page(page)) = (IF Read + 1 <= last THEN last - Read ELSE 0)
      /\ \A i \in 1..(last - Read) : Page(page)[i] = held[Read + i]
  <2>1. SubSeq(held, Read + 1, last) \in Seq(Repos)
        /\ Len(SubSeq(held, Read + 1, last)) =
             (IF Read + 1 <= last THEN last - (Read + 1) + 1 ELSE 0)
        /\ \A i \in 1 .. last - (Read + 1) + 1 :
             SubSeq(held, Read + 1, last)[i] = held[Read + 1 + i - 1]
    BY <1>0, <1>1, <1>3, SubSeqProperties
  <2>2. last - (Read + 1) + 1 = last - Read /\ (Read + 1 <= last => last - Read \in Nat)
    BY <1>0, <1>1
  <2>3. ASSUME NEW i \in 1..(last - Read)
        PROVE  i \in 1 .. last - (Read + 1) + 1 /\ Read + 1 + i - 1 = Read + i
    BY <1>0, <1>1
  <2>4. ASSUME NEW i \in 1..(last - Read) PROVE Page(page)[i] = held[Read + i]
    BY <1>2, <2>1, <2>3
  <2> QED BY <1>2, <2>1, <2>2, <2>4
<1> QED BY <1>0, <1>1, <1>4

\* Whatever the order in which the projects are listed, each is listed once.
LEMMA Arranged ==
  ASSUME NEW P \in SUBSET Repos, IsFiniteSet(P), NEW s \in Arrangements(P)
  PROVE  s \in Seq(Repos) /\ IsInjective(s) /\ Range(s) = P
<1>1. Cardinality(P) \in Nat
  BY FS_CardinalityType
<1>2. s \in Injection(1..Cardinality(P), P) /\ s \in [1..Cardinality(P) -> P]
  BY DEF Arrangements, Injection
<1>3. Cardinality(1..Cardinality(P)) = Cardinality(P)
  BY <1>1, FS_Interval
<1>4. s \in Surjection(1..Cardinality(P), P)
  BY <1>2, <1>3, FS_Injection
<1>5. Range(s) = P
  BY <1>2, <1>4 DEF Surjection, Range
<1>6. s \in [1..Cardinality(P) -> Repos]
  BY <1>2
<1> QED BY <1>1, <1>2, <1>5, <1>6 DEF Injection

LEMMA HeldFinite == ASSUME ListTypeOK PROVE IsFiniteSet(Range(held)) /\ Range(held) \in SUBSET Repos
<1>1. held \in Seq(Repos) /\ Len(held) \in Nat
  BY DEF ListTypeOK
<1>2. held \in Surjection(1..Len(held), Range(held))
  BY <1>1 DEF Surjection, Range
<1>3. IsFiniteSet(1..Len(held))
  BY <1>1, FS_Interval
<1> QED BY <1>1, <1>2, <1>3, FS_Surjection, RangeOfSeq
-----------------------------------------------------------------------------
(***************************************************************************)
(* A page arrives.                                                         *)
(***************************************************************************)
LEMMA PageStage == ASSUME ListTypeOK, PageArrives PROVE stage \in {"org", "user"}
BY DEF ListTypeOK, PageArrives, Stages

\* What is to come is on this page or on a later one.
LEMMA UnreadSplits ==
  ASSUME ListTypeOK, Read <= Len(held) \/ Len(Page(page)) = 0
  PROVE  /\ Range(Page(page)) \subseteq Unread
         /\ Unread = Range(Page(page)) \cup {held[k] : k \in (Read + Len(Page(page)) + 1)..Len(held)}
         /\ Range(Page(page)) \cap {held[k] : k \in (Read + Len(Page(page)) + 1)..Len(held)} = {}
<1> DEFINE P == Page(page)
           n == Len(P)
<1>0. /\ Read \in Nat /\ held \in Seq(Repos) /\ IsInjective(held) /\ P \in Seq(Repos) /\ n \in Nat
      /\ \A k \in 1..n : P[k] = held[Read + k] /\ Read + k <= Len(held)
  BY PageOf, ReadPages DEF ListTypeOK
<1>1. Range(P) = {P[k] : k \in 1..n}
  BY <1>0, RangeEquality
<1> HIDE DEF P, n
<1>2. \A k \in 1..n : Read + k \in (Read + 1)..Len(held) /\ Read + k < Read + n + 1
  BY <1>0
<1>3. \A k \in (Read + 1)..Len(held) : k < Read + n + 1 => k - Read \in 1..n /\ Read + (k - Read) = k
  BY <1>0
<1>4. Range(P) \subseteq Unread
  BY <1>0, <1>1, <1>2 DEF Unread
<1>5. Unread = Range(P) \cup {held[k] : k \in (Read + n + 1)..Len(held)}
  <2>1. \A k \in (Read + n + 1)..Len(held) : k \in (Read + 1)..Len(held)
    BY <1>0
  <2>2. ASSUME NEW k \in (Read + 1)..Len(held)
        PROVE  held[k] \in Range(P) \/ k \in (Read + n + 1)..Len(held)
    <3>1. CASE k < Read + n + 1
      <4>1. k - Read \in 1..n /\ Read + (k - Read) = k
        BY <1>3, <3>1
      <4>2. P[k - Read] = held[k]
        BY <1>0, <4>1
      <4> QED BY <1>1, <4>1, <4>2
    <3>2. CASE ~(k < Read + n + 1)
      BY <1>0, <3>2
    <3> QED BY <3>1, <3>2
  <2> QED BY <1>4, <2>1, <2>2 DEF Unread
<1>6. ASSUME NEW k \in 1..n, NEW m \in (Read + n + 1)..Len(held), P[k] = held[m] PROVE FALSE
  <2>1. held[Read + k] = held[m] /\ Read + k \in 1..Len(held) /\ m \in 1..Len(held) /\ Read + k # m
    BY <1>0, <1>2, <1>6
  <2> QED BY <1>0, <2>1 DEF IsInjective
<1> QED BY <1>1, <1>4, <1>5, <1>6 DEF P, n

LEMMA ConcatInjective ==
  ASSUME NEW s \in Seq(Repos), NEW t \in Seq(Repos), IsInjective(s), IsInjective(t),
         Range(s) \cap Range(t) = {}
  PROVE  IsInjective(s \o t)
<1> DEFINE u == s \o t
<1>1. u \in Seq(Repos) /\ Len(u) = Len(s) + Len(t) /\ Len(s) \in Nat /\ Len(t) \in Nat
      /\ \A i \in 1..Len(s) + Len(t) : u[i] = IF i <= Len(s) THEN s[i] ELSE t[i - Len(s)]
  BY ConcatProperties
<1>2. \A i \in 1..Len(s) : \A k \in 1..Len(t) : s[i] # t[k]
  <2>1. Range(s) = {s[i] : i \in 1..Len(s)} /\ Range(t) = {t[k] : k \in 1..Len(t)}
    BY RangeEquality
  <2> QED BY <2>1
<1> HIDE DEF u
<1>3. ASSUME NEW i \in 1..Len(u), NEW k \in 1..Len(u), u[i] = u[k] PROVE i = k
  <2>1. CASE i <= Len(s) /\ k <= Len(s)
    <3>1. i \in 1..Len(s) /\ k \in 1..Len(s) /\ s[i] = s[k]
      BY <1>1, <1>3, <2>1
    <3> QED BY <3>1 DEF IsInjective
  <2>2. CASE i <= Len(s) /\ ~(k <= Len(s))
    <3>1. i \in 1..Len(s) /\ k - Len(s) \in 1..Len(t) /\ s[i] = t[k - Len(s)]
      BY <1>1, <1>3, <2>2
    <3> QED BY <1>2, <3>1
  <2>3. CASE ~(i <= Len(s)) /\ k <= Len(s)
    <3>1. k \in 1..Len(s) /\ i - Len(s) \in 1..Len(t) /\ s[k] = t[i - Len(s)]
      BY <1>1, <1>3, <2>3
    <3> QED BY <1>2, <3>1
  <2>4. CASE ~(i <= Len(s)) /\ ~(k <= Len(s))
    <3>1. k - Len(s) \in 1..Len(t) /\ i - Len(s) \in 1..Len(t) /\ t[k - Len(s)] = t[i - Len(s)]
      BY <1>1, <1>3, <2>4
    <3>2. k - Len(s) = i - Len(s)
      BY <3>1 DEF IsInjective
    <3> QED BY <1>1, <3>2
  <2> QED BY <2>1, <2>2, <2>3, <2>4
<1> QED BY <1>1, <1>3 DEF u, IsInjective

LEMMA PageInjective == ASSUME ListTypeOK PROVE IsInjective(Page(page))
<1>0. /\ Read \in Nat /\ held \in Seq(Repos) /\ IsInjective(held) /\ Page(page) \in Seq(Repos)
      /\ \A k \in 1..Len(Page(page)) : Page(page)[k] = held[Read + k] /\ Read + k <= Len(held)
  BY PageOf, ReadPages DEF ListTypeOK
<1> SUFFICES ASSUME NEW i \in 1..Len(Page(page)), NEW k \in 1..Len(Page(page)),
                    Page(page)[i] = Page(page)[k]
             PROVE  i = k
  BY <1>0 DEF IsInjective
<1>1. Read + i \in 1..Len(held) /\ Read + k \in 1..Len(held) /\ held[Read + i] = held[Read + k]
  BY <1>0
<1>2. Read + i = Read + k
  BY <1>0, <1>1 DEF IsInjective
<1> QED BY <1>0, <1>2

LEMMA PageArrivesInv == ASSUME ListInv, PageArrives PROVE ListInv'
<1> DEFINE P == Page(page)
<1>0. /\ ListTypeOK /\ PagingInv /\ KeptInv /\ ErrorInv /\ stage \in {"org", "user"}
      /\ held \in Seq(Repos) /\ IsInjective(held) /\ got \in Seq(Repos) /\ page \in Nat \ {0}
      /\ Len(held) \in Nat /\ lister # "gerrit"
  BY PageStage DEF ListInv, ListTypeOK, PagingInv
<1>1. /\ Read \in Nat /\ page * PageSize = Read + PageSize
      /\ ((page + 1) - 1) * PageSize = Read + PageSize
  BY <1>0, ReadPages
<1>2. /\ P \in Seq(Repos) /\ Len(P) \in Nat
      /\ ~LastPage(page) => Len(P) = PageSize /\ Read + PageSize < Len(held)
      /\ LastPage(page) /\ Read <= Len(held) => Len(P) = Len(held) - Read
      /\ LastPage(page) /\ Read > Len(held) => Len(P) = 0
  BY <1>0, PageOf
<1>3. /\ got' = got \o P /\ UNCHANGED <<holder, held, lister, login, waits, before, changed, err, again>>
      /\ \/ stage' = "listed" /\ page' = page
            /\ (LastPage(page) \/ (lister = "gitlab" /\ page >= MaxPages))
         \/ stage' = stage /\ page' = page + 1
            /\ ~(LastPage(page) \/ (lister = "gitlab" /\ page >= MaxPages))
  BY DEF PageArrives, asked, world, NextPage
<1>4. /\ got' \in Seq(Repos) /\ Len(got') = Len(got) + Len(P)
      /\ Range(got') = Range(got) \cup Range(P)
  BY <1>0, <1>2, <1>3, ConcatProperties, RangeConcatenation
<1> DEFINE rest == {held[k] : k \in (Read + Len(P) + 1)..Len(held)}
<1>5. /\ Unread = Range(P) \cup rest /\ Range(P) \cap rest = {} /\ Range(P) \subseteq Unread
  <2>1. Read <= Len(held) \/ Len(P) = 0
    BY <1>0, <1>1, <1>2
  <2> QED BY <1>0, <2>1, UnreadSplits
<1>6. IsInjective(P)
  BY <1>0, PageInjective
<1> HIDE DEF P
<1>7. changed.made = 0 => IsInjective(got') /\ Range(got') \cap rest = {}
  <2> SUFFICES ASSUME changed.made = 0 PROVE IsInjective(got') /\ Range(got') \cap rest = {}
    OBVIOUS
  <2>1. IsInjective(got) /\ Range(got) \cap Unread = {}
    BY <1>0 DEF PagingInv
  <2> HIDE DEF rest
  <2>2. IsInjective(got')
    BY <1>0, <1>2, <1>3, <1>5, <1>6, <2>1, ConcatInjective
  <2> QED BY <1>4, <1>5, <2>1, <2>2
<1>8. changed.deleted = 0 => before \subseteq Range(got') \cup rest
  BY <1>0, <1>4, <1>5 DEF PagingInv
<1>9. Len(got') = Read + Len(P)
  BY <1>0, <1>4 DEF PagingInv
<1>10. ListTypeOK' /\ KeptInv' /\ ErrorInv' /\ OffInv'
  <2>1. KeptInv' /\ ErrorInv' /\ OffInv'
    BY <1>0, <1>3 DEF KeptInv, ErrorInv, OffInv
  <2>2. page' \in Nat \ {0} /\ (lister = "gitlab" => page' <= MaxPages)
    BY <1>0, <1>3 DEF ListTypeOK
  <2> QED BY <1>0, <1>3, <1>4, <2>1, <2>2 DEF ListTypeOK, Stages
<1>11. CASE ~LastPage(page) /\ stage' # "listed"
  <2>1. Read' = Read + PageSize
    <3>1. page' = page + 1
      BY <1>3, <1>11
    <3>2. page' - 1 = (page + 1) - 1
      BY <3>1
    <3>3. Read' = (page' - 1) * PageSize
      BY Zenon DEF Read
    <3> QED BY <1>1, <3>2, <3>3, Zenon
  <2>2. Unread' = rest /\ Len(got') = Read'
    BY <1>2, <1>3, <1>9, <1>11, <2>1 DEF Unread
  <2> HIDE DEF rest
  <2>3. PagingInv'
    BY <1>0, <1>3, <1>7, <1>8, <2>2 DEF PagingInv
  <2>4. ListingIsComplete' /\ ListedOnce'
    BY <1>11 DEF ListingIsComplete, ListedOnce
  <2> QED BY <1>10, <2>3, <2>4 DEF ListInv
<1>12. CASE stage' = "listed"
  <2>1. PagingInv' /\ ListedOnce'
    BY <1>3, <1>7, <1>12 DEF PagingInv, ListedOnce
  <2>2. Wanted' = before /\ lister' # "gerrit"
    BY <1>0, <1>3 DEF Wanted
  <2>3. CASE LastPage(page)
    <3>1. rest = {}
      <4>1. \A k \in (Read + Len(P) + 1)..Len(held) : FALSE
        BY <1>0, <1>1, <1>2, <2>3
      <4> QED BY <4>1
    <3>2. ListingIsComplete'
      BY <1>3, <1>8, <2>2, <3>1 DEF ListingIsComplete
    <3> QED BY <1>10, <2>1, <3>2 DEF ListInv
  <2>4. CASE ~LastPage(page)
    <3>1. lister = "gitlab" /\ page = MaxPages
      BY <1>0, <1>3, <1>12, <2>4 DEF ListTypeOK
    <3>2. Len(got') = MaxPages * PageSize
      BY <1>1, <1>2, <1>9, <2>4, <3>1
    <3>3. MaxPages * PageSize = PageSize * MaxPages /\ PageSize * MaxPages \in Nat
      OBVIOUS
    <3>4. Truncated'
      BY <1>3, <3>1, <3>2, <3>3 DEF Truncated
    <3>5. ListingIsComplete'
      BY <3>4 DEF ListingIsComplete
    <3> QED BY <1>10, <2>1, <3>5 DEF ListInv
  <2> QED BY <2>3, <2>4
<1> QED BY <1>3, <1>11, <1>12
-----------------------------------------------------------------------------
(***************************************************************************)
(* The other answers.                                                      *)
(***************************************************************************)
LEMMA ListInvFacts ==
  ASSUME ListInv
  PROVE  /\ ListTypeOK /\ KeptInv /\ ErrorInv
         /\ holder \in {"org", "user", "nobody"} /\ held \in Seq(Repos) /\ IsInjective(held)
         /\ stage \in Stages /\ lister \in {"none", "github", "gitlab", "gerrit"}
         /\ err \in Errors /\ page \in Nat \ {0} /\ got \in Seq(Repos)
BY DEF ListInv, ListTypeOK

\* A listing that has just begun, again or as a user, has everything to come.
LEMMA BeginsInv ==
  ASSUME ListTypeOK', KeptInv', page' = 1, got' = <<>>, lister' # "gerrit" PROVE PagingInv'
<1>1. Read' = 0
  <2>1. Read' = (page' - 1) * PageSize
    BY Zenon DEF Read
  <2>2. page' - 1 = 0 /\ 0 * PageSize = 0
    OBVIOUS
  <2> QED BY <2>1, <2>2, Zenon
<1>2. held' \in Seq(Repos)
  BY DEF ListTypeOK
<1>3. Unread' = Range(held')
  <2>1. Unread' = {held'[k] : k \in 1..Len(held')}
    BY <1>1 DEF Unread
  <2> QED BY <1>2, <2>1, RangeEquality
<1>4. Len(<<>>) = 0 /\ Range(<<>>) = {} /\ IsInjective(<<>>)
  BY DEF Range, IsInjective
<1> QED BY <1>1, <1>3, <1>4 DEF PagingInv, KeptInv

LEMMA GiveUpInv ==
  ASSUME ListInv, NEW how \in Errors \ {"none"}, GiveUp(how),
         how = "wrapped" => lister \in {"gitlab", "gerrit"}, how = "rate" => lister = "github"
  PROVE  ListInv'
<1>1. ListTypeOK' /\ KeptInv' /\ ErrorInv'
  BY ListInvFacts DEF GiveUp, asked, world, ListTypeOK, KeptInv, ErrorInv, Stages
<1>2. PagingInv' /\ OffInv' /\ ListingIsComplete' /\ ListedOnce'
  BY DEF GiveUp, PagingInv, OffInv, ListingIsComplete, ListedOnce
<1> QED BY <1>1, <1>2 DEF ListInv

LEMMA AsUserInv ==
  ASSUME ListInv, NEW how \in {"none", "rate", "other"}, TryAsUser(how), lister \in {"github", "gitlab"},
         lister = "gitlab" => how # "none"
  PROVE  ListInv'
<1>1. <<>> \in Seq(Repos)
  OBVIOUS
<1>2. ListTypeOK' /\ KeptInv' /\ ErrorInv'
  BY <1>1, ListInvFacts DEF TryAsUser, asked, world, ListTypeOK, KeptInv, ErrorInv, Stages, Errors
<1>3. PagingInv'
  <2>1. page' = 1 /\ got' = <<>> /\ lister' # "gerrit"
    BY DEF TryAsUser, asked
  <2> QED BY <1>2, <2>1, BeginsInv
<1>4. OffInv' /\ ListingIsComplete' /\ ListedOnce'
  BY DEF TryAsUser, OffInv, ListingIsComplete, ListedOnce
<1> QED BY <1>2, <1>3, <1>4 DEF ListInv

\* Gerrit's answer is the whole list, or what an anonymous request sees of it.
LEMMA ListedInv ==
  ASSUME ListInv, lister = "gerrit", NEW projects \in SUBSET Range(held),
         NEW with \in {"none", "auth"}, Listed(projects, with),
         projects = (IF with = "auth" THEN Range(held) \cap Public ELSE Range(held))
  PROVE  ListInv'
<1> DEFINE wanted == projects \cap Prefixed
<1>0. IsFiniteSet(wanted) /\ wanted \in SUBSET Repos
  BY ListInvFacts, HeldFinite, FS_Subset
<1>1. /\ got' \in Seq(Repos) /\ IsInjective(got') /\ Range(got') = wanted
      /\ stage' = "listed" /\ err' = with
      /\ UNCHANGED <<holder, held, lister, login, waits, before, page, again, changed>>
  BY <1>0, Arranged DEF Listed, asked, world
<1>2. ListTypeOK' /\ KeptInv' /\ ErrorInv'
  BY <1>1, ListInvFacts DEF ListTypeOK, KeptInv, ErrorInv, Stages, Errors
<1>3. PagingInv' /\ OffInv' /\ ListedOnce'
  BY <1>1 DEF PagingInv, OffInv, ListedOnce
<1>4. ListingIsComplete'
  <2>1. Wanted' = Prefixed \cap (IF with = "auth" THEN before \cap Public ELSE before)
    BY <1>1 DEF Wanted
  <2>2. Wanted' \cap Range(held') \subseteq Range(got')
    BY <1>1, <2>1
  <2> QED BY <2>2 DEF ListingIsComplete
<1> QED BY <1>2, <1>3, <1>4 DEF ListInv

\* A step that only changes where the listing is, outside of the pages.
LEMMA MovesInv ==
  ASSUME ListInv, lister = "gerrit", page' \in {1, 2}, stage' \in {"auth", "anonymous", "ssh"},
         err' \in Errors, ErrorInv',
         UNCHANGED <<asked, got, again, world>>
  PROVE  ListInv'
<1>1. ListTypeOK' /\ KeptInv'
  BY ListInvFacts DEF asked, world, ListTypeOK, KeptInv, Stages
<1>2. PagingInv' /\ OffInv' /\ ListingIsComplete' /\ ListedOnce'
  BY DEF PagingInv, OffInv, ListingIsComplete, ListedOnce
<1> QED BY <1>1, <1>2 DEF ListInv

LEMMA EndpointFailsInv == ASSUME ListInv, EndpointFails PROVE ListInv'
<1>0. /\ stage \in {"auth", "anonymous"} /\ lister = "gerrit" /\ ErrorInv /\ page \in Nat \ {0}
      /\ page <= 2 /\ err \in Errors
  BY ListInvFacts DEF EndpointFails, ListTypeOK
<1>1. PICK how \in {"rate", "auth", "other"} :
        IF page = 1
        THEN page' = 2 /\ UNCHANGED <<asked, stage, got, err, again, world>>
        ELSE IF stage = "auth" /\ how = "auth"
        THEN stage' = "anonymous" /\ err' = how /\ page' = 1 /\ UNCHANGED <<asked, got, again, world>>
        ELSE TrySSH(IF stage = "auth" THEN how ELSE err)
  BY DEF EndpointFails
<1>2. CASE page = 1
  <2>1. ErrorInv'
    BY <1>0, <1>1, <1>2 DEF ErrorInv, asked
  <2> QED BY <1>0, <1>1, <1>2, <2>1, MovesInv
<1>3. CASE page # 1 /\ stage = "auth" /\ how = "auth"
  <2>1. ErrorInv' /\ err' \in Errors
    BY <1>0, <1>1, <1>3 DEF ErrorInv, asked, Errors
  <2> QED BY <1>0, <1>1, <1>3, <2>1, MovesInv
<1>4. CASE page # 1 /\ ~(stage = "auth" /\ how = "auth")
  <2> DEFINE last == IF stage = "auth" THEN how ELSE err
  <2>1. last \in {"rate", "auth", "other"} /\ TrySSH(last)
    BY <1>0, <1>1, <1>4 DEF ErrorInv
  <2> HIDE DEF last
  <2>2. CASE login
    <3>1. stage' = "ssh" /\ err' = last /\ page' = 1 /\ UNCHANGED <<asked, got, again, world>>
      BY <2>1, <2>2 DEF TrySSH
    <3>2. ErrorInv' /\ err' \in Errors
      BY <1>0, <2>1, <3>1 DEF ErrorInv, asked, Errors
    <3> QED BY <1>0, <3>1, <3>2, MovesInv
  <2>3. CASE ~login
    <3>1. GiveUp(Wrapped(last)) /\ Wrapped(last) \in Errors \ {"none", "rate"}
      BY <2>1, <2>3 DEF TrySSH, Wrapped, Errors
    <3> QED BY <1>0, <3>1, GiveUpInv
  <2> QED BY <2>2, <2>3
<1> QED BY <1>2, <1>3, <1>4
-----------------------------------------------------------------------------
(***************************************************************************)
(* Waiting, and what others do meanwhile.                                  *)
(***************************************************************************)
LEMMA AgainInv == ASSUME ListInv, WaitForLimit \/ ListAgain PROVE ListInv'
<1>1. CASE WaitForLimit
  <2>1. ListTypeOK' /\ KeptInv' /\ ErrorInv'
    BY <1>1, ListInvFacts DEF WaitForLimit, MayWait, IsRateLimitError, asked, world, ListTypeOK,
                              KeptInv, ErrorInv, Stages
  <2>2. PagingInv' /\ OffInv' /\ ListingIsComplete' /\ ListedOnce'
    BY <1>1 DEF WaitForLimit, PagingInv, OffInv, ListingIsComplete, ListedOnce
  <2> QED BY <2>1, <2>2 DEF ListInv
<1>2. CASE ListAgain
  <2>0. <<>> \in Seq(Repos) /\ Range(held) \in SUBSET Repos
        /\ [made |-> 0, deleted |-> 0] \in [made : 0..MaxChanges, deleted : 0..MaxChanges]
    <3>1. 0 \in 0..MaxChanges
      OBVIOUS
    <3> QED BY <3>1, ListInvFacts, HeldFinite
  <2>1. /\ stage' = FirstStage(lister) /\ page' = 1 /\ got' = <<>> /\ err' = "none"
        /\ before' = Range(held) /\ changed' = [made |-> 0, deleted |-> 0]
        /\ UNCHANGED <<holder, held, lister, login, waits, again>>
    BY <1>2 DEF ListAgain
  <2>2. KeptInv' /\ ErrorInv'
    BY <2>1, ListInvFacts DEF KeptInv, ErrorInv, FirstStage
  <2>3. ListTypeOK'
    BY <2>0, <2>1, ListInvFacts DEF ListTypeOK, Stages, Errors, FirstStage
  <2>4. PagingInv'
    <3>1. CASE lister = "gerrit"
      BY <2>1, <3>1 DEF PagingInv, FirstStage
    <3>2. CASE lister # "gerrit"
      BY <2>1, <2>2, <2>3, <3>2, BeginsInv
    <3> QED BY <3>1, <3>2
  <2>5. OffInv' /\ ListingIsComplete' /\ ListedOnce'
    BY <2>1 DEF FirstStage, OffInv, ListingIsComplete, ListedOnce
  <2> QED BY <2>2, <2>3, <2>4, <2>5 DEF ListInv
<1> QED BY <1>1, <1>2

\* What the changes others make leave alone.
LEMMA ChangedMeanwhile ==
  ASSUME ListInv, Underway, held' \in Seq(Repos), IsInjective(held'),
         changed' \in [made : 0..MaxChanges, deleted : 0..MaxChanges],
         UNCHANGED <<asked, stage, page, got, err, again>>
  PROVE  /\ ListTypeOK' /\ ErrorInv' /\ OffInv' /\ ListingIsComplete' /\ ListedOnce'
         /\ Read' = Read
<1>1. ListTypeOK' /\ ErrorInv'
  BY ListInvFacts DEF asked, ListTypeOK, ErrorInv
<1>2. OffInv' /\ ListingIsComplete' /\ ListedOnce'
  BY DEF asked, Underway, OffInv, ListingIsComplete, ListedOnce
<1>3. Read' = Read
  BY DEF Read
<1> QED BY <1>1, <1>2, <1>3

LEMMA MakesInv == ASSUME ListInv, SomebodyMakes PROVE ListInv'
<1>0. /\ ListTypeOK /\ KeptInv /\ PagingInv /\ held \in Seq(Repos) /\ IsInjective(held)
      /\ Len(held) \in Nat /\ Read \in Nat
      /\ changed \in [made : 0..MaxChanges, deleted : 0..MaxChanges]
  BY ListInvFacts, ReadPages DEF ListInv, ListTypeOK
<1>1. PICK r \in Repos \ (Range(held) \cup before) : held' = <<r>> \o held
  BY DEF SomebodyMakes
<1>2. /\ held' \in Seq(Repos) /\ Len(held') = Len(held) + 1 /\ IsInjective(held')
      /\ \A k \in 1..Len(held) : held'[k + 1] = held[k]
  BY <1>0, <1>1, Made
<1>3. /\ Underway /\ UNCHANGED <<asked, stage, page, got, err, again>>
      /\ changed' = [changed EXCEPT !.made = @ + 1] /\ changed.made + changed.deleted < MaxChanges
  BY DEF SomebodyMakes, Changes
<1>4. /\ changed'.made = changed.made + 1 /\ changed'.deleted = changed.deleted
      /\ changed' \in [made : 0..MaxChanges, deleted : 0..MaxChanges] /\ changed'.made # 0
  <2>1. changed.made \in 0..MaxChanges /\ changed.deleted \in 0..MaxChanges
    BY <1>0
  <2>2. changed' = [made |-> changed.made + 1, deleted |-> changed.deleted]
    BY <1>0, <1>3
  <2>3. changed.made + 1 \in 0..MaxChanges /\ changed.made + 1 # 0
    BY <1>3, <2>1
  <2> QED BY <2>1, <2>2, <2>3
<1>5. /\ ListTypeOK' /\ ErrorInv' /\ OffInv' /\ ListingIsComplete' /\ ListedOnce'
      /\ Read' = Read
  BY <1>2, <1>3, <1>4, ChangedMeanwhile
<1>6. Unread \subseteq Unread'
  <2>1. Unread' = {held'[k] : k \in (Read + 1)..Len(held')}
    BY <1>5 DEF Unread
  <2> SUFFICES ASSUME NEW k \in (Read + 1)..Len(held) PROVE held[k] \in Unread'
    BY DEF Unread
  <2>2. held'[k + 1] = held[k] /\ k + 1 \in (Read + 1)..Len(held')
    BY <1>0, <1>2
  <2> QED BY <2>1, <2>2
<1>7. Range(held) \subseteq Range(held')
  <2>1. Range(held) = {held[k] : k \in 1..Len(held)} /\ Range(held') = {held'[k] : k \in 1..Len(held')}
    BY <1>0, <1>2, RangeEquality
  <2>2. \A k \in 1..Len(held) : k + 1 \in 1..Len(held') /\ held'[k + 1] = held[k]
    BY <1>0, <1>2
  <2> QED BY <2>1, <2>2
<1>8. KeptInv' /\ PagingInv'
  BY <1>0, <1>3, <1>4, <1>5, <1>6, <1>7 DEF KeptInv, PagingInv, asked
<1> QED BY <1>5, <1>8 DEF ListInv

LEMMA DeletesInv == ASSUME ListInv, SomebodyDeletes PROVE ListInv'
<1>0. /\ ListTypeOK /\ KeptInv /\ PagingInv /\ held \in Seq(Repos) /\ IsInjective(held)
      /\ Len(held) \in Nat /\ Read \in Nat
      /\ changed \in [made : 0..MaxChanges, deleted : 0..MaxChanges]
  BY ListInvFacts, ReadPages DEF ListInv, ListTypeOK
<1>1. PICK k \in 1..Len(held) : held' = SubSeq(held, 1, k - 1) \o SubSeq(held, k + 1, Len(held))
  <2>1. DOMAIN held = 1..Len(held)
    BY <1>0
  <2>2. \E k \in DOMAIN held : held' = SubSeq(held, 1, k - 1) \o SubSeq(held, k + 1, Len(held))
    BY Zenon DEF SomebodyDeletes
  <2> QED BY <2>1, <2>2, Zenon
<1>2. /\ held' \in Seq(Repos) /\ Len(held') = Len(held) - 1 /\ IsInjective(held')
      /\ \A i \in 1..Len(held') : held'[i] = IF i < k THEN held[i] ELSE held[i + 1]
  BY <1>0, <1>1, Deleted
<1>3. /\ Underway /\ UNCHANGED <<asked, stage, page, got, err, again>>
      /\ changed' = [changed EXCEPT !.deleted = @ + 1] /\ changed.made + changed.deleted < MaxChanges
  BY DEF SomebodyDeletes, Changes
<1>4. /\ changed'.deleted = changed.deleted + 1 /\ changed'.made = changed.made
      /\ changed' \in [made : 0..MaxChanges, deleted : 0..MaxChanges] /\ changed'.deleted # 0
  <2>1. changed.made \in 0..MaxChanges /\ changed.deleted \in 0..MaxChanges
    BY <1>0
  <2>2. changed' = [made |-> changed.made, deleted |-> changed.deleted + 1]
    BY <1>0, <1>3
  <2>3. changed.deleted + 1 \in 0..MaxChanges /\ changed.deleted + 1 # 0
    BY <1>3, <2>1
  <2> QED BY <2>1, <2>2, <2>3
<1>5. /\ ListTypeOK' /\ ErrorInv' /\ OffInv' /\ ListingIsComplete' /\ ListedOnce'
      /\ Read' = Read
  BY <1>2, <1>3, <1>4, ChangedMeanwhile
<1>6. Unread' \subseteq Unread
  <2>1. Unread' = {held'[i] : i \in (Read + 1)..Len(held')}
    BY <1>5 DEF Unread
  <2> SUFFICES ASSUME NEW i \in (Read + 1)..Len(held') PROVE held'[i] \in Unread
    BY <2>1
  <2>2. i \in 1..Len(held') /\ i \in (Read + 1)..Len(held) /\ i + 1 \in (Read + 1)..Len(held)
    BY <1>0, <1>2
  <2>3. held'[i] = held[i] \/ held'[i] = held[i + 1]
    BY <1>2, <2>2
  <2> QED BY <2>2, <2>3 DEF Unread
<1>7. KeptInv' /\ PagingInv'
  BY <1>0, <1>3, <1>4, <1>5, <1>6 DEF KeptInv, PagingInv, asked
<1> QED BY <1>5, <1>7 DEF ListInv
-----------------------------------------------------------------------------
(***************************************************************************)
(* Every step of a listing.                                                *)
(***************************************************************************)
LEMMA InitListing == ListInit => ListInv
<1> SUFFICES ASSUME ListInit PROVE ListInv
  OBVIOUS
<1>1. <<>> \in Seq(Repos) /\ IsInjective(<<>>) /\ 0 \in 0..MaxChanges
  BY DEF IsInjective
<1>2. ListTypeOK
  <2>1. held \in Seq(Repos) /\ IsInjective(held) /\ got \in Seq(Repos)
    BY <1>1 DEF ListInit
  <2>2. changed \in [made : 0..MaxChanges, deleted : 0..MaxChanges]
    BY <1>1 DEF ListInit
  <2>3. /\ holder \in {"org", "user", "nobody"} /\ stage \in Stages /\ lister = "none"
        /\ login \in BOOLEAN /\ waits \in BOOLEAN /\ again \in BOOLEAN
        /\ page = 1 /\ err \in Errors /\ before \subseteq Repos /\ stage = "off"
    BY DEF ListInit, Stages, Errors
  <2> QED BY <2>1, <2>2, <2>3 DEF ListTypeOK
<1> QED BY <1>2 DEF ListInit, ListInv, PagingInv, KeptInv, ErrorInv, OffInv, ListingIsComplete,
                    ListedOnce

LEMMA BeginInv ==
  ASSUME ListInv, NEW provider \in {"none", "github", "gitlab", "gerrit"}, NEW l \in BOOLEAN,
         NEW w \in BOOLEAN, BeginListing(provider, l, w)
  PROVE  ListInv'
<1>0. /\ stage = "off" /\ page = 1 /\ got = <<>> /\ err = "none" /\ ~again
      /\ changed = [made |-> 0, deleted |-> 0] /\ again \in BOOLEAN
  BY DEF BeginListing, ListInv, OffInv, ListTypeOK
<1>1. held' \in Seq(Repos) /\ IsInjective(held')
  BY DEF BeginListing
<1>2. before' = Range(held') /\ before' \subseteq Repos
  BY <1>1, RangeOfSeq DEF BeginListing
<1>3. /\ stage' = FirstStage(provider) /\ lister' = provider /\ login' = l /\ waits' = w
      /\ UNCHANGED <<page, got, err, again, changed>> /\ holder' \in {"org", "user", "nobody"}
  BY DEF BeginListing
<1>4. ListTypeOK'
  <2>1. <<>> \in Seq(Repos) /\ 0 \in 0..MaxChanges
    OBVIOUS
  <2> QED BY <1>0, <1>1, <1>2, <1>3, <2>1 DEF ListTypeOK, Stages, Errors, FirstStage
<1>5. KeptInv' /\ ErrorInv' /\ OffInv' /\ ListingIsComplete' /\ ListedOnce'
  BY <1>0, <1>2, <1>3 DEF KeptInv, ErrorInv, OffInv, ListingIsComplete, ListedOnce, FirstStage
<1>6. PagingInv'
  <2>1. CASE provider = "gerrit"
    BY <1>3, <2>1 DEF PagingInv, FirstStage
  <2>2. CASE provider # "gerrit"
    BY <1>0, <1>3, <1>4, <1>5, <2>2, BeginsInv
  <2> QED BY <2>1, <2>2
<1> QED BY <1>4, <1>5, <1>6 DEF ListInv

LEMMA StepListing == ASSUME ListInv, ListingNext PROVE ListInv'
<1>0. /\ ErrorInv /\ err \in Errors /\ lister \in {"none", "github", "gitlab", "gerrit"}
      /\ stage \in {"auth", "anonymous", "ssh"} => lister = "gerrit"
  BY ListInvFacts DEF ListTypeOK
<1>1. CASE PageArrives
  BY <1>1, PageArrivesInv
<1>2. CASE NoSuchOrg
  BY <1>2, AsUserInv DEF NoSuchOrg
<1>3. CASE GitHubFails
  <2>1. PICK how \in {"rate", "other"} : GiveUp(how) /\ lister = "github"
    BY <1>3 DEF GitHubFails, HandleRateLimit
  <2> QED BY <2>1, GiveUpInv DEF Errors
<1>4. CASE GroupFails
  <2>1. PICK how \in {"rate", "other"} : TryAsUser(how)
    BY <1>4 DEF GroupFails
  <2> QED BY <1>4, <2>1, AsUserInv DEF GroupFails
<1>5. CASE UserFails \/ SSHFails
  <2>1. /\ GiveUp(Wrapped(err)) /\ Wrapped(err) \in Errors \ {"none", "rate"}
        /\ lister \in {"gitlab", "gerrit"}
    BY <1>0, <1>5 DEF UserFails, SSHFails, Wrapped, ErrorInv, Errors
  <2> QED BY <2>1, GiveUpInv
<1>6. CASE EndpointAnswers
  <2> DEFINE projects == IF stage = "auth" THEN Range(held) ELSE Range(held) \cap Public
  <2>1. /\ projects \in SUBSET Range(held) /\ Listed(projects, err) /\ lister = "gerrit"
        /\ err \in {"none", "auth"}
        /\ projects = (IF err = "auth" THEN Range(held) \cap Public ELSE Range(held))
    BY <1>0, <1>6 DEF EndpointAnswers, ErrorInv
  <2> HIDE DEF projects
  <2> QED BY <2>1, ListedInv
<1>7. CASE SSHLists
  BY <1>0, <1>7, ListedInv DEF SSHLists
<1>8. CASE EndpointFails
  BY <1>8, EndpointFailsInv
<1>9. CASE LimiterFails \/ WaitIsCancelled
  BY <1>9, GiveUpInv DEF LimiterFails, WaitIsCancelled, Errors
<1>10. CASE WaitForLimit \/ ListAgain
  BY <1>10, AgainInv
<1>11. CASE SomebodyMakes \/ SomebodyDeletes
  BY <1>11, MakesInv, DeletesInv
<1> QED BY <1>1, <1>2, <1>3, <1>4, <1>5, <1>6, <1>7, <1>8, <1>9, <1>10, <1>11
        DEF ListingNext, ListingStep
===============================================================================
