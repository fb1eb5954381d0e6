---------------------------- MODULE PorterProofs ----------------------------
(***************************************************************************)
(* Proofs about Porter, for any number of porters, keys, pages of SCAN,    *)
(* logins, failures and deaths: its types, that no event leaves Redis      *)
(* untried and none is saved more often than porters and failures account  *)
(* for, and that a login date is lost only in the ways Porter names.       *)
(***************************************************************************)
EXTENDS Porter, FiniteSetTheorems, TLAPS

(* The keys of a permutation of a set: a sequence, each once, all of them.   *)
LEMMA PermutationProps ==
  ASSUME NEW S, IsFiniteSet(S), NEW s \in SetToSeqs(S)
  PROVE  /\ s \in Seq(S) /\ Len(s) = Cardinality(S)
         /\ \A j, l \in 1..Len(s) : s[j] = s[l] => j = l
         /\ \A x \in S : \E j \in 1..Len(s) : s[j] = x
<1> DEFINE D == 1..Cardinality(S)
<1>1. Cardinality(S) \in Nat
  BY FS_CardinalityType
<1>2. s \in [D -> S] /\ \A j, l \in D : j # l => s[j] # s[l]
  BY DEF SetToSeqs
<1>3. s \in Seq(S) /\ Len(s) = Cardinality(S)
  BY <1>1, <1>2
<1>4. s \in Injection(D, S)
  BY <1>2 DEF Injection, IsInjective
<1>5. Cardinality(D) = Cardinality(S)
  BY <1>1, FS_Interval
<1>6. s \in Surjection(D, S)
  BY <1>4, <1>5, FS_Injection
<1>7. \A x \in S : \E j \in D : s[j] = x
  BY <1>6 DEF Surjection
<1> QED BY <1>2, <1>3, <1>7

(* A reply of SCAN: some of the keys, each once.                             *)
LEMMA ReplyProps ==
  ASSUME NEW S, IsFiniteSet(S), NEW s \in SetToAllKPermutations(S)
  PROVE  s \in Seq(S) /\ \A j, l \in 1..Len(s) : s[j] = s[l] => j = l
<1>1. PICK T \in SUBSET S : s \in SetToSeqs(T)
  BY DEF SetToAllKPermutations
<1>2. IsFiniteSet(T)
  BY FS_Subset
<1>3. s \in Seq(T) /\ \A j, l \in 1..Len(s) : s[j] = s[l] => j = l
  BY <1>1, <1>2, PermutationProps
<1> QED BY <1>3

(* A set of indices has a largest one.                                       *)
LEMMA MaxProps ==
  ASSUME NEW n \in Nat, NEW S \in SUBSET (1..n), S # {}
  PROVE  Max(S) \in S /\ \A x \in S : Max(S) >= x
<1> DEFINE Above(k) == {x \in S : x >= k}
           T == {Above(k) : k \in S}
<1>0. IsFiniteSet(1..n)
  BY FS_Interval
<1>1. IsFiniteSet(S) /\ \A U \in SUBSET S : IsFiniteSet(U)
  BY <1>0, FS_Subset
<1>2. T \subseteq FiniteSubsetsOf(S) /\ T # {}
  <2>1. \A k \in S : Above(k) \in SUBSET S
    OBVIOUS
  <2> QED BY <1>1, <2>1 DEF FiniteSubsetsOf
<1>3. IsWellFoundedOn(StrictSubsetOrdering(S), FiniteSubsetsOf(S))
  BY FS_StrictSubsetOrderingWellFounded
<1>4. PICK U \in T : \A V \in T : ~ (<<V, U>> \in StrictSubsetOrdering(S))
  BY <1>2, <1>3, WFMin
<1>5. PICK m \in S : U = Above(m)
  OBVIOUS
<1>6. ASSUME NEW x \in S PROVE m >= x
  <2> SUFFICES ASSUME x > m PROVE FALSE
    OBVIOUS
  <2>1. Above(x) \subseteq U /\ Above(x) # U
    <3>1. m \in U /\ m \notin Above(x)
      BY <1>5
    <3>2. \A y \in S : y >= x => y >= m
      OBVIOUS
    <3> QED BY <1>5, <3>1, <3>2
  <2>2. Above(x) \in T
    OBVIOUS
  <2>3. <<Above(x), U>> \in StrictSubsetOrdering(S)
    BY <2>1, <1>5 DEF StrictSubsetOrdering
  <2> QED BY <1>4, <2>2, <2>3
<1> QED BY <1>6 DEF Max

(* Some of the keys of a page, in its order.                                 *)
Follows(s, keys) ==
    /\ \A j, l \in 1..Len(s) : s[j] = s[l] => j = l
    /\ \A j \in 1..Len(s) : \E a \in 1..Len(keys) : keys[a] = s[j]
    /\ \A j, l \in 1..Len(s), a, b \in 1..Len(keys) :
           s[j] = keys[a] /\ s[l] = keys[b] /\ j < l => a < b

(* What keeps the order of a page is not ahead of it.                        *)
LEMMA OrderKept ==
  ASSUME NEW K, NEW keys \in Seq(K), NEW s \in Seq(K), Follows(s, keys)
  PROVE  \A j \in 1..Len(s) : \E a \in 1..Len(keys) : keys[a] = s[j] /\ j <= a
<1> SUFFICES ASSUME NEW j \in 1..Len(s)
             PROVE  \E a \in 1..Len(keys) : keys[a] = s[j] /\ j <= a
  OBVIOUS
<1> DEFINE place(l) == CHOOSE b \in 1..Len(keys) : keys[b] = s[l]
           at == [l \in 1..j |-> place(l)]
<1>0. Len(s) \in Nat /\ Len(keys) \in Nat /\ j \in Nat /\ j \in 1..j /\ 1..j \subseteq 1..Len(s)
  OBVIOUS
<1>1. \A l, k \in 1..j : s[l] = s[k] => l = k
  BY <1>0 DEF Follows
<1>2. \A l \in 1..j : at[l] \in 1..Len(keys) /\ keys[at[l]] = s[l]
  <2> SUFFICES ASSUME NEW l \in 1..j PROVE place(l) \in 1..Len(keys) /\ keys[place(l)] = s[l]
    OBVIOUS
  <2>1. \E b \in 1..Len(keys) : keys[b] = s[l]
    BY <1>0 DEF Follows
  <2> QED BY <2>1
<1> HIDE DEF place, at
<1>3. ASSUME NEW l \in 1..j PROVE at[l] \in 1..at[j]
  <2>1. at[l] \in Nat /\ 1 <= at[l] /\ at[j] \in Nat
    BY <1>0, <1>2
  <2>2. CASE l = j
    BY <2>1, <2>2
  <2>3. CASE l < j
    <3>1. l \in 1..Len(s) /\ j \in 1..Len(s)
      BY <1>0
    <3>2. at[l] \in 1..Len(keys) /\ at[j] \in 1..Len(keys)
      BY <1>0, <1>2
    <3>3. s[l] = keys[at[l]] /\ s[j] = keys[at[j]]
      BY <1>0, <1>2
    <3>4. at[l] < at[j]
      BY <2>3, <3>1, <3>2, <3>3 DEF Follows
    <3> QED BY <2>1, <3>4
  <2> QED BY <1>0, <2>2, <2>3
<1>4. at \in [1..j -> 1..at[j]]
  BY <1>3 DEF at
<1>5. at \in Injection(1..j, 1..at[j])
  <2>1. ASSUME NEW l \in 1..j, NEW k \in 1..j, at[l] = at[k] PROVE l = k
    <3>1. s[l] = s[k]
      BY <1>2, <2>1
    <3> QED BY <1>1, <3>1
  <2> QED BY <1>4, <2>1 DEF Injection, IsInjective
<1>6. at[j] \in Nat
  BY <1>0, <1>2
<1>7. Cardinality(1..j) = j
  BY <1>0, FS_Interval
<1>8. Cardinality(1..at[j]) = at[j] /\ IsFiniteSet(1..at[j])
  <2>1. \A m \in Nat : Cardinality(1..m) = m /\ IsFiniteSet(1..m)
    BY FS_Interval
  <2> QED BY <1>6, <2>1
<1>9. j <= at[j]
  BY <1>5, <1>7, <1>8, FS_Injection
<1> QED BY <1>0, <1>2, <1>9

-----------------------------------------------------------------------------
Saving == {"player", "podcast"}

(* Which command is where.                                                 *)
PlaceOK(p) ==
    /\ pc[p] = "idle" <=> stream[p] = "none"
    /\ stream[p] = "login" => pc[p] \in {"scan", "read", "save", "deleteOne"}
    /\ stream[p] = "phone" => pc[p] \in {"scan", "read", "wait"}
    /\ stream[p] \in Saving => pc[p] # "wait"
    /\ pc[p] \in {"scan", "read"} => i[p] = 1 /\ entries[p] = <<>>
    /\ pc[p] = "save" => i[p] = 1 \/ stream[p] = "login"
    /\ scan[p].more \/ pc[p] = "scan" => scan[p].pages < MaxPages

(* A page has keys of its command, each once, that were written.           *)
PageOK(p) ==
    /\ page[p] \in Seq(KeysOf[stream[p]])
    /\ \A a, b \in 1..Len(page[p]) : page[p][a] = page[p][b] => a = b
    /\ \A a \in 1..Len(page[p]) : page[p][a] \in Events => page[p][a] \in arrived
    /\ pc[p] = "read" => i[p] \in 1..Len(page[p])
    /\ stream[p] = "login" /\ pc[p] \in {"save", "deleteOne"} => i[p] \in 1..Len(page[p])

(* The entries are keys of the page, each once; in the player command the  *)
(* j-th log is that of the j-th key or of a later one, and a key without a *)
(* log needs none.  The podcast command has deleted the entries before i.  *)
EntriesOK(p) ==
    /\ entries[p] \in Seq(KeysOf[stream[p]])
    /\ \A j, l \in 1..Len(entries[p]) : entries[p][j] = entries[p][l] => j = l
    /\ \A j \in 1..Len(entries[p]) : \E a \in 1..Len(page[p]) :
           page[p][a] = entries[p][j] /\ (stream[p] = "player" => j <= a)
    /\ stream[p] \in Saving /\ pc[p] \in {"save", "fallback", "deleteOne"} =>
           i[p] \in 1..Len(entries[p])
    /\ stream[p] = "podcast" /\ pc[p] = "delete" => i[p] = 1 /\ i[p] \in 1..Len(entries[p])
    /\ stream[p] = "player" /\ pc[p] \in {"save", "fallback", "deleteOne", "delete"} =>
           \A a \in 1..Len(page[p]) :
               \/ \E j \in 1..Len(entries[p]) : page[p][a] = entries[p][j]
               \/ page[p][a] \in Unknown \/ cache[page[p][a]] = 0
    /\ stream[p] = "podcast" /\ pc[p] \in {"fallback", "deleteOne"} =>
           \A j \in 1..(i[p] - 1) : cache[entries[p][j]] = 0

Tried(e) == copies[e] > 0 \/ e \in refused

(* How many of its entries a porter has tried to save.                     *)
TriedOK(p) ==
    stream[p] \in Saving =>
        /\ pc[p] = "delete" => \A j \in 1..Len(entries[p]) : Tried(entries[p][j])
        /\ pc[p] = "fallback" => \A j \in 1..(i[p] - 1) : Tried(entries[p][j])
        /\ pc[p] = "deleteOne" => \A j \in 1..i[p] : Tried(entries[p][j])

CallOK(p, e) ==
    /\ calls[p][e] # "none" => e \in arrived
    /\ calls[p][e] \in {"aborted", "rollingBack"} => e \in refused
    /\ calls[p][e] \in {"committing", "rollingBack"} => cache[e] = 0

PlacesInv ==
    /\ \A p \in Porters : PlaceOK(p) /\ PageOK(p) /\ EntriesOK(p) /\ TriedOK(p)
    /\ \A p \in Porters, e \in PhoneEvents : CallOK(p, e)
    /\ \A e \in Events : cache[e] # 0 => e \in arrived

NothingDropped ==
    \A e \in arrived : cache[e] = 0 =>
        \/ Tried(e) \/ e \in Unknown
        \/ e \in PhoneEvents /\ (failures > 0 \/ \E p \in Porters : calls[p][e] = "committing")

(* The porters that may still save e of what they read, and those that     *)
(* have tried to and not yet gone on from its page.                        *)
ToSave(p, e) ==
    /\ stream[p] \in Saving
    /\ \E j \in 1..Len(entries[p]) :
        /\ entries[p][j] = e
        /\ \/ pc[p] = "save"
           \/ pc[p] = "fallback" /\ i[p] <= j
           \/ pc[p] = "deleteOne" /\ i[p] < j
Saved(p, e) ==
    /\ stream[p] \in Saving
    /\ \E j \in 1..Len(entries[p]) :
        /\ entries[p][j] = e
        /\ \/ pc[p] = "delete"
           \/ pc[p] = "fallback" /\ j < i[p]
           \/ pc[p] = "deleteOne" /\ j <= i[p]

Pending(e) == {p \in Porters : ToSave(p, e)}
Spent(e) == {p \in Porters : Saved(p, e)}
Active(e) == {p \in Porters : calls[p][e] \in {"open", "written", "committing"}}

(* A porter may still save e once; a copy of an event whose key is there   *)
(* is accounted for by a porter that will delete it, or by a failure.      *)
Counts(e) ==
    /\ copies[e] + Cardinality(Pending(e)) <= Cardinality(Porters) + failures
    /\ cache[e] # 0 => copies[e] <= Cardinality(Spent(e)) + failures
    /\ copies[e] > 0 => e \in arrived

PhoneCounts(e) ==
    /\ copies[e] + Cardinality(Active(e)) <= Cardinality(Porters)
    /\ cache[e] # 0 => copies[e] = 0
    /\ copies[e] > 0 => e \in arrived

CountsInv ==
    /\ \A e \in PlayerEvents \cup PodcastEvents : Counts(e)
    /\ \A e \in PhoneEvents : PhoneCounts(e)

(* A porter that has read the date of m and not yet deleted its key.       *)
Holding(p, m) ==
    /\ stream[p] = "login" /\ pc[p] \in {"save", "deleteOne"}
    /\ \E j \in i[p]..Len(page[p]) : page[p][j] = m

(* Of a member nobody missed: the date is stored before the key is deleted, *)
(* and who holds a date holds that of the last login.                       *)
DateOK(m) ==
    /\ cache[m] \in {0, lastLogin[m]}
    /\ m \notin missed =>
        /\ cache[m] = 0 => loginedAt[m] = lastLogin[m]
        /\ \A p \in Porters : Holding(p, m) =>
            /\ logins[p][m] = lastLogin[m]
            /\ pc[p] = "deleteOne" /\ page[p][i[p]] = m => loginedAt[m] = lastLogin[m]

DatesInv == \A m \in Members : DateOK(m)

-----------------------------------------------------------------------------
(* Types and places.                                                         *)

Streams == {"login", "player", "phone", "podcast", "none"}
Scans == [more : BOOLEAN, pages : 0..MaxPages, todo : SUBSET Keys]
CallStates == {"none", "open", "written", "aborted", "committing", "rollingBack"}

LocalTypes ==
    /\ pc \in [Porters -> PCs]
    /\ stream \in [Porters -> Streams]
    /\ scan \in [Porters -> Scans]
    /\ page \in [Porters -> Seq(Keys)]
    /\ entries \in [Porters -> Seq(Keys)]
    /\ logins \in [Porters -> [Members -> 0..MaxLogins]]
    /\ i \in [Porters -> Nat]

SharedTypes ==
    /\ busy \in Busy
    /\ cache \in [Keys -> 0..MaxLogins]
    /\ loginedAt \in [Members -> 0..MaxLogins]
    /\ copies \in [Events -> Nat]
    /\ progress \in [Records -> Times \cup {0}]
    /\ calls \in [Porters -> [PhoneEvents -> CallStates]]
    /\ arrived \in SUBSET Events
    /\ lastLogin \in [Members -> 0..MaxLogins]
    /\ refused \in SUBSET Events
    /\ missed \in SUBSET Members
    /\ failures \in 0..MaxFailures

PorterOK(p) == PlaceOK(p) /\ PageOK(p) /\ EntriesOK(p) /\ TriedOK(p)

PortInv == LocalTypes /\ SharedTypes /\ PlacesInv

(* What never shrinks.                                                       *)
Grows ==
    /\ arrived \subseteq arrived' /\ refused \subseteq refused' /\ failures <= failures'
    /\ \A e \in Events : copies[e] <= copies'[e]
    /\ \A e \in arrived : cache[e] = 0 => cache'[e] = 0

SameLocals(q) ==
    /\ pc'[q] = pc[q] /\ stream'[q] = stream[q] /\ scan'[q] = scan[q] /\ page'[q] = page[q]
    /\ entries'[q] = entries[q] /\ logins'[q] = logins[q] /\ i'[q] = i[q]

Alone(p) == \A q \in Porters \ {p} : SameLocals(q)

(* A porter leaves a page: nothing of it stays.                              *)
Left(p) ==
    /\ \E s \in Streams, sc \in Scans :
        /\ stream' = [stream EXCEPT ![p] = s]
        /\ pc' = [pc EXCEPT ![p] = IF s = "none" THEN "idle" ELSE "scan"]
        /\ scan' = [scan EXCEPT ![p] = sc] /\ sc.pages < MaxPages
    /\ page' = [page EXCEPT ![p] = <<>>]
    /\ entries' = [entries EXCEPT ![p] = <<>>]
    /\ logins' = [logins EXCEPT ![p] = NoLogins]
    /\ i' = [i EXCEPT ![p] = 1]

LEMMA StreamsAre ==
  /\ DOMAIN KeysOf = Streams /\ \A s \in Streams : KeysOf[s] \subseteq Keys
  /\ KeysOf["login"] = Members /\ KeysOf["player"] = PlayerEvents
  /\ KeysOf["phone"] = PhoneEvents /\ KeysOf["podcast"] = PodcastEvents
  /\ \A s \in Streams \ {"none"} : After[s] \in Streams
BY DEF KeysOf, After, Streams, Keys, Events

LEMMA TypesAre == TypeOK <=> LocalTypes /\ SharedTypes
BY StreamsAre DEF TypeOK, LocalTypes, SharedTypes, Streams, Scans, CallStates

LEMMA EnterLeaves ==
  ASSUME NEW p \in Porters, NEW s \in Streams, Enter(p, s)
  PROVE  Left(p)
<1>1. NoScan \in Scans /\ NoScan.pages < MaxPages
  BY PorterAssumption DEF NoScan, Scans
<1> QED BY <1>1 DEF Enter, Left

LEMMA NextLeaves ==
  ASSUME NEW p \in Porters, LocalTypes, PlaceOK(p), pc[p] # "idle", NextCommand(p)
  PROVE  Left(p)
<1>1. After[stream[p]] \in Streams
  BY StreamsAre DEF LocalTypes, PlaceOK
<1> QED BY <1>1, EnterLeaves DEF NextCommand

LEMMA EndLeaves ==
  ASSUME NEW p \in Porters, LocalTypes, PlaceOK(p), pc[p] # "idle",
         NEW sc \in Scans, sc.more => sc.pages < MaxPages, EndOfPage(p, sc)
  PROVE  Left(p)
<1>1. CASE ~ sc.more
  BY <1>1, NextLeaves DEF EndOfPage
<1>2. CASE sc.more
  <2>1. stream[p] \in Streams /\ stream[p] # "none"
    BY DEF LocalTypes, PlaceOK
  <2>2. stream' = [stream EXCEPT ![p] = stream[p]]
    BY <1>2 DEF EndOfPage, LocalTypes
  <2> QED BY <1>2, <2>1, <2>2 DEF EndOfPage, Left
<1> QED BY <1>1, <1>2

LEMMA LeftTyped ==
  ASSUME NEW p \in Porters, LocalTypes, Left(p)
  PROVE  LocalTypes' /\ Alone(p) /\ PorterOK(p)'
<1>1. PICK s \in Streams, sc \in Scans :
        /\ stream' = [stream EXCEPT ![p] = s]
        /\ pc' = [pc EXCEPT ![p] = IF s = "none" THEN "idle" ELSE "scan"]
        /\ scan' = [scan EXCEPT ![p] = sc] /\ sc.pages < MaxPages
  BY DEF Left
<1>2. LocalTypes'
  <2>1. /\ NoLogins \in [Members -> 0..MaxLogins] /\ << >> \in Seq(Keys)
        /\ "idle" \in PCs /\ "scan" \in PCs
    BY PorterAssumption DEF NoLogins, PCs
  <2> QED BY <1>1, <2>1 DEF LocalTypes, Left
<1>3. Alone(p)
  BY <1>1 DEF Alone, SameLocals, LocalTypes, Left
<1>4. /\ page'[p] = <<>> /\ entries'[p] = <<>> /\ i'[p] = 1 /\ stream'[p] = s
      /\ pc'[p] = (IF s = "none" THEN "idle" ELSE "scan") /\ scan'[p] = sc
  BY <1>1 DEF LocalTypes, Left
<1>5. PlaceOK(p)'
  BY <1>1, <1>4 DEF PlaceOK, Saving, Streams
<1>6. PageOK(p)' /\ EntriesOK(p)' /\ TriedOK(p)'
  BY <1>4 DEF PageOK, EntriesOK, TriedOK
<1> QED BY <1>2, <1>3, <1>5, <1>6 DEF PorterOK

(* A porter that does not move stays where it is.                            *)
LEMMA StaysOK ==
  ASSUME NEW q \in Porters, PorterOK(q), SameLocals(q), Grows, LocalTypes, SharedTypes, SharedTypes'
  PROVE  PorterOK(q)'
<1> USE DEF SameLocals, Grows
<1>1. PlaceOK(q)'
  BY DEF PorterOK, PlaceOK
<1>2. PageOK(q)'
  BY DEF PorterOK, PageOK
<1>3. \A e \in Events : Tried(e) => Tried(e)'
  BY DEF Tried, SharedTypes
<1>4. /\ \A a \in 1..Len(page[q]) : page[q][a] \in Keys
      /\ \A j \in 1..Len(entries[q]) : entries[q][j] \in Keys
  BY DEF LocalTypes
<1>5. stream[q] \in Saving =>
        \A a \in 1..Len(page[q]) : page[q][a] \in Events /\ page[q][a] \in arrived
  BY StreamsAre DEF PorterOK, PageOK, Saving, Events
<1>6. stream[q] \in Saving =>
        \A j \in 1..Len(entries[q]) : entries[q][j] \in Events /\ entries[q][j] \in arrived
  BY <1>5 DEF PorterOK, EntriesOK
<1>7. EntriesOK(q)'
  <2>1. stream[q] = "podcast" /\ pc[q] \in {"fallback", "deleteOne"} =>
          \A j \in 1..(i[q] - 1) : j \in 1..Len(entries[q])
    BY DEF PorterOK, EntriesOK, Saving, LocalTypes
  <2>2. stream[q] = "podcast" /\ pc[q] \in {"fallback", "deleteOne"} =>
          \A j \in 1..(i[q] - 1) : cache'[entries[q][j]] = 0
    BY <1>6, <2>1 DEF PorterOK, EntriesOK, Saving
  <2>3. stream[q] = "player" /\ pc[q] \in {"save", "fallback", "deleteOne", "delete"} =>
          \A a \in 1..Len(page[q]) :
               \/ \E j \in 1..Len(entries[q]) : page[q][a] = entries[q][j]
               \/ page[q][a] \in Unknown \/ cache'[page[q][a]] = 0
    BY <1>5 DEF PorterOK, EntriesOK, Saving
  <2> QED BY <2>2, <2>3 DEF PorterOK, EntriesOK
<1>8. TriedOK(q)'
  <2>1. stream[q] \in Saving /\ pc[q] \in {"fallback", "deleteOne"} =>
          \A j \in 1..i[q] : j \in 1..Len(entries[q])
    BY DEF PorterOK, EntriesOK, LocalTypes
  <2>2. stream[q] \in Saving /\ pc[q] \in {"fallback", "deleteOne"} =>
          \A j \in 1..(i[q] - 1) : j \in 1..i[q]
    BY DEF LocalTypes
  <2> QED BY <1>3, <1>6, <2>1, <2>2 DEF PorterOK, TriedOK
<1> QED BY <1>1, <1>2, <1>7, <1>8 DEF PorterOK

LEMMA AdvanceTyped ==
  ASSUME SharedTypes, NEW es \in Seq(Keys), Advance(es)
  PROVE  progress' \in [Records -> Times \cup {0}]
<1> DEFINE Of(r) == {j \in DOMAIN es : es[j] \in PodcastEvents /\ es[j][1] = r}
<1>1. ASSUME NEW r \in Records, Of(r) # {} PROVE es[Max(Of(r))][2] \in Times
  <2>1. Of(r) \in SUBSET (1..Len(es)) /\ Len(es) \in Nat
    OBVIOUS
  <2>2. Max(Of(r)) \in Of(r)
    BY <1>1, <2>1, MaxProps
  <2> QED BY <2>2 DEF Times
<1>2. progress' = [r \in Records |-> IF Of(r) = {} THEN progress[r] ELSE es[Max(Of(r))][2]]
  BY DEF Advance
<1> HIDE DEF Of
<1> QED BY <1>1, <1>2 DEF SharedTypes

LEMMA AddTyped ==
  ASSUME SharedTypes, NEW es, AddCopies(es)
  PROVE  /\ copies' \in [Events -> Nat]
         /\ \A e \in Events : /\ copies[e] <= copies'[e]
                              /\ copies'[e] = IF e \in es THEN copies[e] + 1 ELSE copies[e]
BY DEF SharedTypes, AddCopies

(* Every step keeps the types of what is shared, and nothing shrinks.        *)
SharedGood == SharedTypes' /\ Grows

LEMMA LoginShared ==
  ASSUME PortInv, NEW p \in Porters,
         \/ ReadLogins(p) \/ UpdateLogin(p) \/ UpdateLoginFails(p)
         \/ stream[p] = "login" /\ DeleteLogin(p)
  PROVE  SharedGood
<1> USE PorterAssumption, KeysAssumption
    DEF PortInv, SharedGood, SharedTypes, Grows, redisVars, dbVars, localVars, historyVars
<1>0. stream[p] = "login"
  BY DEF ReadLogins, UpdateLogin, UpdateLoginFails
<1>1. /\ page[p] \in Seq(Members)
      /\ pc[p] \in {"save", "deleteOne"} => i[p] \in 1..Len(page[p])
  BY <1>0, StreamsAre DEF PlacesInv, PageOK, LocalTypes
<1>6. pc[p] \in {"save", "deleteOne"} => page[p][i[p]] \in Members
  BY ONLY <1>1
<1>2. CASE ReadLogins(p)
  <2>1. {m \in ToSet(page[p]) : cache[m] = 0} \subseteq Members
    BY ONLY <1>1 DEF ToSet
  <2> QED BY <1>2, <2>1 DEF ReadLogins
<1>3. CASE UpdateLogin(p)
  <2>1. page[p][i[p]] \in Members /\ logins[p] \in [Members -> 0..MaxLogins]
    BY <1>3, <1>6 DEF UpdateLogin, LocalTypes
  <2> QED BY <1>3, <2>1 DEF UpdateLogin, LoginAt
<1>4. CASE UpdateLoginFails(p)
  BY <1>4, <1>6 DEF UpdateLoginFails, Failure
<1>5. CASE stream[p] = "login" /\ DeleteLogin(p)
  <2>1. page[p][i[p]] \in Members
    BY <1>5, <1>6 DEF DeleteLogin
  <2>2. cache' = [cache EXCEPT ![page[p][i[p]]] = 0] /\ 0 \in 0..MaxLogins
    BY <1>5 DEF DeleteLogin
  <2>3. \A e \in Events : cache'[e] = cache[e]
    BY <2>1, <2>2 DEF Keys
  <2>4. cache' \in [Keys -> 0..MaxLogins]
    BY <2>2
  <2> QED BY <1>5, <2>3, <2>4 DEF DeleteLogin
<1> QED BY <1>2, <1>3, <1>4, <1>5

LEMMA EventsShared ==
  ASSUME PortInv, NEW p \in Porters, PortEvents(p)
  PROVE  SharedGood
<1> USE PorterAssumption, KeysAssumption
    DEF PortInv, SharedGood, SharedTypes, Grows, redisVars, dbVars, localVars, historyVars
<1>0. /\ entries[p] \in Seq(Keys) /\ page[p] \in Seq(Keys)
      /\ stream[p] \in Saving
  BY DEF LocalTypes, PortEvents, Saving
<1>1. /\ \A j \in 1..Len(entries[p]) : entries[p][j] \in Events
      /\ pc[p] \in {"save", "fallback", "deleteOne"} => i[p] \in 1..Len(entries[p])
  <2>1. KeysOf[stream[p]] \subseteq Events
    BY <1>0, StreamsAre DEF Saving, Events
  <2>2. entries[p] \in Seq(Events)
    BY <2>1 DEF PlacesInv, EntriesOK
  <2>3. pc[p] \in {"save", "fallback", "deleteOne"} => i[p] \in 1..Len(entries[p])
    BY <1>0 DEF PlacesInv, EntriesOK
  <2> QED BY <2>2, <2>3
<1>2. CASE SaveBatch(p)
  <2>1. progress' \in [Records -> Times \cup {0}]
    BY <1>0, <1>2, AdvanceTyped DEF SaveBatch
  <2>2. copies' \in [Events -> Nat] /\ \A e \in Events : copies[e] <= copies'[e]
    BY <1>2, AddTyped DEF SaveBatch
  <2> QED BY <1>2, <2>1, <2>2 DEF SaveBatch
<1>3. CASE SaveBatchFails(p)
  <2>2. copies' \in [Events -> Nat] /\ \A e \in Events : copies[e] <= copies'[e]
    BY <1>3, AddTyped DEF SaveBatchFails
  <2>3. failures' \in 0..MaxFailures /\ failures <= failures'
    BY <1>3 DEF SaveBatchFails, Failure
  <2> QED BY <1>3, <2>2, <2>3 DEF SaveBatchFails
<1>4. CASE SaveOne(p)
  <2>0. <<entries[p][i[p]]>> \in Seq(Keys)
    BY <1>1, <1>4 DEF SaveOne, Keys
  <2>1. progress' \in [Records -> Times \cup {0}]
    BY <2>0, <1>4, AdvanceTyped DEF SaveOne
  <2>2. copies' \in [Events -> Nat] /\ \A e \in Events : copies[e] <= copies'[e]
    BY <1>4, AddTyped DEF SaveOne
  <2> QED BY <1>4, <2>1, <2>2 DEF SaveOne
<1>5. CASE SaveOneFails(p)
  <2>1. failures' \in 0..MaxFailures /\ failures <= failures'
    BY <1>5 DEF SaveOneFails, Failure
  <2>2. refused' \in SUBSET Events
    BY <1>1, <1>5 DEF SaveOneFails
  <2> QED BY <1>5, <2>1, <2>2 DEF SaveOneFails
<1>6. CASE DeleteOne(p)
  <2>0. cache' = [cache EXCEPT ![FallbackKey(p)] = 0] /\ 0 \in 0..MaxLogins
    BY <1>6 DEF DeleteOne
  <2>1. cache' \in [Keys -> 0..MaxLogins] /\ \A e \in Events : cache[e] = 0 => cache'[e] = 0
    BY <2>0 DEF Keys
  <2> QED BY <1>6, <2>1 DEF DeleteOne
<1>7. CASE DeleteBatch(p)
  <2>1. cache' \in [Keys -> 0..MaxLogins] /\ \A e \in Events : cache[e] = 0 => cache'[e] = 0
    BY <1>7 DEF DeleteBatch, Keys
  <2> QED BY <1>7, <2>1 DEF DeleteBatch
<1>8. CASE DeleteBatchFails(p)
  BY <1>8 DEF DeleteBatchFails, Failure
<1> QED BY <1>2, <1>3, <1>4, <1>5, <1>6, <1>7, <1>8 DEF PortEvents

LEMMA PhoneShared ==
  ASSUME PortInv, NEW p \in Porters, NEW e \in PhoneEvents, Call(p, e) \/ CallThrows(p, e)
  PROVE  SharedGood
<1> USE PorterAssumption, KeysAssumption
    DEF PortInv, SharedGood, SharedTypes, Grows, redisVars, dbVars, localVars, historyVars, SetCall
<1>0. e \in Events /\ calls[p] \in [PhoneEvents -> CallStates]
  BY DEF Events
<1>1. ASSUME NEW c \in CallStates, SetCall(p, e, c)
      PROVE  calls' \in [Porters -> [PhoneEvents -> CallStates]]
  BY <1>1
<1>2. CASE WriteNotes(p, e)
  BY <1>1, <1>2 DEF WriteNotes, CallStates
<1>3. CASE WriteNotesFails(p, e)
  <2>1. failures' \in 0..MaxFailures /\ failures <= failures'
    BY <1>3 DEF WriteNotesFails, Failure
  <2>2. SetCall(p, e, "aborted") /\ "aborted" \in CallStates
    BY <1>3 DEF WriteNotesFails, CallStates
  <2> QED BY <1>0, <1>1, <1>3, <2>1, <2>2 DEF WriteNotesFails
<1>4. CASE DeletePhoneKey(p, e)
  <2>0. cache' = [cache EXCEPT ![e] = 0] /\ 0 \in 0..MaxLogins
    BY <1>4 DEF DeletePhoneKey
  <2>1. cache' \in [Keys -> 0..MaxLogins] /\ \A d \in Events : cache[d] = 0 => cache'[d] = 0
    BY <2>0 DEF Keys
  <2>2. calls' \in [Porters -> [PhoneEvents -> CallStates]]
    BY <1>1, <1>4 DEF DeletePhoneKey, CallStates
  <2> QED BY <1>4, <2>1, <2>2 DEF DeletePhoneKey
<1>5. CASE EndCall(p, e)
  <2>1. copies' \in [Events -> Nat] /\ \A d \in Events : copies[d] <= copies'[d]
    BY <1>5, AddTyped DEF EndCall
  <2>2. calls' \in [Porters -> [PhoneEvents -> CallStates]]
    BY <1>1, <1>5 DEF EndCall, CallStates
  <2> QED BY <1>5, <2>1, <2>2 DEF EndCall
<1>6. CASE CallThrows(p, e)
  <2>1. failures' \in 0..MaxFailures /\ failures <= failures'
    BY <1>6 DEF CallThrows, Failure
  <2>2. calls' \in [Porters -> [PhoneEvents -> CallStates]]
    BY <1>1, <1>6 DEF CallThrows, CallStates
  <2> QED BY <1>6, <2>1, <2>2 DEF CallThrows
<1> QED BY <1>2, <1>3, <1>4, <1>5, <1>6 DEF Call

LEMMA PortShared == ASSUME PortInv, NEW p \in Porters, Port(p) PROVE SharedGood
<1>1. CASE Begin(p) \/ ReadPlayerEvents(p) \/ ReadPodcastEvents(p) \/ AllCallsEnded(p)
  BY <1>1 DEF Begin, ReadPlayerEvents, ReadPodcastEvents, AllCallsEnded, PortInv, SharedGood,
              SharedTypes, Grows, redisVars, dbVars, historyVars
<1>2. CASE \E keys \in SetToAllKPermutations(Present(stream[p])), more \in BOOLEAN :
             Scan(p, keys, more)
  BY <1>2 DEF Scan, PortInv, SharedGood, SharedTypes, Grows, redisVars, dbVars, historyVars
<1>3. CASE ReadPhoneEvents(p)
  BY <1>3 DEF ReadPhoneEvents, CallStates, PortInv, SharedGood, SharedTypes, Grows, redisVars,
              dbVars, historyVars
<1>4. CASE \/ ReadLogins(p) \/ UpdateLogin(p) \/ UpdateLoginFails(p)
           \/ stream[p] = "login" /\ DeleteLogin(p)
  BY <1>4, LoginShared
<1>5. CASE PortEvents(p)
  BY <1>5, EventsShared
<1>6. CASE \E e \in PhoneEvents : Call(p, e)
  BY <1>6, PhoneShared
<1> QED BY <1>1, <1>2, <1>3, <1>4, <1>5, <1>6 DEF Port

LEMMA SharedStep == ASSUME PortInv, Next PROVE SharedGood
<1> USE PorterAssumption, KeysAssumption
    DEF PortInv, SharedGood, SharedTypes, Grows, redisVars, dbVars, localVars, historyVars
<1>1. ASSUME NEW m \in Members, Login(m) PROVE SharedGood
  <2>1. m \notin Events /\ m \in Keys
    BY DEF Keys
  <2>2. missed' \in SUBSET Members
    BY <1>1 DEF Login
  <2>3. cache' \in [Keys -> 0..MaxLogins] /\ lastLogin' \in [Members -> 0..MaxLogins]
    <3>1. lastLogin[m] + 1 \in 0..MaxLogins
      BY <1>1 DEF Login
    <3> QED BY <1>1, <3>1 DEF Login
  <2>4. \A e \in Events : cache'[e] = cache[e]
    BY <1>1, <2>1 DEF Login, Keys
  <2> QED BY <1>1, <2>2, <2>3, <2>4 DEF Login
<1>2. ASSUME NEW e \in Events, Arrive(e) PROVE SharedGood
  <2>0. PICK s \in busy : e \in KeysOf[s]
    BY <1>2 DEF Arrive
  <2>3. cache' = [cache EXCEPT ![e] = 1] /\ 1 \in 0..MaxLogins
    BY <1>2 DEF Arrive
  <2>1. cache' \in [Keys -> 0..MaxLogins]
    BY <2>3
  <2>2. \A d \in arrived : cache'[d] = cache[d]
    BY <1>2 DEF Arrive, Keys
  <2> QED BY <1>2, <2>1, <2>2 DEF Arrive
<1>3. ASSUME NEW p \in Porters, Port(p) PROVE SharedGood
  BY ONLY <1>3, PortInv, PortShared
<1>4. ASSUME NEW p \in Porters, Throws(p) \/ Die(p) PROVE SharedGood
  <2>1. NoCalls \in [PhoneEvents -> CallStates]
    BY DEF NoCalls, CallStates
  <2> QED BY <1>4, <2>1 DEF Throws, Die, Failure
<1> QED BY <1>1, <1>2, <1>3, <1>4, PhoneShared DEF Next

(* A step of a porter keeps the types of its own variables and its place,    *)
(* and touches no other porter.                                              *)
LocalGood(p) == LocalTypes' /\ Alone(p) /\ PorterOK(p)'

LEMMA LeavingGood ==
  ASSUME PortInv, NEW p \in Porters,
         \/ pc[p] # "idle" /\ NextCommand(p)
         \/ pc[p] # "idle" /\ \E sc \in Scans : (sc.more => sc.pages < MaxPages) /\ EndOfPage(p, sc)
         \/ \E s \in Streams : Enter(p, s)
  PROVE  LocalGood(p) /\ Left(p)
<1>1. LocalTypes /\ PlaceOK(p)
  BY DEF PortInv, PlacesInv
<1>2. Left(p)
  BY <1>1, NextLeaves, EndLeaves, EnterLeaves
<1> QED BY <1>1, <1>2, LeftTyped DEF LocalGood

(* The page that a porter leaves was not the last unless SCAN said so.       *)
LEMMA OwnScan ==
  ASSUME PortInv, NEW p \in Porters
  PROVE  scan[p] \in Scans /\ (scan[p].more => scan[p].pages < MaxPages)
BY DEF PortInv, PlacesInv, PlaceOK, LocalTypes

LEMMA AloneMoves ==
  ASSUME LocalTypes, NEW p \in Porters, NEW l \in PCs, pc' = [pc EXCEPT ![p] = l],
         UNCHANGED stream,
         NEW sc \in Scans, scan' = [scan EXCEPT ![p] = sc],
         NEW keys \in Seq(Keys), page' = [page EXCEPT ![p] = keys],
         NEW es \in Seq(Keys), entries' = [entries EXCEPT ![p] = es],
         NEW dates \in [Members -> 0..MaxLogins], logins' = [logins EXCEPT ![p] = dates],
         NEW n \in Nat, i' = [i EXCEPT ![p] = n]
  PROVE  /\ LocalTypes' /\ Alone(p)
         /\ pc'[p] = l /\ stream'[p] = stream[p] /\ scan'[p] = sc /\ page'[p] = keys
         /\ entries'[p] = es /\ logins'[p] = dates /\ i'[p] = n
BY DEF LocalTypes, Alone, SameLocals

(* Only the program counter moves.                                           *)
LEMMA AloneGoes ==
  ASSUME LocalTypes, NEW p \in Porters, NEW l \in PCs, Goto(p, l),
         UNCHANGED <<stream, scan, page, entries, logins, i>>
  PROVE  /\ LocalTypes' /\ Alone(p)
         /\ pc'[p] = l /\ stream'[p] = stream[p] /\ scan'[p] = scan[p] /\ page'[p] = page[p]
         /\ entries'[p] = entries[p] /\ logins'[p] = logins[p] /\ i'[p] = i[p]
BY DEF LocalTypes, Alone, SameLocals, Goto

LEMMA ScanLocal ==
  ASSUME PortInv, SharedGood, NEW p \in Porters, NEW more \in BOOLEAN,
         NEW keys \in SetToAllKPermutations(Present(stream[p])), Scan(p, keys, more)
  PROVE  LocalGood(p)
<1> DEFINE S == Present(stream[p])
           sc == ScanReply(p, keys, more)
<1>0. LocalTypes /\ PorterOK(p) /\ pc[p] = "scan" /\ stream[p] \in Streams
  BY DEF PortInv, PlacesInv, PorterOK, Scan, LocalTypes
<1>1. S \subseteq KeysOf[stream[p]] /\ S \subseteq Keys /\ IsFiniteSet(S)
  <2>1. S \subseteq KeysOf[stream[p]] /\ S \subseteq Keys
    BY <1>0, StreamsAre DEF Present
  <2> QED BY <2>1, KeysAssumption, FS_Subset
<1>2. keys \in Seq(S) /\ \A j, l \in 1..Len(keys) : keys[j] = keys[l] => j = l
  BY <1>1, ReplyProps
<1>3. sc \in Scans /\ (sc.more => sc.pages < MaxPages)
  <2>1. scan[p] \in Scans /\ scan[p].pages < MaxPages
    BY <1>0 DEF PorterOK, PlaceOK, LocalTypes
  <2>2. sc.todo \subseteq Keys
    BY <1>1, <2>1 DEF ScanReply, Scans
  <2>3. sc = [more |-> more, pages |-> scan[p].pages + 1, todo |-> sc.todo]
    BY DEF ScanReply
  <2>4. scan[p].pages + 1 \in 0..MaxPages
    BY <2>1, PorterAssumption DEF Scans
  <2>5. more => sc.pages < MaxPages
    BY DEF Scan
  <2> HIDE DEF sc
  <2> QED BY <2>2, <2>3, <2>4, <2>5 DEF Scans
<1> HIDE DEF sc, S
<1>4. CASE keys = <<>>
  <2>1. NextCommand(p) \/ EndOfPage(p, sc)
    BY <1>4 DEF Scan, sc
  <2> QED BY <1>0, <1>3, <2>1, LeavingGood
<1>5. CASE keys # <<>>
  <2>1. /\ scan' = [scan EXCEPT ![p] = sc] /\ page' = [page EXCEPT ![p] = keys]
        /\ pc' = [pc EXCEPT ![p] = "read"] /\ UNCHANGED <<stream, entries, logins, i>>
        /\ UNCHANGED <<cache, arrived>>
    BY <1>5 DEF Scan, Goto, sc, redisVars, historyVars
  <2>2. /\ "read" \in PCs /\ keys \in Seq(Keys) /\ entries[p] \in Seq(Keys)
        /\ logins[p] \in [Members -> 0..MaxLogins] /\ i[p] \in Nat
    BY <1>0, <1>1, <1>2 DEF LocalTypes, PCs
  <2>3. /\ entries' = [entries EXCEPT ![p] = entries[p]] /\ i' = [i EXCEPT ![p] = i[p]]
        /\ logins' = [logins EXCEPT ![p] = logins[p]]
    BY <1>0, <2>1 DEF LocalTypes
  <2>4. /\ LocalTypes' /\ Alone(p)
        /\ pc'[p] = "read" /\ stream'[p] = stream[p] /\ scan'[p] = sc /\ page'[p] = keys
        /\ entries'[p] = entries[p] /\ logins'[p] = logins[p] /\ i'[p] = i[p]
    BY <1>0, <1>3, <2>1, <2>2, <2>3, AloneMoves
  <2>5. i[p] = 1 /\ entries[p] = <<>>
    BY <1>0 DEF PorterOK, PlaceOK, EntriesOK
  <2>6. PlaceOK(p)'
    BY <1>0, <1>3, <2>4, <2>5 DEF PorterOK, PlaceOK
  <2>7. PageOK(p)'
    <3>1. keys \in Seq(KeysOf[stream[p]]) /\ 1 \in 1..Len(keys)
      BY <1>1, <1>2, <1>5
    <3>2. \A a \in 1..Len(keys) : cache[keys[a]] # 0
      BY <1>2 DEF S, Present
    <3>3. \A e \in Events : cache[e] # 0 => e \in arrived
      BY DEF PortInv, PlacesInv
    <3> QED BY <1>2, <2>1, <2>4, <2>5, <3>1, <3>2, <3>3 DEF PageOK
  <2>8. EntriesOK(p)' /\ TriedOK(p)'
    BY <2>4, <2>5 DEF EntriesOK, TriedOK
  <2> QED BY <2>4, <2>6, <2>7, <2>8 DEF LocalGood, PorterOK
<1> QED BY <1>4, <1>5

LEMMA LoginLocal ==
  ASSUME PortInv, SharedGood, NEW p \in Porters,
         \/ ReadLogins(p) \/ UpdateLogin(p) \/ UpdateLoginFails(p)
         \/ stream[p] = "login" /\ DeleteLogin(p)
  PROVE  LocalGood(p)
<1>0. LocalTypes /\ PorterOK(p) /\ stream[p] = "login"
  BY DEF PortInv, PlacesInv, PorterOK, ReadLogins, UpdateLogin, UpdateLoginFails
<1>1. /\ page[p] \in Seq(Members) /\ page[p] \in Seq(Keys) /\ entries[p] \in Seq(Keys)
      /\ i[p] \in Nat /\ logins[p] \in [Members -> 0..MaxLogins] /\ scan[p] \in Scans
  BY <1>0, StreamsAre DEF PorterOK, PageOK, LocalTypes
<1>2. {"save", "deleteOne"} \subseteq PCs
  BY DEF PCs
<1>3. arrived \subseteq arrived'
  BY DEF SharedGood, Grows
<1>4. ASSUME NEW l \in {"save", "deleteOne"}, pc'[p] = l, stream'[p] = "login", scan'[p] = scan[p],
             page'[p] = page[p], entries'[p] = entries[p], i'[p] \in 1..Len(page[p])
      PROVE  PorterOK(p)'
  <2>1. PlaceOK(p)'
    BY <1>0, <1>4 DEF PorterOK, PlaceOK, Saving
  <2>2. PageOK(p)'
    BY <1>0, <1>3, <1>4 DEF PorterOK, PageOK
  <2>3. EntriesOK(p)' /\ TriedOK(p)'
    BY <1>0, <1>4 DEF PorterOK, EntriesOK, TriedOK, Saving
  <2> QED BY <2>1, <2>2, <2>3 DEF PorterOK
<1>5. CASE ReadLogins(p)
  <2> DEFINE dates == [m \in Members |-> IF m \in ToSet(page[p]) THEN cache[m] ELSE 0]
  <2>1. logins' = [logins EXCEPT ![p] = dates] /\ pc' = [pc EXCEPT ![p] = "save"]
        /\ UNCHANGED <<stream, scan, page, entries, i>> /\ pc[p] = "read"
    BY <1>5 DEF ReadLogins, Goto
  <2>2. dates \in [Members -> 0..MaxLogins]
    BY PorterAssumption DEF PortInv, SharedTypes, Keys
  <2>3. i[p] \in 1..Len(page[p])
    BY <1>0, <2>1 DEF PorterOK, PageOK
  <2>4. logins' \in [Porters -> [Members -> 0..MaxLogins]]
    BY <1>0, <2>1, <2>2 DEF LocalTypes
  <2>5. LocalTypes'
    BY <1>0, <1>2, <2>1, <2>4 DEF LocalTypes
  <2>6. Alone(p)
    BY <1>0, <2>1 DEF LocalTypes, Alone, SameLocals
  <2> QED BY <1>0, <1>4, <2>1, <2>3, <2>5, <2>6 DEF LocalGood, LocalTypes
<1>6. CASE UpdateLogin(p) \/ UpdateLoginFails(p)
  <2>1. Goto(p, "deleteOne") /\ UNCHANGED <<stream, scan, page, entries, logins, i>> /\ pc[p] = "save"
    BY <1>6 DEF UpdateLogin, UpdateLoginFails, localVars
  <2>2. i[p] \in 1..Len(page[p])
    BY <1>0, <2>1 DEF PorterOK, PageOK
  <2> QED BY <1>0, <1>2, <1>4, <2>1, <2>2, AloneGoes DEF LocalGood
<1>7. CASE DeleteLogin(p)
  <2>1. pc[p] = "deleteOne" /\ i[p] \in 1..Len(page[p])
    BY <1>0, <1>7 DEF PorterOK, PageOK, DeleteLogin
  <2>2. CASE i[p] = Len(page[p])
    <3>1. EndOfPage(p, scan[p])
      BY <1>7, <2>2 DEF DeleteLogin
    <3> QED BY <1>1, <2>1, <3>1, OwnScan, LeavingGood
  <2>3. CASE i[p] # Len(page[p])
    <3>1. i' = [i EXCEPT ![p] = i[p] + 1] /\ pc' = [pc EXCEPT ![p] = "save"]
          /\ UNCHANGED <<stream, scan, page, entries, logins>>
      BY <1>7, <2>3 DEF DeleteLogin, Goto
    <3>2. i[p] + 1 \in 1..Len(page[p])
      BY <1>1, <2>1, <2>3
    <3>3. LocalTypes' /\ Alone(p)
      BY <1>0, <1>1, <1>2, <3>1 DEF LocalTypes, Alone, SameLocals
    <3> QED BY <1>0, <1>4, <3>1, <3>2, <3>3 DEF LocalGood, LocalTypes
  <2> QED BY <2>2, <2>3
<1> QED BY <1>5, <1>6, <1>7

LEMMA ReadLocal ==
  ASSUME PortInv, SharedGood, NEW p \in Porters,
         ReadPlayerEvents(p) \/ ReadPodcastEvents(p) \/ ReadPhoneEvents(p) \/ AllCallsEnded(p)
         \/ Begin(p)
  PROVE  LocalGood(p)
<1>0. LocalTypes /\ PorterOK(p)
  BY DEF PortInv, PlacesInv, PorterOK
<1>1. /\ page[p] \in Seq(Keys) /\ page[p] \in Seq(KeysOf[stream[p]])
      /\ i[p] \in Nat /\ logins[p] \in [Members -> 0..MaxLogins] /\ scan[p] \in Scans
  BY <1>0 DEF PorterOK, PageOK, LocalTypes
<1>2. {"save", "delete", "wait"} \subseteq PCs
  BY DEF PCs
<1>3. arrived \subseteq arrived'
  BY DEF SharedGood, Grows
<1>4. ASSUME NEW S \in SUBSET ToSet(page[p])
      PROVE  IsFiniteSet(S) /\ S \subseteq Keys /\ S \subseteq KeysOf[stream[p]]
  <2>1. S \subseteq Keys /\ S \subseteq KeysOf[stream[p]]
    BY <1>1 DEF ToSet
  <2> QED BY <2>1, KeysAssumption, FS_Subset
<1>5. ASSUME NEW l \in {"save", "delete"}, pc' = [pc EXCEPT ![p] = l], pc[p] = "read",
             NEW es \in Seq(Keys), entries' = [entries EXCEPT ![p] = es],
             UNCHANGED <<stream, scan, page, logins, i>>, stream[p] \in Saving
      PROVE  /\ LocalTypes' /\ Alone(p) /\ PlaceOK(p)' /\ PageOK(p)'
             /\ pc'[p] = l /\ stream'[p] = stream[p] /\ page'[p] = page[p]
             /\ entries'[p] = es /\ i'[p] = 1
  <2>1. LocalTypes' /\ Alone(p)
    BY <1>0, <1>2, <1>5 DEF LocalTypes, Alone, SameLocals
  <2>2. pc'[p] = l /\ entries'[p] = es /\ i'[p] = 1 /\ scan'[p] = scan[p]
    BY <1>0, <1>5 DEF LocalTypes, PorterOK, PlaceOK
  <2>3. PlaceOK(p)'
    BY <1>0, <1>5, <2>2 DEF PorterOK, PlaceOK, Saving
  <2>4. PageOK(p)'
    BY <1>0, <1>3, <1>5, <2>2 DEF PorterOK, PageOK, Saving
  <2> QED BY <1>5, <2>1, <2>2, <2>3, <2>4
<1>6. CASE ReadPlayerEvents(p)
  <2> DEFINE S == {k \in ToSet(page[p]) : cache[k] # 0 /\ k \notin Unknown}
  <2>0. IsFiniteSet(S) /\ S \subseteq Keys /\ S \subseteq KeysOf[stream[p]]
    BY <1>4
  <2>1. PICK logs \in SetToSeqs(S) :
          /\ \A j, l \in DOMAIN logs, a, b \in DOMAIN page[p] :
                logs[j] = page[p][a] /\ logs[l] = page[p][b] /\ j < l => a < b
          /\ entries' = [entries EXCEPT ![p] = logs]
          /\ Goto(p, IF logs = <<>> THEN "delete" ELSE "save")
    BY <1>6 DEF ReadPlayerEvents
  <2>2. /\ logs \in Seq(S) /\ \A j, l \in 1..Len(logs) : logs[j] = logs[l] => j = l
        /\ \A x \in S : \E j \in 1..Len(logs) : logs[j] = x
    BY <2>0, <2>1, PermutationProps
  <2>3. logs \in Seq(Keys) /\ logs \in Seq(KeysOf[stream[p]])
    BY <2>0, <2>2
  <2>4. \A j \in 1..Len(logs) : \E a \in 1..Len(page[p]) : page[p][a] = logs[j]
    <3>1. \A j \in 1..Len(logs) : logs[j] \in ToSet(page[p])
      BY <2>2
    <3> QED BY <1>1, <3>1 DEF ToSet
  <2>5. \A j, l \in 1..Len(logs), a, b \in 1..Len(page[p]) :
          logs[j] = page[p][a] /\ logs[l] = page[p][b] /\ j < l => a < b
    BY <1>1, <2>1, <2>3
  <2>6. \A j \in 1..Len(logs) : \E a \in 1..Len(page[p]) : page[p][a] = logs[j] /\ j <= a
    <3>1. logs \in Seq(Keys) /\ page[p] \in Seq(Keys)
      BY <1>1, <2>3
    <3>2. Follows(logs, page[p])
      BY <2>2, <2>4, <2>5 DEF Follows
    <3> QED BY <3>1, <3>2, OrderKept
  <2>7. /\ pc[p] = "read" /\ stream[p] = "player" /\ UNCHANGED <<stream, scan, page, logins, i>>
        /\ UNCHANGED cache
    BY <1>6 DEF ReadPlayerEvents, redisVars
  <2>8. /\ LocalTypes' /\ Alone(p) /\ PlaceOK(p)' /\ PageOK(p)'
        /\ pc'[p] = (IF logs = <<>> THEN "delete" ELSE "save") /\ stream'[p] = "player"
        /\ page'[p] = page[p] /\ entries'[p] = logs /\ i'[p] = 1
    BY <1>5, <2>1, <2>3, <2>7 DEF Goto, Saving
  <2>9. \A a \in 1..Len(page[p]) : \/ \E j \in 1..Len(logs) : page[p][a] = logs[j]
                                   \/ page[p][a] \in Unknown \/ cache'[page[p][a]] = 0
    <3>1. \A a \in 1..Len(page[p]) : page[p][a] \in ToSet(page[p])
      BY <1>1 DEF ToSet
    <3> QED BY <2>2, <2>7, <3>1
  <2>10. EntriesOK(p)'
    <3>1. logs # <<>> => 1 \in 1..Len(logs)
      BY <2>3
    <3>2. /\ stream'[p] = "player" /\ stream'[p] \notin {"podcast"} /\ entries'[p] = logs
          /\ pc'[p] = "save" => logs # <<>>
          /\ pc'[p] \in {"save", "delete"} /\ i'[p] = 1
      BY <2>8
    <3>3. logs \in Seq(KeysOf[stream'[p]])
      BY <2>3, <2>7
    <3>4. \A j \in 1..Len(logs) : \E a \in 1..Len(page'[p]) : page'[p][a] = logs[j] /\ j <= a
      BY <2>6, <2>8
    <3>5. \A a \in 1..Len(page'[p]) : \/ \E j \in 1..Len(logs) : page'[p][a] = logs[j]
                                     \/ page'[p][a] \in Unknown \/ cache'[page'[p][a]] = 0
      BY <2>8, <2>9
    <3>6. pc'[p] \in {"save", "fallback", "deleteOne"} => i'[p] \in 1..Len(entries'[p])
      BY <3>1, <3>2
    <3> HIDE DEF S
    <3> QED BY <2>2, <3>2, <3>3, <3>4, <3>5, <3>6 DEF EntriesOK
  <2>11. TriedOK(p)'
    <3>1. logs = <<>> => 1..Len(logs) = {}
      OBVIOUS
    <3> QED BY <2>8, <3>1 DEF TriedOK
  <2> QED BY <2>8, <2>10, <2>11 DEF LocalGood, PorterOK
<1>7. CASE ReadPodcastEvents(p)
  <2> DEFINE S == {k \in ToSet(page[p]) : cache[k] # 0}
  <2>0. IsFiniteSet(S) /\ S \subseteq Keys /\ S \subseteq KeysOf[stream[p]]
    BY <1>4
  <2>1. pc[p] = "read" /\ stream[p] = "podcast"
    BY <1>7 DEF ReadPodcastEvents
  <2>2. CASE S = {}
    <3>1. EndOfPage(p, scan[p])
      BY <1>7, <2>2 DEF ReadPodcastEvents
    <3> QED BY <1>1, <2>1, <3>1, OwnScan, LeavingGood
  <2>3. CASE S # {}
    <3>1. PICK es \in SetToSeqs(S) : entries' = [entries EXCEPT ![p] = es]
      BY <1>7, <2>3 DEF ReadPodcastEvents
    <3>2. pc' = [pc EXCEPT ![p] = "save"] /\ UNCHANGED <<stream, scan, page, logins, i>>
      BY <1>7, <2>3 DEF ReadPodcastEvents, Goto
    <3>3. /\ es \in Seq(S) /\ \A j, l \in 1..Len(es) : es[j] = es[l] => j = l
          /\ \A x \in S : \E j \in 1..Len(es) : es[j] = x
      <4> HIDE DEF S
      <4> QED BY <2>0, <3>1, PermutationProps
    <3>4. es \in Seq(Keys) /\ es \in Seq(KeysOf[stream[p]]) /\ 1 \in 1..Len(es)
      BY <2>0, <2>3, <3>3
    <3>5. \A j \in 1..Len(es) : \E a \in 1..Len(page[p]) : page[p][a] = es[j]
      <4>1. \A j \in 1..Len(es) : es[j] \in ToSet(page[p])
        BY <3>3
      <4> QED BY <1>1, <4>1 DEF ToSet
    <3>6. /\ LocalTypes' /\ Alone(p) /\ PlaceOK(p)' /\ PageOK(p)'
          /\ pc'[p] = "save" /\ stream'[p] = "podcast"
          /\ page'[p] = page[p] /\ entries'[p] = es /\ i'[p] = 1
      BY <1>5, <2>1, <3>1, <3>2, <3>4 DEF Saving
    <3>7. EntriesOK(p)' /\ TriedOK(p)'
      BY <2>1, <3>2, <3>3, <3>4, <3>5, <3>6 DEF EntriesOK, TriedOK
    <3> QED BY <3>6, <3>7 DEF LocalGood, PorterOK
  <2> QED BY <2>2, <2>3
<1>8. CASE ReadPhoneEvents(p)
  <2>1. /\ pc[p] = "read" /\ stream[p] = "phone" /\ Goto(p, "wait")
        /\ UNCHANGED <<stream, scan, page, entries, logins, i>>
    BY <1>8 DEF ReadPhoneEvents, localVars
  <2>2. /\ LocalTypes' /\ Alone(p)
        /\ pc'[p] = "wait" /\ stream'[p] = stream[p] /\ scan'[p] = scan[p] /\ page'[p] = page[p]
        /\ entries'[p] = entries[p] /\ logins'[p] = logins[p] /\ i'[p] = i[p]
    BY <1>0, <1>2, <2>1, AloneGoes
  <2>3. PlaceOK(p)' /\ PageOK(p)'
    BY <1>0, <1>3, <2>1, <2>2 DEF PorterOK, PlaceOK, PageOK, Saving
  <2>4. EntriesOK(p)' /\ TriedOK(p)'
    BY <1>0, <2>1, <2>2 DEF PorterOK, EntriesOK, TriedOK, Saving
  <2> QED BY <2>2, <2>3, <2>4 DEF LocalGood, PorterOK
<1>9. CASE AllCallsEnded(p)
  BY <1>1, <1>9, OwnScan, LeavingGood DEF AllCallsEnded
<1>10. CASE Begin(p)
  BY <1>10, LeavingGood DEF Begin, Streams
<1> QED BY <1>6, <1>7, <1>8, <1>9, <1>10

LEMMA EventsLocal ==
  ASSUME PortInv, SharedGood, NEW p \in Porters, PortEvents(p)
  PROVE  LocalGood(p)
<1> DEFINE Late(e) == copies'[e] > 0 \/ e \in refused'
<1>0. LocalTypes /\ PorterOK(p) /\ stream[p] \in Saving
  BY DEF PortInv, PlacesInv, PorterOK, PortEvents, Saving
<1>1. /\ entries[p] \in Seq(Keys) /\ page[p] \in Seq(Keys) /\ scan[p] \in Scans /\ i[p] \in Nat
      /\ \A j \in 1..Len(entries[p]) : entries[p][j] \in Events
  <2>1. KeysOf[stream[p]] \subseteq Events
    BY <1>0, StreamsAre DEF Saving, Events
  <2> QED BY <1>0, <2>1 DEF PorterOK, EntriesOK, LocalTypes
<1>2. {"fallback", "deleteOne", "delete"} \subseteq PCs
  BY DEF PCs
<1>3. /\ arrived \subseteq arrived'
      /\ \A e \in Events : Tried(e) => Late(e)
      /\ \A e \in Events : e \in arrived /\ cache[e] = 0 => cache'[e] = 0
  BY DEF SharedGood, SharedTypes, PortInv, Grows, Tried
<1>4. pc[p] \in {"save", "fallback", "deleteOne"} => i[p] \in 1..Len(entries[p])
  BY <1>0 DEF PorterOK, EntriesOK
<1>5. /\ \A a \in 1..Len(page[p]) : page[p][a] \in Events /\ page[p][a] \in arrived
      /\ \A j \in 1..Len(entries[p]) : entries[p][j] \in arrived
  <2>1. KeysOf[stream[p]] \subseteq Events
    BY <1>0, StreamsAre DEF Saving, Events
  <2>2. \A a \in 1..Len(page[p]) : page[p][a] \in Events /\ page[p][a] \in arrived
    BY <1>0, <2>1 DEF PorterOK, PageOK
  <2> QED BY <1>0, <2>2 DEF PorterOK, EntriesOK
<1>6. ASSUME NEW l \in {"fallback", "deleteOne", "delete"}, pc' = [pc EXCEPT ![p] = l],
             UNCHANGED <<stream, scan, page, entries, logins>>,
             NEW n \in Nat, i' = [i EXCEPT ![p] = n]
      PROVE  /\ LocalTypes' /\ Alone(p) /\ PlaceOK(p)' /\ PageOK(p)'
             /\ pc'[p] = l /\ stream'[p] = stream[p] /\ page'[p] = page[p]
             /\ entries'[p] = entries[p] /\ i'[p] = n
  <2>1. LocalTypes' /\ Alone(p)
    BY <1>0, <1>2, <1>6 DEF LocalTypes, Alone, SameLocals
  <2>2. pc'[p] = l /\ i'[p] = n
    BY <1>0, <1>6 DEF LocalTypes
  <2>3. PlaceOK(p)'
    BY <1>0, <1>6, <2>2 DEF PorterOK, PlaceOK, Saving
  <2>4. PageOK(p)'
    BY <1>0, <1>3, <1>6, <2>2 DEF PorterOK, PageOK, Saving
  <2> QED BY <1>6, <2>1, <2>2, <2>3, <2>4
<1>7. ASSUME pc[p] \in {"save", "fallback", "deleteOne", "delete"},
             NEW l \in {"fallback", "deleteOne", "delete"}, pc'[p] = l,
             stream'[p] = stream[p], page'[p] = page[p], entries'[p] = entries[p],
             l # "delete" => i'[p] \in 1..Len(entries[p]),
             stream[p] = "podcast" /\ l = "delete" => i'[p] = 1 /\ 1 \in 1..Len(entries[p]),
             stream[p] = "podcast" /\ l # "delete" =>
                \A j \in 1..(i'[p] - 1) : cache'[entries[p][j]] = 0
      PROVE  EntriesOK(p)'
  <2>1. stream[p] = "player" =>
           \A a \in 1..Len(page[p]) :
               \/ \E j \in 1..Len(entries[p]) : page[p][a] = entries[p][j]
               \/ page[p][a] \in Unknown \/ cache'[page[p][a]] = 0
    BY <1>0, <1>3, <1>5, <1>7 DEF PorterOK, EntriesOK
  <2>2. /\ entries[p] \in Seq(KeysOf[stream[p]])
        /\ \A j, k \in 1..Len(entries[p]) : entries[p][j] = entries[p][k] => j = k
        /\ \A j \in 1..Len(entries[p]) : \E a \in 1..Len(page[p]) :
               page[p][a] = entries[p][j] /\ (stream[p] = "player" => j <= a)
    BY <1>0 DEF PorterOK, EntriesOK
  <2> QED BY <1>0, <1>7, <2>1, <2>2 DEF EntriesOK, Saving
<1>8. CASE SaveBatch(p)
  <2>1. /\ pc[p] = "save" /\ Goto(p, "delete") /\ UNCHANGED localVars
        /\ AddCopies(ToSet(entries[p]))
    BY <1>8 DEF SaveBatch
  <2>2. i[p] = 1 /\ 1 \in 1..Len(entries[p])
    BY <1>0, <1>4, <2>1 DEF PorterOK, PlaceOK, Saving
  <2>3. i' = [i EXCEPT ![p] = 1] /\ pc' = [pc EXCEPT ![p] = "delete"]
        /\ UNCHANGED <<stream, scan, page, entries, logins>>
    BY <1>0, <2>1, <2>2 DEF LocalTypes, localVars, Goto
  <2>4. /\ LocalTypes' /\ Alone(p) /\ PlaceOK(p)' /\ PageOK(p)'
        /\ pc'[p] = "delete" /\ stream'[p] = stream[p] /\ page'[p] = page[p]
        /\ entries'[p] = entries[p] /\ i'[p] = 1
    BY <1>6, <2>3
  <2>5. EntriesOK(p)'
    BY <1>7, <2>1, <2>2, <2>4
  <2>6. \A j \in 1..Len(entries[p]) : Late(entries[p][j])
    <3>1. \A j \in 1..Len(entries[p]) : entries[p][j] \in ToSet(entries[p])
      BY <1>1 DEF ToSet
    <3>2. \A e \in ToSet(entries[p]) \cap Events : copies'[e] = copies[e] + 1 /\ copies[e] \in Nat
      BY <2>1, AddTyped DEF PortInv, SharedTypes
    <3> QED BY <1>1, <3>1, <3>2
  <2>7. TriedOK(p)'
    BY <2>4, <2>6 DEF TriedOK, Tried
  <2> QED BY <2>4, <2>5, <2>7 DEF LocalGood, PorterOK
<1>9. CASE SaveBatchFails(p) \/ DeleteBatchFails(p)
  <2>1. /\ pc[p] \in {"save", "delete"} /\ Goto(p, "fallback") /\ UNCHANGED localVars
        /\ pc[p] = "delete" => stream[p] = "podcast"
    BY <1>9 DEF SaveBatchFails, DeleteBatchFails
  <2>2. i[p] = 1 /\ 1 \in 1..Len(entries[p])
    BY <1>0, <1>4, <2>1 DEF PorterOK, PlaceOK, EntriesOK, Saving
  <2>3. i' = [i EXCEPT ![p] = 1] /\ pc' = [pc EXCEPT ![p] = "fallback"]
        /\ UNCHANGED <<stream, scan, page, entries, logins>>
    BY <1>0, <2>1, <2>2 DEF LocalTypes, localVars, Goto
  <2>4. /\ LocalTypes' /\ Alone(p) /\ PlaceOK(p)' /\ PageOK(p)'
        /\ pc'[p] = "fallback" /\ stream'[p] = stream[p] /\ page'[p] = page[p]
        /\ entries'[p] = entries[p] /\ i'[p] = 1
    BY <1>6, <2>3
  <2>5. 1..(1 - 1) = {}
    OBVIOUS
  <2>6. EntriesOK(p)'
    BY <1>7, <2>1, <2>2, <2>4, <2>5
  <2>7. TriedOK(p)'
    BY <2>4, <2>5 DEF TriedOK, Tried
  <2> QED BY <2>4, <2>6, <2>7 DEF LocalGood, PorterOK
<1>10. CASE SaveOne(p) \/ SaveOneFails(p)
  <2>1. pc[p] = "fallback" /\ Goto(p, "deleteOne") /\ UNCHANGED localVars
    BY <1>10 DEF SaveOne, SaveOneFails
  <2>2. i[p] \in 1..Len(entries[p])
    BY <1>4, <2>1
  <2>3. i' = [i EXCEPT ![p] = i[p]] /\ pc' = [pc EXCEPT ![p] = "deleteOne"]
        /\ UNCHANGED <<stream, scan, page, entries, logins>>
    BY <1>0, <2>1, <2>2 DEF LocalTypes, localVars, Goto
  <2>4. /\ LocalTypes' /\ Alone(p) /\ PlaceOK(p)' /\ PageOK(p)'
        /\ pc'[p] = "deleteOne" /\ stream'[p] = stream[p] /\ page'[p] = page[p]
        /\ entries'[p] = entries[p] /\ i'[p] = i[p]
    BY <1>1, <1>6, <2>3
  <2>5. stream[p] = "podcast" => \A j \in 1..(i[p] - 1) : cache'[entries[p][j]] = 0
    <3>1. \A j \in 1..(i[p] - 1) : j \in 1..Len(entries[p])
      BY <1>1, <2>2
    <3>2. stream[p] = "podcast" => \A j \in 1..(i[p] - 1) : cache[entries[p][j]] = 0
      BY <1>0, <2>1 DEF PorterOK, EntriesOK
    <3> QED BY <1>1, <1>3, <1>5, <3>1, <3>2
  <2>6. EntriesOK(p)'
    BY <1>7, <2>1, <2>2, <2>4, <2>5
  <2>7. Late(entries[p][i[p]])
    <3>1. CASE SaveOne(p)
      <4>1. copies'[entries[p][i[p]]] = copies[entries[p][i[p]]] + 1
        BY <1>1, <2>2, <3>1, AddTyped DEF SaveOne, PortInv
      <4> QED BY <1>1, <2>2, <4>1 DEF PortInv, SharedTypes
    <3>2. CASE SaveOneFails(p)
      BY <3>2 DEF SaveOneFails
    <3> QED BY <1>10, <3>1, <3>2
  <2>8. TriedOK(p)'
    <3>1. \A j \in 1..(i[p] - 1) : Tried(entries[p][j]) /\ j \in 1..Len(entries[p])
      BY <1>0, <1>1, <2>1, <2>2 DEF PorterOK, TriedOK
    <3>2. \A j \in 1..i[p] : j \in 1..(i[p] - 1) \/ j = i[p]
      BY <1>1
    <3>3. \A j \in 1..i[p] : Late(entries[p][j])
      BY <1>1, <1>3, <2>7, <3>1, <3>2
    <3> QED BY <2>4, <3>3 DEF TriedOK, Tried
  <2> QED BY <2>4, <2>6, <2>8 DEF LocalGood, PorterOK
<1>11. CASE DeleteOne(p)
  <2>1. /\ pc[p] = "deleteOne" /\ i[p] \in 1..Len(entries[p])
        /\ cache' = [cache EXCEPT ![FallbackKey(p)] = 0]
    BY <1>4, <1>11 DEF DeleteOne
  <2>2. \A j \in 1..i[p] : Late(entries[p][j]) /\ j \in 1..Len(entries[p])
    BY <1>0, <1>1, <1>3, <2>1 DEF PorterOK, TriedOK
  <2>3. stream[p] = "podcast" => \A j \in 1..i[p] : cache'[entries[p][j]] = 0
    <3>1. SUFFICES ASSUME stream[p] = "podcast", NEW j \in 1..i[p] PROVE cache'[entries[p][j]] = 0
      OBVIOUS
    <3>2. j \in 1..Len(entries[p]) /\ entries[p][j] \in Keys
      BY <1>1, <2>1
    <3>3. CASE j = i[p]
      BY <2>1, <3>1, <3>2, <3>3 DEF FallbackKey, PortInv, SharedTypes
    <3>4. CASE j \in 1..(i[p] - 1)
      <4>1. cache[entries[p][j]] = 0
        BY <1>0, <2>1, <3>1, <3>4 DEF PorterOK, EntriesOK
      <4> QED BY <1>1, <1>3, <1>5, <3>2, <4>1
    <3> QED BY <1>1, <3>3, <3>4
  <2>4. CASE i[p] < Len(entries[p])
    <3>1. i' = [i EXCEPT ![p] = i[p] + 1] /\ pc' = [pc EXCEPT ![p] = "fallback"]
          /\ UNCHANGED <<stream, scan, page, entries, logins>>
      BY <1>11, <2>4 DEF DeleteOne, Goto
    <3>2. i[p] + 1 \in Nat /\ i[p] + 1 \in 1..Len(entries[p]) /\ (i[p] + 1) - 1 = i[p]
      BY <1>1, <2>1, <2>4
    <3>3. /\ LocalTypes' /\ Alone(p) /\ PlaceOK(p)' /\ PageOK(p)'
          /\ pc'[p] = "fallback" /\ stream'[p] = stream[p] /\ page'[p] = page[p]
          /\ entries'[p] = entries[p] /\ i'[p] = i[p] + 1
      BY <1>6, <3>1, <3>2
    <3>4. EntriesOK(p)'
      BY <1>7, <2>1, <2>3, <3>2, <3>3
    <3>5. TriedOK(p)'
      BY <2>2, <3>2, <3>3 DEF TriedOK, Tried
    <3> QED BY <3>3, <3>4, <3>5 DEF LocalGood, PorterOK
  <2>5. CASE ~ (i[p] < Len(entries[p])) /\ stream[p] = "player"
    <3>1. i' = [i EXCEPT ![p] = i[p]] /\ pc' = [pc EXCEPT ![p] = "delete"]
          /\ UNCHANGED <<stream, scan, page, entries, logins>>
      BY <1>0, <1>11, <2>5 DEF DeleteOne, Goto, localVars, LocalTypes
    <3>2. 1..i[p] = 1..Len(entries[p])
      BY <1>1, <2>1, <2>5
    <3>3. /\ LocalTypes' /\ Alone(p) /\ PlaceOK(p)' /\ PageOK(p)'
          /\ pc'[p] = "delete" /\ stream'[p] = stream[p] /\ page'[p] = page[p]
          /\ entries'[p] = entries[p] /\ i'[p] = i[p]
      BY <1>1, <1>6, <3>1
    <3>4. EntriesOK(p)'
      BY <1>7, <2>1, <2>5, <3>3
    <3>5. TriedOK(p)'
      BY <2>2, <3>2, <3>3 DEF TriedOK, Tried
    <3> QED BY <3>3, <3>4, <3>5 DEF LocalGood, PorterOK
  <2>6. CASE ~ (i[p] < Len(entries[p])) /\ stream[p] # "player"
    <3>1. EndOfPage(p, scan[p])
      BY <1>11, <2>6 DEF DeleteOne
    <3> QED BY <1>1, <2>1, <3>1, OwnScan, LeavingGood
  <2> QED BY <2>4, <2>5, <2>6
<1>12. CASE DeleteBatch(p)
  <2>1. EndOfPage(p, scan[p]) /\ pc[p] = "delete"
    BY <1>12 DEF DeleteBatch
  <2> QED BY <1>1, <2>1, OwnScan, LeavingGood
<1> QED BY <1>8, <1>9, <1>10, <1>11, <1>12 DEF PortEvents

(* What a step does to the porters, and to their calls.                      *)
LEMMA PortersStep ==
  ASSUME PortInv, SharedGood, Next
  PROVE  LocalTypes' /\ \A q \in Porters : PorterOK(q)'
<1>0. LocalTypes /\ SharedTypes /\ SharedTypes' /\ Grows
  BY DEF PortInv, SharedGood
<1>1. \A q \in Porters : PorterOK(q)
  BY DEF PortInv, PlacesInv, PorterOK
<1>2. ASSUME NEW p \in Porters, LocalGood(p)
      PROVE  LocalTypes' /\ \A q \in Porters : PorterOK(q)'
  BY <1>0, <1>1, <1>2, StaysOK DEF LocalGood, Alone
<1>3. ASSUME UNCHANGED <<pc, stream, scan, page, entries, logins, i>>
      PROVE  LocalTypes' /\ \A q \in Porters : PorterOK(q)'
  <2>1. LocalTypes'
    BY <1>0, <1>3 DEF LocalTypes
  <2> QED BY <1>0, <1>1, <1>3, <2>1, StaysOK DEF SameLocals
<1>4. ASSUME NEW p \in Porters, Port(p)
      PROVE  LocalTypes' /\ \A q \in Porters : PorterOK(q)'
  <2>1. CASE \/ ReadPlayerEvents(p) \/ ReadPodcastEvents(p) \/ AllCallsEnded(p) \/ Begin(p)
             \/ ReadPhoneEvents(p)
    BY <1>2, <2>1, ReadLocal
  <2>2. CASE \E keys \in SetToAllKPermutations(Present(stream[p])), more \in BOOLEAN :
               Scan(p, keys, more)
    BY <1>2, <2>2, ScanLocal
  <2>3. CASE \/ ReadLogins(p) \/ UpdateLogin(p) \/ UpdateLoginFails(p)
             \/ stream[p] = "login" /\ DeleteLogin(p)
    BY <1>2, <2>3, LoginLocal
  <2>4. CASE PortEvents(p)
    BY <1>2, <2>4, EventsLocal
  <2>5. ASSUME NEW e \in PhoneEvents, Call(p, e)
        PROVE  UNCHANGED <<pc, stream, scan, page, entries, logins, i>>
    BY <2>5 DEF Call, WriteNotes, WriteNotesFails, DeletePhoneKey, EndCall, localVars
  <2>6. CASE \E e \in PhoneEvents : Call(p, e)
    BY <1>3, <2>5, <2>6
  <2> QED BY <1>4, <2>1, <2>2, <2>3, <2>4, <2>6 DEF Port
<1>5. ASSUME NEW p \in Porters, Throws(p) \/ Die(p) \/ \E e \in PhoneEvents : CallThrows(p, e)
      PROVE  LocalTypes' /\ \A q \in Porters : PorterOK(q)'
  <2>1. CASE Throws(p)
    BY <1>2, <2>1, LeavingGood DEF Throws
  <2>2. CASE Die(p)
    BY <1>2, <2>2, LeavingGood DEF Die, Streams
  <2>3. ASSUME NEW e \in PhoneEvents, CallThrows(p, e)
        PROVE  LocalTypes' /\ \A q \in Porters : PorterOK(q)'
    BY <1>2, <1>3, <2>3, LeavingGood DEF CallThrows, localVars
  <2> QED BY <1>5, <2>1, <2>2, <2>3
<1>6. CASE (\E m \in Members : Login(m)) \/ (\E e \in Events : Arrive(e))
  BY <1>3, <1>6 DEF Login, Arrive, localVars
<1> QED BY <1>4, <1>5, <1>6 DEF Next

LEMMA CallsStep ==
  ASSUME PortInv, SharedGood, Next
  PROVE  \A p \in Porters, e \in PhoneEvents : CallOK(p, e)'
<1> SUFFICES ASSUME NEW p \in Porters, NEW e \in PhoneEvents PROVE CallOK(p, e)'
  OBVIOUS
<1>1. /\ CallOK(p, e) /\ calls \in [Porters -> [PhoneEvents -> CallStates]] /\ e \in Events
      /\ arrived \subseteq arrived' /\ refused \subseteq refused'
      /\ \A d \in arrived : cache[d] = 0 => cache'[d] = 0
      /\ cache \in [Keys -> 0..MaxLogins] /\ Events \subseteq Keys
  BY DEF PortInv, PlacesInv, SharedTypes, SharedGood, Grows, Events, Keys
<1>2. CASE calls'[p][e] = calls[p][e] \/ calls'[p][e] = "none"
  BY <1>1, <1>2 DEF CallOK
<1>3. CASE ~ (calls'[p][e] = calls[p][e] \/ calls'[p][e] = "none")
  <2>1. \A q \in Porters : Throws(q) \/ Die(q) \/ (\E d \in PhoneEvents : CallThrows(q, d)) =>
            calls'[p][e] = calls[p][e] \/ calls'[p][e] = "none"
    BY <1>1 DEF Throws, Die, CallThrows, SetCall, NoCalls
  <2>2. (\E m \in Members : Login(m)) \/ (\E d \in Events : Arrive(d)) => calls' = calls
    BY DEF Login, Arrive
  <2>3. PICK q \in Porters : Port(q)
    BY <1>3, <2>1, <2>2 DEF Next
  <2>4. \/ ReadPhoneEvents(q)
        \/ \E d \in PhoneEvents : WriteNotes(q, d) \/ WriteNotesFails(q, d) \/ DeletePhoneKey(q, d)
    <3>1. ASSUME NEW d \in PhoneEvents, EndCall(q, d)
          PROVE  calls'[p][e] = calls[p][e] \/ calls'[p][e] = "none"
      BY <1>1, <3>1 DEF EndCall, SetCall
    <3>2. PortEvents(q) => calls' = calls
      BY DEF PortEvents, SaveBatch, SaveBatchFails, SaveOne, SaveOneFails, DeleteOne,
             DeleteBatch, DeleteBatchFails
    <3> QED BY <1>3, <2>3, <3>1, <3>2
            DEF Port, Begin, Scan, ReadLogins, UpdateLogin, UpdateLoginFails, DeleteLogin,
                ReadPlayerEvents, ReadPodcastEvents, AllCallsEnded, Call
  <2>5. CASE ReadPhoneEvents(q)
    <3>1. q = p /\ calls'[p][e] = "open" /\ e \in ToSet(page[p]) /\ UNCHANGED arrived
      BY <1>1, <1>3, <2>5 DEF ReadPhoneEvents, historyVars
    <3>2. e \in arrived
      BY <1>1, <3>1 DEF PortInv, PlacesInv, PageOK, ToSet
    <3> QED BY <3>1, <3>2 DEF CallOK
  <2>6. ASSUME NEW d \in PhoneEvents, WriteNotes(q, d) \/ WriteNotesFails(q, d) \/ DeletePhoneKey(q, d)
        PROVE  CallOK(p, e)'
    <3>1. q = p /\ d = e /\ calls[p][e] # "none"
      BY <1>1, <1>3, <2>6 DEF WriteNotes, WriteNotesFails, DeletePhoneKey, SetCall
    <3>2. e \in arrived'
      BY <1>1, <3>1 DEF CallOK
    <3>3. CASE WriteNotes(q, d)
      BY <1>1, <3>1, <3>2, <3>3 DEF WriteNotes, SetCall, CallOK
    <3>4. CASE WriteNotesFails(q, d)
      BY <1>1, <3>1, <3>2, <3>4 DEF WriteNotesFails, SetCall, CallOK
    <3>5. CASE DeletePhoneKey(q, d)
      BY <1>1, <3>1, <3>2, <3>5 DEF DeletePhoneKey, SetCall, CallOK
    <3> QED BY <2>6, <3>3, <3>4, <3>5
  <2> QED BY <2>4, <2>5, <2>6
<1> QED BY <1>2, <1>3

(* Only the key of an event that arrives is written.                         *)
LEMMA KeysStep ==
  ASSUME PortInv, SharedGood, Next
  PROVE  \A e \in Events : /\ cache'[e] # 0 => cache[e] # 0 \/ (e \notin arrived /\ Arrive(e))
                           /\ cache'[e] # 0 => e \in arrived'
<1>0. /\ cache \in [Keys -> 0..MaxLogins] /\ Events \subseteq Keys /\ Members \cap Events = {}
      /\ arrived \subseteq arrived' /\ \A e \in Events : cache[e] # 0 => e \in arrived
  BY KeysAssumption DEF PortInv, PlacesInv, SharedTypes, SharedGood, Grows, Keys
<1>1. \A e \in Events : cache'[e] # 0 => cache[e] # 0 \/ (e \notin arrived /\ Arrive(e))
  <2>1. ASSUME NEW m \in Members, Login(m)
        PROVE  \A e \in Events : cache'[e] = cache[e]
    BY <1>0, <2>1 DEF Login
  <2>2. ASSUME NEW d \in Events, Arrive(d)
        PROVE  d \notin arrived /\ \A e \in Events : e # d => cache'[e] = cache[e]
    BY <1>0, <2>2 DEF Arrive
  <2>3. ASSUME NEW p \in Porters, Port(p)
        PROVE  \A e \in Events : cache'[e] = 0 \/ cache'[e] = cache[e]
    <3>1. PortEvents(p) => \A e \in Events : cache'[e] = 0 \/ cache'[e] = cache[e]
      BY <1>0 DEF PortEvents, SaveBatch, SaveBatchFails, SaveOne, SaveOneFails, DeleteOne,
             DeleteBatch, DeleteBatchFails, redisVars
    <3>2. DeleteLogin(p) => \A e \in Events : cache'[e] = 0 \/ cache'[e] = cache[e]
      BY <1>0 DEF DeleteLogin
    <3>3. \A d \in PhoneEvents : Call(p, d) =>
              \A e \in Events : cache'[e] = 0 \/ cache'[e] = cache[e]
      BY <1>0 DEF Call, WriteNotes, WriteNotesFails, DeletePhoneKey, EndCall, redisVars
    <3>4. CASE \/ Begin(p) \/ ReadLogins(p) \/ UpdateLogin(p) \/ UpdateLoginFails(p)
               \/ ReadPlayerEvents(p) \/ ReadPodcastEvents(p) \/ ReadPhoneEvents(p)
               \/ AllCallsEnded(p)
               \/ \E keys \in SetToAllKPermutations(Present(stream[p])), more \in BOOLEAN :
                     Scan(p, keys, more)
      BY <3>4 DEF Begin, Scan, ReadLogins, UpdateLogin, UpdateLoginFails,
                ReadPlayerEvents, ReadPodcastEvents, ReadPhoneEvents, AllCallsEnded, redisVars
    <3> QED BY <2>3, <3>1, <3>2, <3>3, <3>4 DEF Port
  <2>4. ASSUME NEW p \in Porters, Throws(p) \/ Die(p) \/ \E e \in PhoneEvents : CallThrows(p, e)
        PROVE  cache' = cache
    BY <2>4 DEF Throws, Die, CallThrows, redisVars
  <2> QED BY <2>1, <2>2, <2>3, <2>4 DEF Next
<1>2. \A e \in Events : Arrive(e) => e \in arrived'
  BY DEF Arrive
<1> QED BY <1>0, <1>1, <1>2

LEMMA ArrivedStays == Next => arrived' = arrived \/ \E e \in Events : Arrive(e)
<1>1. ASSUME NEW m \in Members, Login(m) PROVE arrived' = arrived
  BY <1>1 DEF Login
<1>2. ASSUME NEW p \in Porters, PortEvents(p) PROVE arrived' = arrived
  BY <1>2 DEF PortEvents, SaveBatch, SaveBatchFails, SaveOne, SaveOneFails, DeleteOne,
              DeleteBatch, DeleteBatchFails, historyVars
<1>3. ASSUME NEW p \in Porters, Port(p) PROVE arrived' = arrived
  BY <1>2, <1>3 DEF Port, Begin, Scan, ReadLogins, UpdateLogin, UpdateLoginFails, DeleteLogin,
        ReadPlayerEvents, ReadPodcastEvents, ReadPhoneEvents, AllCallsEnded, Call, WriteNotes,
        WriteNotesFails, DeletePhoneKey, EndCall, historyVars
<1>4. ASSUME NEW p \in Porters, Throws(p) \/ Die(p) \/ \E d \in PhoneEvents : CallThrows(p, d)
      PROVE  arrived' = arrived
  BY <1>4 DEF Throws, Die, CallThrows, historyVars
<1> QED BY <1>1, <1>3, <1>4 DEF Next

LEMMA PlacesInit == Init => PortInv
<1> SUFFICES ASSUME Init PROVE PortInv
  OBVIOUS
<1>1. LocalTypes
  <2>1. NoScan \in Scans /\ NoLogins \in [Members -> 0..MaxLogins] /\ "idle" \in PCs
        /\ "none" \in Streams /\ << >> \in Seq(Keys)
    BY PorterAssumption DEF NoScan, Scans, NoLogins, PCs, Streams
  <2> QED BY <2>1 DEF Init, LocalTypes
<1>2. SharedTypes
  <2>1. NoCalls \in [PhoneEvents -> CallStates]
    BY DEF NoCalls, CallStates
  <2> QED BY <2>1, PorterAssumption DEF Init, SharedTypes
<1>3. PlacesInv
  <2>1. ASSUME NEW p \in Porters PROVE PlaceOK(p) /\ PageOK(p) /\ EntriesOK(p) /\ TriedOK(p)
    <3>1. /\ pc[p] = "idle" /\ stream[p] = "none" /\ page[p] = <<>> /\ entries[p] = <<>> /\ i[p] = 1
          /\ scan[p].pages < MaxPages
      BY PorterAssumption DEF Init, NoScan
    <3>2. PlaceOK(p)
      BY <3>1 DEF PlaceOK, Saving
    <3> QED BY <3>1, <3>2 DEF PageOK, EntriesOK, TriedOK
  <2>2. ASSUME NEW p \in Porters, NEW e \in PhoneEvents PROVE CallOK(p, e)
    BY DEF Init, NoCalls, CallOK
  <2>3. \A e \in Events : cache[e] = 0
    BY DEF Init, Keys
  <2> QED BY <2>1, <2>2, <2>3 DEF PlacesInv
<1> QED BY <1>1, <1>2, <1>3 DEF PortInv

LEMMA PlacesNext == PortInv /\ Next => PortInv' /\ SharedGood
<1> SUFFICES ASSUME PortInv, Next PROVE PortInv' /\ SharedGood
  OBVIOUS
<1>1. SharedGood
  BY SharedStep
<1>2. LocalTypes' /\ \A q \in Porters : PorterOK(q)'
  BY <1>1, PortersStep
<1>3. \A p \in Porters, e \in PhoneEvents : CallOK(p, e)'
  BY <1>1, CallsStep
<1>4. \A e \in Events : cache'[e] # 0 => e \in arrived'
  BY <1>1, KeysStep
<1> QED BY <1>1, <1>2, <1>3, <1>4 DEF PortInv, PlacesInv, SharedGood, PorterOK

LEMMA PlacesStill == PortInv /\ UNCHANGED vars => PortInv'
BY DEF PortInv, LocalTypes, SharedTypes, PlacesInv, PlaceOK, PageOK, EntriesOK, TriedOK, Tried,
       CallOK, vars, redisVars, dbVars, localVars, historyVars

(* Every reachable state of Porter is well typed: no index leaves its page,  *)
(* and no date is stored that no login had.                                  *)
THEOREM PorterTypeCorrect == Spec => []TypeOK
<1>1. Init => PortInv
  BY PlacesInit
<1>2. PortInv /\ [Next]_vars => PortInv'
  BY PlacesNext, PlacesStill
<1>3. PortInv => TypeOK
  BY TypesAre DEF PortInv
<1> QED BY <1>1, <1>2, <1>3, PTL DEF Spec

-----------------------------------------------------------------------------
(* Nothing is dropped.                                                       *)

(* What the porter deletes in the fallback of a page, or with the page, it   *)
(* has tried: the key at i is that of a log at or before i.                  *)
LEMMA DeletedTried ==
  ASSUME PortInv, NEW p \in Porters, stream[p] \in Saving, DeleteOne(p) \/ DeleteBatch(p),
         NEW e \in Events, cache[e] # 0, cache'[e] = 0
  PROVE  Tried(e) \/ e \in Unknown
<1>0. /\ PorterOK(p) /\ page[p] \in Seq(Keys) /\ entries[p] \in Seq(Keys) /\ i[p] \in Nat
      /\ cache \in [Keys -> 0..MaxLogins] /\ e \in Keys
  BY DEF PortInv, PlacesInv, PorterOK, LocalTypes, SharedTypes, Keys
<1>1. /\ \A a, b \in 1..Len(page[p]) : page[p][a] = page[p][b] => a = b
      /\ \A j \in 1..Len(entries[p]) : \E a \in 1..Len(page[p]) :
             page[p][a] = entries[p][j] /\ (stream[p] = "player" => j <= a)
  BY <1>0 DEF PorterOK, PageOK, EntriesOK
<1>2. CASE DeleteOne(p)
  <2>1. pc[p] = "deleteOne" /\ cache' = [cache EXCEPT ![FallbackKey(p)] = 0]
    BY <1>2 DEF DeleteOne
  <2>2. FallbackKey(p) = e
    BY <1>0, <2>1
  <2>3. i[p] \in 1..Len(entries[p]) /\ \A j \in 1..i[p] : Tried(entries[p][j])
    BY <1>0, <2>1 DEF PorterOK, EntriesOK, TriedOK
  <2>4. CASE stream[p] # "player"
    <3>1. e = entries[p][i[p]]
      BY <2>2, <2>4 DEF FallbackKey
    <3>2. i[p] \in 1..i[p]
      BY <1>0, <2>3
    <3> QED BY <2>3, <3>1, <3>2
  <2>5. CASE stream[p] = "player"
    <3>1. e = page[p][i[p]]
      BY <2>2, <2>5 DEF FallbackKey
    <3>2. i[p] \in 1..Len(page[p])
      <4>1. PICK a \in 1..Len(page[p]) : i[p] <= a
        BY <1>1, <2>3, <2>5
      <4> QED BY <1>0, <2>3, <4>1
    <3>3. \/ \E j \in 1..Len(entries[p]) : page[p][i[p]] = entries[p][j]
          \/ page[p][i[p]] \in Unknown \/ cache[page[p][i[p]]] = 0
      BY <1>0, <2>1, <2>5, <3>2 DEF PorterOK, EntriesOK
    <3>4. ASSUME NEW j \in 1..Len(entries[p]), page[p][i[p]] = entries[p][j] PROVE Tried(e)
      <4>1. PICK a \in 1..Len(page[p]) : page[p][a] = entries[p][j] /\ j <= a
        BY <1>1, <2>5
      <4>2. a = i[p]
        BY <1>1, <3>2, <3>4, <4>1
      <4>3. j \in 1..i[p]
        BY <1>0, <4>1, <4>2
      <4> QED BY <2>3, <3>1, <3>4, <4>3
    <3> QED BY <3>1, <3>3, <3>4
  <2> QED BY <2>4, <2>5
<1>3. CASE DeleteBatch(p)
  <2>1. pc[p] = "delete" /\ e \in ToSet(IF stream[p] = "player" THEN page[p] ELSE entries[p])
    BY <1>0, <1>3 DEF DeleteBatch
  <2>2. \A j \in 1..Len(entries[p]) : Tried(entries[p][j])
    BY <1>0, <2>1 DEF PorterOK, TriedOK
  <2>3. CASE stream[p] # "player"
    <3>1. PICK j \in 1..Len(entries[p]) : e = entries[p][j]
      BY <1>0, <2>1, <2>3 DEF ToSet
    <3> QED BY <2>2, <3>1
  <2>4. CASE stream[p] = "player"
    <3>1. PICK a \in 1..Len(page[p]) : e = page[p][a]
      BY <1>0, <2>1, <2>4 DEF ToSet
    <3>2. \/ \E j \in 1..Len(entries[p]) : page[p][a] = entries[p][j]
          \/ page[p][a] \in Unknown \/ cache[page[p][a]] = 0
      BY <1>0, <2>1, <2>4 DEF PorterOK, EntriesOK
    <3> QED BY <2>2, <3>1, <3>2
  <2> QED BY <2>3, <2>4
<1> QED BY <1>2, <1>3

(* Only these steps delete the key of an event.                              *)
LEMMA Deleters ==
  ASSUME PortInv, Next, NEW e \in Events, cache[e] # 0, cache'[e] = 0
  PROVE  \E p \in Porters : \/ stream[p] \in Saving /\ (DeleteOne(p) \/ DeleteBatch(p))
                            \/ e \in PhoneEvents /\ DeletePhoneKey(p, e)
<1>0. /\ cache \in [Keys -> 0..MaxLogins] /\ Events \subseteq Keys /\ Members \cap Events = {}
      /\ e \in Keys
  BY KeysAssumption DEF PortInv, SharedTypes, Keys
<1>1. ASSUME NEW m \in Members, Login(m) PROVE cache'[e] = cache[e]
  BY <1>0, <1>1 DEF Login
<1>2. ASSUME NEW d \in Events, Arrive(d) PROVE cache'[e] # 0
  BY <1>0, <1>2 DEF Arrive
<1>3. ASSUME NEW p \in Porters, Throws(p) \/ Die(p) \/ \E d \in PhoneEvents : CallThrows(p, d)
      PROVE  cache' = cache
  BY <1>3 DEF Throws, Die, CallThrows, redisVars
<1>4. PICK p \in Porters : Port(p)
  BY <1>1, <1>2, <1>3 DEF Next
<1>5. CASE PortEvents(p)
  <2>1. stream[p] \in Saving
    BY <1>5 DEF PortEvents, Saving
  <2>2. DeleteOne(p) \/ DeleteBatch(p)
    BY <1>5 DEF PortEvents, SaveBatch, SaveBatchFails, SaveOne, SaveOneFails, DeleteBatchFails,
                redisVars
  <2> QED BY <2>1, <2>2
<1>6. CASE stream[p] = "login" /\ DeleteLogin(p)
  <2>1. pc[p] = "deleteOne" /\ cache' = [cache EXCEPT ![page[p][i[p]]] = 0]
    BY <1>6 DEF DeleteLogin
  <2>2. page[p][i[p]] \in Members
    <3>1. page[p] \in Seq(Members) /\ i[p] \in 1..Len(page[p])
      BY <1>6, <2>1, StreamsAre DEF PortInv, PlacesInv, PageOK
    <3> QED BY <3>1
  <2> QED BY <1>0, <2>1, <2>2
<1>7. ASSUME NEW d \in PhoneEvents, Call(p, d) PROVE d = e /\ DeletePhoneKey(p, e)
  <2>1. DeletePhoneKey(p, d)
    BY <1>7 DEF Call, WriteNotes, WriteNotesFails, EndCall, redisVars
  <2>2. d = e
    BY <1>0, <2>1 DEF DeletePhoneKey
  <2> QED BY <2>1, <2>2
<1>8. CASE \E keys \in SetToAllKPermutations(Present(stream[p])), more \in BOOLEAN :
             Scan(p, keys, more)
  BY <1>8 DEF Scan, redisVars
<1> QED BY <1>4, <1>5, <1>6, <1>7, <1>8
        DEF Port, Begin, ReadLogins, UpdateLogin, UpdateLoginFails, ReadPlayerEvents,
            ReadPodcastEvents, ReadPhoneEvents, AllCallsEnded, redisVars

(* A COMMIT under way ends with a copy or a failure.                         *)
LEMMA CommitEnds ==
  ASSUME PortInv, SharedGood, Next, NEW q \in Porters, NEW e \in PhoneEvents,
         calls[q][e] = "committing", calls'[q][e] # "committing"
  PROVE  copies'[e] > 0 \/ failures' > 0
<1>0. /\ calls \in [Porters -> [PhoneEvents -> CallStates]] /\ e \in Events
      /\ SharedTypes /\ copies \in [Events -> Nat] /\ failures \in Nat
  BY PorterAssumption DEF PortInv, SharedTypes, Events
<1>1. ASSUME NEW p \in Porters, NEW d \in PhoneEvents, Call(p, d)
      PROVE  copies'[e] > 0
  <2>1. p = q /\ d = e /\ EndCall(p, d)
    BY <1>0, <1>1 DEF Call, WriteNotes, WriteNotesFails, DeletePhoneKey, EndCall, SetCall
  <2>2. AddCopies({e})
    BY <2>1 DEF EndCall
  <2>3. copies'[e] = copies[e] + 1
    BY <1>0, <2>2, AddTyped
  <2> QED BY <1>0, <2>3
<1>2. ASSUME NEW p \in Porters, Throws(p) \/ Die(p) \/ \E d \in PhoneEvents : CallThrows(p, d)
      PROVE  failures' > 0
  BY <1>0, <1>2 DEF Throws, Die, CallThrows, Failure
<1>3. ASSUME NEW p \in Porters, ReadPhoneEvents(p) PROVE FALSE
  <2>1. calls[p] = NoCalls /\ \A d \in PhoneEvents : p # q => calls'[q][d] = calls[q][d]
    BY <1>0, <1>3 DEF ReadPhoneEvents
  <2> QED BY <2>1 DEF NoCalls
<1>4. ASSUME NEW p \in Porters, PortEvents(p) PROVE UNCHANGED calls
  BY <1>4 DEF PortEvents, SaveBatch, SaveBatchFails, SaveOne, SaveOneFails, DeleteOne,
              DeleteBatch, DeleteBatchFails
<1>5. ASSUME NEW p \in Porters, Port(p) PROVE copies'[e] > 0
  <2>1. \E d \in PhoneEvents : Call(p, d)
    BY <1>3, <1>4, <1>5 DEF Port, Begin, Scan, ReadLogins, UpdateLogin, UpdateLoginFails,
          DeleteLogin, ReadPlayerEvents, ReadPodcastEvents, AllCallsEnded
  <2> QED BY <1>1, <2>1
<1>6. (\E m \in Members : Login(m)) \/ (\E d \in Events : Arrive(d)) => UNCHANGED calls
  BY DEF Login, Arrive
<1> QED BY <1>2, <1>5, <1>6 DEF Next

LEMMA DroppedNext == PortInv /\ NothingDropped /\ Next => NothingDropped'
<1> SUFFICES ASSUME PortInv, NothingDropped, Next, NEW e \in arrived', cache'[e] = 0
             PROVE  \/ Tried(e)' \/ e \in Unknown
                    \/ /\ e \in PhoneEvents
                       /\ failures' > 0 \/ \E p \in Porters : calls'[p][e] = "committing"
  BY DEF NothingDropped, Tried
<1>0. /\ PortInv' /\ SharedGood /\ e \in Events /\ failures \in Nat
      /\ Tried(e) => Tried(e)'
      /\ failures <= failures' /\ failures' \in Nat
  <2>1. PortInv' /\ SharedGood /\ e \in Events
    BY PlacesNext DEF PortInv, SharedTypes
  <2> QED BY <2>1, PorterAssumption DEF PortInv, SharedGood, SharedTypes, Grows, Tried
<1>1. CASE cache[e] = 0 /\ e \in arrived
  <2>1. \/ Tried(e)
        \/ e \in Unknown
        \/ e \in PhoneEvents /\ failures > 0
        \/ e \in PhoneEvents /\ \E p \in Porters : calls[p][e] = "committing"
    BY <1>1 DEF NothingDropped
  <2>2. ASSUME e \in PhoneEvents, NEW p \in Porters, calls[p][e] = "committing",
               calls'[p][e] # "committing"
        PROVE  Tried(e)' \/ failures' > 0
    BY <1>0, <2>2, CommitEnds DEF Tried
  <2> QED BY <1>0, <2>1, <2>2
<1>2. CASE cache[e] # 0
  <2>1. PICK p \in Porters : \/ stream[p] \in Saving /\ (DeleteOne(p) \/ DeleteBatch(p))
                             \/ e \in PhoneEvents /\ DeletePhoneKey(p, e)
    BY <1>0, <1>2, Deleters
  <2>2. CASE stream[p] \in Saving /\ (DeleteOne(p) \/ DeleteBatch(p))
    BY <1>0, <1>2, <2>2, DeletedTried
  <2>3. CASE e \in PhoneEvents /\ DeletePhoneKey(p, e)
    <3>1. CallOK(p, e) /\ calls \in [Porters -> [PhoneEvents -> CallStates]]
      BY <2>3 DEF PortInv, PlacesInv, SharedTypes
    <3>2. CASE calls[p][e] = "written"
      BY <2>3, <3>1, <3>2 DEF DeletePhoneKey, SetCall
    <3>3. CASE calls[p][e] = "aborted"
      BY <1>0, <3>1, <3>3 DEF CallOK, Tried
    <3> QED BY <2>3, <3>2, <3>3 DEF DeletePhoneKey
  <2> QED BY <2>1, <2>2, <2>3
<1>3. CASE e \notin arrived
  <2>1. cache[e] # 0 \/ ~(cache[e] # 0)
    OBVIOUS
  <2>2. ASSUME NEW d \in Events, Arrive(d) PROVE d = e
    BY <1>3, <2>2 DEF Arrive
  <2>3. ASSUME NEW d \in Events, Arrive(d) PROVE FALSE
    <3>1. Arrive(e) /\ e \in Keys /\ cache \in [Keys -> 0..MaxLogins]
      BY <1>0, <2>2, <2>3 DEF PortInv, SharedTypes, Keys
    <3> QED BY <3>1 DEF Arrive
  <2>4. ASSUME ~ \E d \in Events : Arrive(d) PROVE arrived' = arrived
    BY <2>4, ArrivedStays
  <2> QED BY <1>3, <2>3, <2>4
<1> QED BY <1>1, <1>2, <1>3

-----------------------------------------------------------------------------
(* The copies of an event.                                                   *)

LEMMA CardGrows ==
  ASSUME NEW P, IsFiniteSet(P), NEW p \in P, NEW S \in SUBSET P, NEW T \in SUBSET P
  PROVE  /\ Cardinality(S) \in Nat /\ Cardinality(T) \in Nat
         /\ T \subseteq S => Cardinality(T) <= Cardinality(S)
         /\ T \subseteq S \cup {p} => Cardinality(T) <= Cardinality(S) + 1
         /\ T \subseteq S /\ p \in S /\ p \notin T => Cardinality(T) + 1 <= Cardinality(S)
<1>1. IsFiniteSet(S) /\ IsFiniteSet(T)
  BY FS_Subset
<1>2. Cardinality(S) \in Nat /\ Cardinality(T) \in Nat
  BY <1>1, FS_CardinalityType
<1>3. T \subseteq S => Cardinality(T) <= Cardinality(S)
  BY <1>1, FS_Subset
<1>4. T \subseteq S \cup {p} => Cardinality(T) <= Cardinality(S) + 1
  <2>0. /\ IsFiniteSet(S \cup {p})
        /\ Cardinality(S \cup {p}) = IF p \in S THEN Cardinality(S) ELSE Cardinality(S) + 1
    BY <1>1, FS_AddElement
  <2>1. IsFiniteSet(S \cup {p}) /\ Cardinality(S \cup {p}) \in Nat
        /\ Cardinality(S \cup {p}) <= Cardinality(S) + 1
    BY <1>2, <2>0
  <2>2. T \subseteq S \cup {p} => Cardinality(T) <= Cardinality(S \cup {p})
    BY <2>1, FS_Subset
  <2> QED BY <1>2, <2>1, <2>2
<1>5. ASSUME T \subseteq S, p \in S, p \notin T PROVE Cardinality(T) + 1 <= Cardinality(S)
  <2>1. IsFiniteSet(T \cup {p}) /\ Cardinality(T \cup {p}) = Cardinality(T) + 1
    BY <1>1, <1>5, FS_AddElement
  <2>2. (T \cup {p}) \in SUBSET S
    BY <1>5
  <2>3. Cardinality(T \cup {p}) <= Cardinality(S)
    BY <1>1, <2>2, FS_Subset
  <2> QED BY <2>1, <2>3
<1> QED BY <1>2, <1>3, <1>4, <1>5

(* Three disjoint parts of a set, one of them a single element.              *)
LEMMA CardParts ==
  ASSUME NEW P, IsFiniteSet(P), NEW p \in P, NEW S \in SUBSET P, NEW T \in SUBSET P,
         S \cap T = {}, p \notin S, p \notin T
  PROVE  Cardinality(S) + Cardinality(T) + 1 <= Cardinality(P)
<1>1. IsFiniteSet(S) /\ IsFiniteSet(T)
  BY FS_Subset
<1>2. IsFiniteSet(S \cup T) /\ Cardinality(S \cup T) = Cardinality(S) + Cardinality(T)
  <2>1. Cardinality(S \cap T) = 0
    BY FS_EmptySet
  <2>2. Cardinality(S) \in Nat /\ Cardinality(T) \in Nat
    BY <1>1, FS_CardinalityType
  <2>3. /\ IsFiniteSet(S \cup T)
        /\ Cardinality(S \cup T) = Cardinality(S) + Cardinality(T) - Cardinality(S \cap T)
    BY <1>1, FS_Union
  <2> QED BY <2>1, <2>2, <2>3
<1>3. (S \cup T) \subseteq P /\ p \notin S \cup T
  OBVIOUS
<1>4. Cardinality(S \cup T) + 1 <= Cardinality(P)
  <2> DEFINE U == S \cup T
  <2>1. U \in SUBSET P /\ p \notin U /\ P \in SUBSET P
    BY <1>3
  <2> HIDE DEF U
  <2>2. Cardinality(U) + 1 <= Cardinality(P)
    BY <2>1, CardGrows
  <2> QED BY <2>2 DEF U
<1> QED BY <1>2, <1>4

(* What a step of porter p does to an event of players or podcasts: nothing  *)
(* that counts, a failure, a copy, or p reads it.                            *)
Quiet(p, e) ==
    /\ copies'[e] = copies[e]
    /\ ToSave(p, e)' => ToSave(p, e)
    /\ Saved(p, e) => Saved(p, e)' \/ cache'[e] = 0
Failed(e) == copies'[e] = copies[e] /\ failures' = failures + 1
Copied(p, e) ==
    /\ copies'[e] = copies[e] + 1 /\ e \in arrived
    /\ ToSave(p, e) /\ ~ Saved(p, e) /\ ~ ToSave(p, e)' /\ Saved(p, e)'
Taken(p, e) ==
    copies'[e] = copies[e] /\ cache[e] # 0 /\ ~ ToSave(p, e) /\ ~ Saved(p, e)
Moves(p, e) == Quiet(p, e) \/ Failed(e) \/ Copied(p, e) \/ Taken(p, e)

LEMMA CountStep ==
  ASSUME PortInv, SharedGood, NEW e \in PlayerEvents \cup PodcastEvents, Counts(e),
         NEW p \in Porters, Alone(p), Moves(p, e), cache'[e] # 0 => cache[e] # 0
  PROVE  Counts(e)'
<1> DEFINE P == Pending(e)
           S == Spent(e)
           P2 == {q \in Porters : ToSave(q, e)'}
           S2 == {q \in Porters : Saved(q, e)'}
           N == Cardinality(Porters)
<1>0. /\ IsFiniteSet(Porters) /\ N \in Nat /\ failures \in Nat /\ failures' \in Nat
      /\ copies[e] \in Nat /\ copies'[e] \in Nat /\ failures <= failures'
      /\ arrived \subseteq arrived'
  BY PorterAssumption, KeysAssumption, FS_CardinalityType
     DEF PortInv, SharedGood, SharedTypes, Grows, Events
<1>1. \A q \in Porters \ {p} : (ToSave(q, e)' <=> ToSave(q, e)) /\ (Saved(q, e)' <=> Saved(q, e))
  BY DEF Alone, SameLocals, ToSave, Saved
<1>2. /\ P \in SUBSET Porters /\ S \in SUBSET Porters /\ P2 \in SUBSET Porters /\ S2 \in SUBSET Porters
      /\ P2 \subseteq P \cup {p} /\ S \subseteq S2 \cup {p}
      /\ \A q \in Porters : /\ q \in P <=> ToSave(q, e)
                            /\ q \in S <=> Saved(q, e)
                            /\ q \in P2 <=> ToSave(q, e)'
                            /\ q \in S2 <=> Saved(q, e)'
  BY <1>1 DEF Pending, Spent
<1>3. P \cap S = {}
  <2> SUFFICES ASSUME NEW q \in Porters, ToSave(q, e), Saved(q, e) PROVE FALSE
    BY <1>2
  <2>1. PICK j, l \in 1..Len(entries[q]) :
          /\ entries[q][j] = e /\ entries[q][l] = e
          /\ \/ pc[q] = "fallback" /\ i[q] <= j /\ l < i[q]
             \/ pc[q] = "deleteOne" /\ i[q] < j /\ l <= i[q]
    BY DEF ToSave, Saved
  <2>2. j = l
    BY <2>1 DEF PortInv, PlacesInv, EntriesOK
  <2> QED BY <2>1, <2>2 DEF PortInv, LocalTypes
<1>4. /\ copies[e] + Cardinality(P) <= N + failures
      /\ cache[e] # 0 => copies[e] <= Cardinality(S) + failures
      /\ copies[e] > 0 => e \in arrived
  BY DEF Counts
<1>5. (Pending(e))' = P2 /\ (Spent(e))' = S2
  BY DEF Pending, Spent
<1> HIDE DEF P, S, P2, S2, N
<1>6. /\ Cardinality(P) \in Nat /\ Cardinality(P2) \in Nat /\ Cardinality(P2) <= Cardinality(P) + 1
      /\ P2 \subseteq P => Cardinality(P2) <= Cardinality(P)
      /\ P2 \subseteq P /\ p \in P /\ p \notin P2 => Cardinality(P2) + 1 <= Cardinality(P)
  BY <1>0, <1>2, CardGrows
<1>7. /\ Cardinality(S) \in Nat /\ Cardinality(S2) \in Nat /\ Cardinality(S) <= Cardinality(S2) + 1
      /\ S \subseteq S2 => Cardinality(S) <= Cardinality(S2)
      /\ S \subseteq S2 /\ p \in S2 /\ p \notin S => Cardinality(S) + 1 <= Cardinality(S2)
  BY <1>0, <1>2, CardGrows
<1>8. /\ copies'[e] + Cardinality(P2) <= N + failures'
      /\ cache'[e] # 0 => copies'[e] <= Cardinality(S2) + failures'
  <2>1. CASE Quiet(p, e)
    <3>1. P2 \subseteq P /\ (S \subseteq S2 \/ cache'[e] = 0) /\ copies'[e] = copies[e]
      BY <1>2, <2>1 DEF Quiet
    <3> QED BY <1>0, <1>4, <1>6, <1>7, <3>1
  <2>2. CASE Failed(e)
    BY <1>0, <1>4, <1>6, <1>7, <2>2 DEF Failed
  <2>3. CASE Copied(p, e)
    <3>1. P2 \subseteq P /\ S \subseteq S2 /\ p \in P /\ p \notin P2 /\ p \in S2 /\ p \notin S
          /\ copies'[e] = copies[e] + 1
      BY <1>2, <2>3 DEF Copied
    <3> QED BY <1>0, <1>4, <1>6, <1>7, <3>1
  <2>4. CASE Taken(p, e)
    <3>1. p \notin P /\ p \notin S /\ S \subseteq S2 /\ copies'[e] = copies[e] /\ cache[e] # 0
      BY <1>2, <2>4 DEF Taken
    <3>2. Cardinality(P) + Cardinality(S) + 1 <= N
      BY <1>0, <1>2, <1>3, <3>1, CardParts DEF N
    <3> QED BY <1>0, <1>4, <1>6, <1>7, <3>1, <3>2
  <2> QED BY <2>1, <2>2, <2>3, <2>4 DEF Moves
<1>9. copies'[e] > 0 => e \in arrived'
  BY <1>0, <1>4 DEF Moves, Quiet, Failed, Copied, Taken
<1> QED BY <1>5, <1>8, <1>9 DEF Counts, N

(* Who leaves a page has nothing to save, nor saved.                         *)
LEMMA LeftEmpty ==
  ASSUME PortInv, NEW p \in Porters, NEW e \in Events, Left(p)
  PROVE  ~ ToSave(p, e)' /\ ~ Saved(p, e)'
<1>1. entries'[p] = <<>>
  BY DEF Left, PortInv, LocalTypes
<1> QED BY <1>1 DEF ToSave, Saved

LEMMA EventsMove ==
  ASSUME PortInv, SharedGood, NEW p \in Porters, NEW e \in Events, PortEvents(p)
  PROVE  Moves(p, e)
<1>0. /\ LocalTypes /\ PorterOK(p) /\ stream[p] \in Saving /\ e \in Keys
      /\ cache \in [Keys -> 0..MaxLogins]
      /\ entries[p] \in Seq(Keys) /\ page[p] \in Seq(Keys) /\ i[p] \in Nat
  BY DEF PortInv, PlacesInv, PorterOK, PortEvents, Saving, LocalTypes, SharedTypes, Keys
<1>1. /\ \A j, l \in 1..Len(entries[p]) : entries[p][j] = entries[p][l] => j = l
      /\ pc[p] \in {"save", "fallback", "deleteOne"} => i[p] \in 1..Len(entries[p])
      /\ pc[p] = "save" => i[p] = 1
      /\ \A j \in 1..Len(entries[p]) : entries[p][j] \in arrived
  <2>1. KeysOf[stream[p]] \subseteq Events
    BY <1>0, StreamsAre DEF Saving, Events
  <2>2. \A a \in 1..Len(page[p]) : page[p][a] \in arrived
    BY <1>0, <2>1 DEF PorterOK, PageOK
  <2> QED BY <1>0, <2>2 DEF PorterOK, PlaceOK, EntriesOK, Saving
<1>2. ASSUME NEW l \in PCs, Goto(p, l), UNCHANGED <<stream, entries>>
      PROVE  pc'[p] = l /\ stream'[p] = stream[p] /\ entries'[p] = entries[p]
  BY <1>0, <1>2 DEF Goto, LocalTypes
<1>3. {"fallback", "deleteOne", "delete"} \subseteq PCs
  BY DEF PCs
<1>4. \A es : AddCopies(es) => copies'[e] = IF e \in es THEN copies[e] + 1 ELSE copies[e]
  BY DEF AddCopies
<1>5. CASE SaveBatch(p)
  <2>1. /\ pc[p] = "save" /\ AddCopies(ToSet(entries[p]))
        /\ pc'[p] = "delete" /\ stream'[p] = stream[p] /\ entries'[p] = entries[p]
    BY <1>2, <1>3, <1>5 DEF SaveBatch, localVars
  <2>2. CASE e \in ToSet(entries[p])
    <3>1. PICK j \in 1..Len(entries[p]) : e = entries[p][j]
      BY <1>0, <2>2 DEF ToSet
    <3>2. copies'[e] = copies[e] + 1
      BY <1>4, <2>1, <2>2
    <3>3. Copied(p, e)
      BY <1>0, <1>1, <2>1, <3>1, <3>2 DEF Copied, ToSave, Saved
    <3> QED BY <3>3 DEF Moves
  <2>3. CASE e \notin ToSet(entries[p])
    <3>1. copies'[e] = copies[e]
      BY <1>4, <2>1, <2>3
    <3>2. Quiet(p, e)
      BY <2>1, <3>1 DEF Quiet, ToSave, Saved
    <3> QED BY <3>2 DEF Moves
  <2> QED BY <2>2, <2>3
<1>6. CASE SaveBatchFails(p)
  <2>1. /\ pc[p] = "save" /\ AddCopies({}) /\ i'[p] = i[p]
        /\ pc'[p] = "fallback" /\ stream'[p] = stream[p] /\ entries'[p] = entries[p]
    BY <1>2, <1>3, <1>6 DEF SaveBatchFails, localVars, Kept
  <2>2. copies'[e] = copies[e]
    BY <1>4, <2>1
  <2>3. Quiet(p, e)
    BY <2>1, <2>2 DEF Quiet, ToSave, Saved
  <2> QED BY <2>3 DEF Moves
<1>7. CASE SaveOne(p)
  <2>1. /\ pc[p] = "fallback" /\ AddCopies({entries[p][i[p]]}) /\ i'[p] = i[p]
        /\ pc'[p] = "deleteOne" /\ stream'[p] = stream[p] /\ entries'[p] = entries[p]
    BY <1>2, <1>3, <1>7 DEF SaveOne, localVars
  <2>2. CASE e = entries[p][i[p]]
    <3>1. copies'[e] = copies[e] + 1
      BY <1>4, <2>1, <2>2
    <3>2. \A j \in 1..Len(entries[p]) : entries[p][j] = e <=> j = i[p]
      BY <1>1, <2>1, <2>2
    <3>3. Copied(p, e)
      BY <1>0, <1>1, <2>1, <2>2, <3>1, <3>2 DEF Copied, ToSave, Saved
    <3> QED BY <3>3 DEF Moves
  <2>3. CASE e # entries[p][i[p]]
    <3>1. copies'[e] = copies[e]
      BY <1>4, <2>1, <2>3
    <3>2. Quiet(p, e)
      BY <1>0, <2>1, <3>1 DEF Quiet, ToSave, Saved
    <3> QED BY <3>2 DEF Moves
  <2> QED BY <2>2, <2>3
<1>8. CASE SaveOneFails(p)
  <2>1. /\ pc[p] = "fallback" /\ copies' = copies /\ i'[p] = i[p]
        /\ pc'[p] = "deleteOne" /\ stream'[p] = stream[p] /\ entries'[p] = entries[p]
    BY <1>2, <1>3, <1>8 DEF SaveOneFails, localVars, dbVars
  <2>2. Quiet(p, e)
    BY <1>0, <2>1 DEF Quiet, ToSave, Saved
  <2> QED BY <2>2 DEF Moves
<1>9. CASE DeleteOne(p)
  <2>1. /\ pc[p] = "deleteOne" /\ copies' = copies /\ i[p] \in 1..Len(entries[p])
        /\ cache' = [cache EXCEPT ![FallbackKey(p)] = 0]
    BY <1>1, <1>9 DEF DeleteOne, dbVars
  <2>2. CASE i[p] < Len(entries[p])
    <3>1. /\ pc'[p] = "fallback" /\ stream'[p] = stream[p] /\ entries'[p] = entries[p]
          /\ i'[p] = i[p] + 1
      BY <1>0, <1>9, <2>2 DEF DeleteOne, Goto, LocalTypes
    <3>2. Quiet(p, e)
      BY <1>0, <2>1, <3>1 DEF Quiet, ToSave, Saved
    <3> QED BY <3>2 DEF Moves
  <2>3. CASE ~ (i[p] < Len(entries[p])) /\ stream[p] = "player"
    <3>1. /\ pc'[p] = "delete" /\ stream'[p] = stream[p] /\ entries'[p] = entries[p]
      BY <1>0, <1>9, <2>3 DEF DeleteOne, Goto, LocalTypes, localVars
    <3>2. Quiet(p, e)
      BY <1>0, <2>1, <3>1 DEF Quiet, ToSave, Saved
    <3> QED BY <3>2 DEF Moves
  <2>4. CASE ~ (i[p] < Len(entries[p])) /\ stream[p] # "player"
    <3>1. EndOfPage(p, scan[p]) /\ stream[p] = "podcast"
      BY <1>0, <1>9, <2>4 DEF DeleteOne, Saving
    <3>2. Left(p)
      BY <2>1, <3>1, OwnScan, LeavingGood
    <3>3. ASSUME Saved(p, e) PROVE cache'[e] = 0
      <4>1. PICK j \in 1..Len(entries[p]) : entries[p][j] = e /\ j <= i[p]
        BY <2>1, <3>3 DEF Saved
      <4>2. CASE j = i[p]
        BY <1>0, <2>1, <3>1, <4>1, <4>2 DEF FallbackKey
      <4>3. CASE j # i[p]
        <5>1. j \in 1..(i[p] - 1)
          BY <1>0, <4>1, <4>3
        <5>2. cache[e] = 0 /\ e \in arrived
          BY <1>0, <1>1, <2>1, <3>1, <4>1, <5>1 DEF PorterOK, EntriesOK
        <5> QED BY <5>2 DEF SharedGood, Grows
      <4> QED BY <4>2, <4>3
    <3>4. Quiet(p, e)
      BY <2>1, <3>2, <3>3, LeftEmpty DEF Quiet
    <3> QED BY <3>4 DEF Moves
  <2> QED BY <2>2, <2>3, <2>4
<1>10. CASE DeleteBatch(p)
  <2>1. pc[p] = "delete" /\ copies' = copies /\ EndOfPage(p, scan[p])
    BY <1>10 DEF DeleteBatch, dbVars
  <2>2. Left(p)
    BY <2>1, OwnScan, LeavingGood
  <2>3. ASSUME Saved(p, e) PROVE cache'[e] = 0
    <3>1. PICK j \in 1..Len(entries[p]) : entries[p][j] = e
      BY <2>3 DEF Saved
    <3>2. e \in ToSet(entries[p]) /\ e \in ToSet(page[p])
      <4>1. PICK a \in 1..Len(page[p]) : page[p][a] = e
        BY <1>0, <3>1 DEF PorterOK, EntriesOK
      <4> QED BY <1>0, <3>1, <4>1 DEF ToSet
    <3> QED BY <1>0, <1>10, <3>2 DEF DeleteBatch
  <2>4. Quiet(p, e)
    BY <2>1, <2>2, <2>3, LeftEmpty DEF Quiet
  <2> QED BY <2>4 DEF Moves
<1>11. CASE DeleteBatchFails(p)
  BY <1>11 DEF DeleteBatchFails, Failure, dbVars, Moves, Failed
<1> QED BY <1>5, <1>6, <1>7, <1>8, <1>9, <1>10, <1>11 DEF PortEvents

LEMMA ReadMove ==
  ASSUME PortInv, SharedGood, NEW p \in Porters, NEW e \in Events,
         \/ ReadPlayerEvents(p) \/ ReadPodcastEvents(p) \/ ReadPhoneEvents(p)
         \/ AllCallsEnded(p) \/ Begin(p)
         \/ \E keys \in SetToAllKPermutations(Present(stream[p])), more \in BOOLEAN :
                Scan(p, keys, more)
  PROVE  Moves(p, e)
<1>0. /\ LocalTypes /\ copies' = copies
      /\ pc[p] \in {"idle", "scan", "read", "wait"}
      /\ ~ ToSave(p, e) /\ ~ Saved(p, e)
  <2>1. copies' = copies /\ pc[p] \in {"idle", "scan", "read", "wait"}
    BY DEF ReadPlayerEvents, ReadPodcastEvents, ReadPhoneEvents, AllCallsEnded, Begin, Scan, dbVars
  <2> QED BY <2>1 DEF PortInv, ToSave, Saved
<1>1. CASE cache[e] # 0
  BY <1>0, <1>1 DEF Moves, Taken
<1>2. CASE cache[e] = 0
  <2>1. ASSUME Left(p) PROVE ~ ToSave(p, e)'
    BY <2>1, LeftEmpty
  <2>2. ASSUME NEW S \in SUBSET Keys, e \notin S, NEW es \in SetToSeqs(S), entries'[p] = es
        PROVE  ~ ToSave(p, e)'
    <3>1. IsFiniteSet(S)
      BY KeysAssumption, FS_Subset
    <3>2. \A j \in 1..Len(es) : es[j] \in S
      BY <2>2, <3>1, PermutationProps
    <3> QED BY <2>2, <3>2 DEF ToSave
  <2>3. ASSUME pc'[p] \in {"read", "wait"} PROVE ~ ToSave(p, e)'
    BY <2>3 DEF ToSave
  <2>4. page[p] \in Seq(Keys)
    BY <1>0 DEF LocalTypes
  <2>5. CASE ReadPlayerEvents(p)
    <3> DEFINE S == {k \in ToSet(page[p]) : cache[k] # 0 /\ k \notin Unknown}
    <3>1. S \in SUBSET Keys /\ e \notin S
      BY <1>2, <2>4 DEF ToSet
    <3>2. PICK logs \in SetToSeqs(S) : entries'[p] = logs
      BY <1>0, <2>5 DEF ReadPlayerEvents, LocalTypes
    <3> HIDE DEF S
    <3>3. ~ ToSave(p, e)'
      BY <2>2, <3>1, <3>2
    <3> QED BY <1>0, <3>3 DEF Moves, Quiet
  <2>6. CASE ReadPodcastEvents(p)
    <3> DEFINE S == {k \in ToSet(page[p]) : cache[k] # 0}
    <3>1. S \in SUBSET Keys /\ e \notin S
      BY <1>2, <2>4 DEF ToSet
    <3>2. CASE S # {}
      <4>1. PICK es \in SetToSeqs(S) : entries'[p] = es
        BY <1>0, <2>6, <3>2 DEF ReadPodcastEvents, LocalTypes
      <4> HIDE DEF S
      <4>2. ~ ToSave(p, e)'
        BY <2>2, <3>1, <4>1
      <4> QED BY <1>0, <4>2 DEF Moves, Quiet
    <3>3. CASE S = {}
      <4>1. EndOfPage(p, scan[p]) /\ pc[p] # "idle"
        BY <2>6, <3>3 DEF ReadPodcastEvents
      <4>2. Left(p)
        BY <4>1, OwnScan, LeavingGood
      <4> QED BY <1>0, <2>1, <4>2 DEF Moves, Quiet
    <3> QED BY <3>2, <3>3
  <2>7. CASE ReadPhoneEvents(p)
    <3>1. pc'[p] = "wait"
      BY <1>0, <2>7 DEF ReadPhoneEvents, Goto, LocalTypes
    <3> QED BY <1>0, <2>3, <3>1 DEF Moves, Quiet
  <2>8. CASE AllCallsEnded(p)
    <3>1. Left(p)
      BY <2>8, OwnScan, LeavingGood DEF AllCallsEnded
    <3> QED BY <1>0, <2>1, <3>1 DEF Moves, Quiet
  <2>9. CASE Begin(p)
    <3>1. Left(p)
      BY <2>9, LeavingGood DEF Begin, Streams
    <3> QED BY <1>0, <2>1, <3>1 DEF Moves, Quiet
  <2>10. ASSUME NEW keys \in SetToAllKPermutations(Present(stream[p])), NEW more \in BOOLEAN,
                Scan(p, keys, more)
         PROVE  ~ ToSave(p, e)'
    <3>1. CASE keys # <<>>
      <4>1. pc'[p] = "read"
        BY <1>0, <2>10, <3>1 DEF Scan, Goto, LocalTypes
      <4> QED BY <2>3, <4>1
    <3>2. CASE keys = <<>>
      <4>1. LocalGood(p) /\ entries'[p] = <<>>
        <5>1. LocalGood(p)
          BY <2>10, ScanLocal
        <5>2. NextCommand(p) \/ EndOfPage(p, ScanReply(p, keys, more))
          BY <2>10, <3>2 DEF Scan
        <5>3. entries'[p] = <<>>
          BY <1>0, <5>2 DEF NextCommand, EndOfPage, Enter, LocalTypes
        <5> QED BY <5>1, <5>3
      <4> QED BY <4>1 DEF ToSave
    <3> QED BY <3>1, <3>2
  <2> QED BY <1>0, <2>5, <2>6, <2>7, <2>8, <2>9, <2>10 DEF Moves, Quiet
<1> QED BY <1>1, <1>2

LEMMA LoginMove ==
  ASSUME PortInv, NEW p \in Porters, NEW e \in Events,
         \/ ReadLogins(p) \/ UpdateLogin(p) \/ UpdateLoginFails(p)
         \/ stream[p] = "login" /\ DeleteLogin(p)
  PROVE  Moves(p, e)
<1>1. stream[p] = "login" /\ copies' = copies /\ LocalTypes
  BY DEF ReadLogins, UpdateLogin, UpdateLoginFails, DeleteLogin, dbVars, PortInv
<1>2. ~ ToSave(p, e) /\ ~ Saved(p, e)
  BY <1>1 DEF ToSave, Saved, Saving
<1>3. ~ ToSave(p, e)'
  <2>1. CASE stream' = stream
    BY <1>1, <2>1 DEF ToSave, Saving
  <2>2. CASE stream' # stream
    <3>1. EndOfPage(p, scan[p]) /\ pc[p] # "idle"
      BY <2>2 DEF ReadLogins, UpdateLogin, UpdateLoginFails, DeleteLogin, localVars
    <3> QED BY <3>1, OwnScan, LeavingGood, LeftEmpty
  <2> QED BY <2>1, <2>2
<1> QED BY <1>1, <1>2, <1>3 DEF Moves, Quiet

(* A step that moves no porter and copies nothing.                           *)
LEMMA StillCounts ==
  ASSUME PortInv, SharedGood, NEW e \in PlayerEvents \cup PodcastEvents, Counts(e),
         UNCHANGED <<pc, stream, entries, i>>, copies'[e] = copies[e],
         cache'[e] # 0 => cache[e] # 0 \/ e \notin arrived
  PROVE  Counts(e)'
<1>1. (Pending(e))' = Pending(e) /\ (Spent(e))' = Spent(e)
  BY DEF Pending, Spent, ToSave, Saved
<1>2. /\ failures \in Nat /\ failures' \in Nat /\ failures <= failures' /\ copies[e] \in Nat
      /\ arrived \subseteq arrived'
  BY PorterAssumption DEF PortInv, SharedGood, SharedTypes, Grows, Events
<1>3. /\ Cardinality(Pending(e)) \in Nat /\ Cardinality(Spent(e)) \in Nat
      /\ Cardinality(Porters) \in Nat
  <2>1. Pending(e) \in SUBSET Porters /\ Spent(e) \in SUBSET Porters
    BY DEF Pending, Spent
  <2>2. IsFiniteSet(Pending(e)) /\ IsFiniteSet(Spent(e)) /\ IsFiniteSet(Porters)
    BY <2>1, KeysAssumption, FS_Subset
  <2> QED BY <2>2, FS_CardinalityType
<1>4. e \notin arrived => copies[e] = 0
  BY <1>2 DEF Counts
<1> QED BY <1>1, <1>2, <1>3, <1>4 DEF Counts

LEMMA CountsNext ==
  ASSUME PortInv, CountsInv, Next, NEW e \in PlayerEvents \cup PodcastEvents
  PROVE  Counts(e)'
<1>0. /\ SharedGood /\ Counts(e) /\ e \in Events /\ e \notin PhoneEvents
      /\ cache'[e] # 0 => cache[e] # 0 \/ e \notin arrived
  <2>1. e \in Events /\ e \notin PhoneEvents
    BY KeysAssumption DEF Events
  <2> QED BY <2>1, SharedStep, KeysStep DEF CountsInv
<1>1. CASE (\E m \in Members : Login(m)) \/ (\E d \in Events : Arrive(d))
  <2>1. UNCHANGED <<pc, stream, entries, i, copies>>
    BY <1>1 DEF Login, Arrive, localVars, dbVars
  <2> QED BY <1>0, <2>1, StillCounts
<1>2. ASSUME NEW p \in Porters, NEW d \in PhoneEvents, Call(p, d)
      PROVE  Counts(e)'
  <2>1. UNCHANGED <<pc, stream, entries, i>>
    BY <1>2 DEF Call, WriteNotes, WriteNotesFails, DeletePhoneKey, EndCall, localVars
  <2>2. copies'[e] = copies[e]
    <3>1. EndCall(p, d) => copies' = copies \/ AddCopies({d})
      BY DEF EndCall
    <3>2. AddCopies({d}) => copies'[e] = copies[e]
      BY <1>0 DEF AddCopies
    <3> QED BY <1>2, <3>1, <3>2 DEF Call, WriteNotes, WriteNotesFails, DeletePhoneKey, dbVars
  <2> QED BY <1>0, <2>1, <2>2, StillCounts
<1>3. ASSUME NEW p \in Porters, Alone(p), Moves(p, e), ~ \E d \in Events : Arrive(d)
      PROVE  Counts(e)'
  <2>1. cache'[e] # 0 => cache[e] # 0
    BY <1>0, <1>3, KeysStep
  <2> QED BY <1>0, <1>3, <2>1, CountStep
<1>4. CASE ~ \E d \in Events : Arrive(d)
  <2>1. ASSUME NEW p \in Porters, PortEvents(p) PROVE Counts(e)'
    BY <1>0, <1>3, <1>4, <2>1, EventsMove, EventsLocal DEF LocalGood
  <2>2. ASSUME NEW p \in Porters,
               \/ ReadPlayerEvents(p) \/ ReadPodcastEvents(p) \/ ReadPhoneEvents(p)
               \/ AllCallsEnded(p) \/ Begin(p)
        PROVE  Counts(e)'
    <3>1. Moves(p, e)
      BY <1>0, <2>2, ReadMove
    <3> QED BY <1>0, <1>3, <1>4, <2>2, <3>1, ReadLocal DEF LocalGood
  <2>3. ASSUME NEW p \in Porters, NEW keys \in SetToAllKPermutations(Present(stream[p])),
               NEW more \in BOOLEAN, Scan(p, keys, more)
        PROVE  Counts(e)'
    <3>1. Moves(p, e)
      BY <1>0, <2>3, ReadMove
    <3> QED BY <1>0, <1>3, <1>4, <2>3, <3>1, ScanLocal DEF LocalGood
  <2>4. ASSUME NEW p \in Porters,
               \/ ReadLogins(p) \/ UpdateLogin(p) \/ UpdateLoginFails(p)
               \/ stream[p] = "login" /\ DeleteLogin(p)
        PROVE  Counts(e)'
    <3>1. Moves(p, e)
      BY <1>0, <2>4, LoginMove
    <3> QED BY <1>0, <1>3, <1>4, <2>4, <3>1, LoginLocal DEF LocalGood
  <2>5. ASSUME NEW p \in Porters, Port(p) PROVE Counts(e)'
    BY <1>2, <2>1, <2>2, <2>3, <2>4, <2>5 DEF Port
  <2>6. ASSUME NEW p \in Porters, Throws(p) \/ Die(p) \/ \E d \in PhoneEvents : CallThrows(p, d)
        PROVE  Counts(e)'
    <3>1. Moves(p, e)
      BY <2>6 DEF Throws, Die, CallThrows, Failure, dbVars, Moves, Failed
    <3>2. Alone(p)
      <4>1. CASE UNCHANGED <<pc, localVars>>
        BY <4>1 DEF localVars, Alone, SameLocals
      <4>2. CASE pc[p] # "idle" /\ NextCommand(p)
        BY <4>2, LeavingGood DEF LocalGood
      <4>3. CASE Enter(p, "none")
        BY <4>3, LeavingGood DEF LocalGood, Streams
      <4> QED BY <2>6, <4>1, <4>2, <4>3 DEF Throws, Die, CallThrows
    <3> QED BY <1>3, <1>4, <3>1, <3>2
  <2> QED BY <1>1, <2>5, <2>6 DEF Next
<1> QED BY <1>1, <1>4

LEMMA PhoneCountsNext ==
  ASSUME PortInv, CountsInv, Next, NEW e \in PhoneEvents
  PROVE  PhoneCounts(e)'
<1> DEFINE A == Active(e)
           A2 == {q \in Porters : calls'[q][e] \in {"open", "written", "committing"}}
           N == Cardinality(Porters)
<1>0. /\ SharedGood /\ PhoneCounts(e) /\ e \in Events
      /\ e \notin PlayerEvents \cup PodcastEvents
      /\ cache'[e] # 0 => cache[e] # 0 \/ e \notin arrived
  <2>1. e \in Events /\ e \notin PlayerEvents \cup PodcastEvents
    BY KeysAssumption DEF Events
  <2> QED BY <2>1, SharedStep, KeysStep DEF CountsInv
<1>1. /\ calls \in [Porters -> [PhoneEvents -> CallStates]] /\ copies[e] \in Nat
      /\ N \in Nat /\ IsFiniteSet(Porters) /\ arrived \subseteq arrived'
  BY <1>0, KeysAssumption, FS_CardinalityType DEF PortInv, SharedTypes, SharedGood, Grows
<1>2. A \in SUBSET Porters /\ A2 \in SUBSET Porters /\ (Active(e))' = A2
      /\ Cardinality(A2) <= N /\ Cardinality(A) \in Nat /\ Cardinality(A2) \in Nat
  <2>1. A \in SUBSET Porters /\ A2 \in SUBSET Porters /\ (Active(e))' = A2
    BY DEF Active
  <2>2. Cardinality(A2) <= N /\ IsFiniteSet(A2) /\ IsFiniteSet(A)
    BY <1>1, <2>1, FS_Subset
  <2>3. Cardinality(A2) \in Nat /\ Cardinality(A) \in Nat
    BY <2>2, FS_CardinalityType
  <2> QED BY <2>1, <2>2, <2>3
<1>3. /\ copies[e] + Cardinality(A) <= N
      /\ cache[e] # 0 => copies[e] = 0
      /\ copies[e] > 0 => e \in arrived
  BY <1>0 DEF PhoneCounts
(* No copy, and nobody becomes active.                                       *)
<1>4. ASSUME copies'[e] = copies[e],
             \A q \in Porters : calls'[q][e] \in {"open", "written", "committing"} =>
                                    calls[q][e] \in {"open", "written", "committing"}
      PROVE  PhoneCounts(e)'
  <2>1. A2 \subseteq A
    BY <1>4 DEF Active
  <2>2. Cardinality(A2) <= Cardinality(A)
    <3>1. IsFiniteSet(A)
      BY <1>1, <1>2, FS_Subset
    <3> QED BY <2>1, <3>1, FS_Subset
  <2>3. e \notin arrived => copies[e] = 0
    BY <1>1, <1>3
  <2> HIDE DEF A, A2, N
  <2> QED BY <1>0, <1>1, <1>2, <1>3, <1>4, <2>2, <2>3 DEF PhoneCounts, N
<1>5. ASSUME NEW p \in Porters, PortEvents(p) PROVE copies'[e] = copies[e] /\ calls' = calls
  <2>1. \A j \in 1..Len(entries[p]) : entries[p][j] # e
    <3>1. entries[p] \in Seq(KeysOf[stream[p]]) /\ stream[p] \in Saving
      BY <1>5 DEF PortInv, PlacesInv, EntriesOK, PortEvents, Saving
    <3>2. entries[p] \in Seq(PlayerEvents \cup PodcastEvents)
      BY <3>1, StreamsAre DEF Saving
    <3> QED BY <1>0, <3>2
  <2>2. \A es : AddCopies(es) => copies'[e] = IF e \in es THEN copies[e] + 1 ELSE copies[e]
    BY <1>0 DEF AddCopies
  <2>3. e \notin ToSet(entries[p]) /\ e \notin Kept(ToSet(entries[p]))
    BY <2>1 DEF ToSet, Kept, PortInv, LocalTypes
  <2>4. pc[p] = "fallback" => i[p] \in 1..Len(entries[p])
    BY <1>5 DEF PortInv, PlacesInv, EntriesOK, PortEvents, Saving
  <2> QED BY <1>5, <2>1, <2>2, <2>3, <2>4
          DEF PortEvents, SaveBatch, SaveBatchFails, SaveOne, SaveOneFails, DeleteOne,
              DeleteBatch, DeleteBatchFails, dbVars
<1>6. ASSUME NEW p \in Porters, ReadPhoneEvents(p) PROVE PhoneCounts(e)'
  <2>1. copies' = copies /\ cache' = cache /\ arrived' = arrived
    BY <1>6 DEF ReadPhoneEvents, dbVars, redisVars, historyVars
  <2>2. CASE cache[e] # 0
    BY <1>2, <1>3, <2>1, <2>2 DEF PhoneCounts
  <2>3. CASE cache[e] = 0
    BY <1>1, <1>4, <1>6, <2>1, <2>3 DEF ReadPhoneEvents
  <2> QED BY <2>2, <2>3
<1>7. ASSUME NEW p \in Porters, NEW d \in PhoneEvents, Call(p, d) PROVE PhoneCounts(e)'
  <2>1. CASE WriteNotes(p, d) \/ WriteNotesFails(p, d) \/ DeletePhoneKey(p, d)
    <3>1. copies' = copies
      BY <2>1 DEF WriteNotes, WriteNotesFails, DeletePhoneKey, dbVars
    <3>2. \A q \in Porters : calls'[q][e] \in {"open", "written", "committing"} =>
                                    calls[q][e] \in {"open", "written", "committing"}
      BY <1>1, <2>1 DEF WriteNotes, WriteNotesFails, DeletePhoneKey, SetCall
    <3> QED BY <1>4, <3>1, <3>2
  <2>2. CASE EndCall(p, d) /\ ~ (d = e /\ calls[p][e] = "committing")
    <3>1. AddCopies({d}) /\ d # e => copies'[e] = copies[e]
      BY <1>0 DEF AddCopies
    <3>2. copies'[e] = copies[e]
      BY <2>2, <3>1 DEF EndCall
    <3>3. \A q \in Porters : calls'[q][e] \in {"open", "written", "committing"} =>
                                    calls[q][e] \in {"open", "written", "committing"}
      BY <1>1, <2>2 DEF EndCall, SetCall
    <3> QED BY <1>4, <3>2, <3>3
  <2>3. CASE EndCall(p, d) /\ d = e /\ calls[p][e] = "committing"
    <3>1. copies'[e] = copies[e] + 1 /\ cache' = cache /\ arrived' = arrived
      BY <1>0, <2>3 DEF EndCall, AddCopies, redisVars, historyVars
    <3>2. e \in arrived /\ cache[e] = 0
      BY <2>3 DEF PortInv, PlacesInv, CallOK
    <3>3. A2 \subseteq A /\ p \in A /\ p \notin A2
      BY <1>1, <2>3 DEF EndCall, SetCall, Active
    <3>4. Cardinality(A2) + 1 <= Cardinality(A)
      BY <1>1, <1>2, <3>3, CardGrows
    <3> HIDE DEF A, A2, N
    <3> QED BY <1>1, <1>2, <1>3, <3>1, <3>2, <3>4 DEF PhoneCounts, N
  <2> QED BY <1>7, <2>1, <2>2, <2>3 DEF Call
<1>8. ASSUME NEW p \in Porters, Port(p) PROVE PhoneCounts(e)'
  <2>1. CASE \/ Begin(p) \/ ReadLogins(p) \/ UpdateLogin(p) \/ UpdateLoginFails(p) \/ DeleteLogin(p)
             \/ ReadPlayerEvents(p) \/ ReadPodcastEvents(p) \/ AllCallsEnded(p)
             \/ \E keys \in SetToAllKPermutations(Present(stream[p])), more \in BOOLEAN :
                    Scan(p, keys, more)
    <3>1. copies' = copies /\ calls' = calls
      BY <2>1 DEF Begin, Scan, ReadLogins, UpdateLogin, UpdateLoginFails, DeleteLogin,
            ReadPlayerEvents, ReadPodcastEvents, AllCallsEnded, dbVars
    <3> QED BY <1>4, <3>1
  <2>2. CASE PortEvents(p)
    BY <1>4, <1>5, <2>2
  <2> QED BY <1>6, <1>7, <1>8, <2>1, <2>2 DEF Port
<1>9. ASSUME NEW p \in Porters, Throws(p) \/ Die(p) \/ \E d \in PhoneEvents : CallThrows(p, d)
      PROVE  PhoneCounts(e)'
  <2>1. copies' = copies
    BY <1>9 DEF Throws, Die, CallThrows, dbVars
  <2>2. \A q \in Porters : calls'[q][e] = calls[q][e] \/ calls'[q][e] = "none"
    BY <1>1, <1>9 DEF Throws, Die, CallThrows, SetCall, NoCalls
  <2> QED BY <1>4, <2>1, <2>2
<1>10. CASE (\E m \in Members : Login(m)) \/ (\E d \in Events : Arrive(d))
  <2>1. copies' = copies /\ calls' = calls
    BY <1>10 DEF Login, Arrive, dbVars
  <2> QED BY <1>4, <2>1
<1> QED BY <1>8, <1>9, <1>10 DEF Next

(* Nothing leaves Redis untried, and no event is saved more often than there *)
(* are porters and failures (EventsSavedOnce).                               *)
THEOREM PorterSavesEvents == Spec => []EventsSavedOnce
<1> DEFINE Inv == PortInv /\ NothingDropped /\ CountsInv
<1>1. Init => Inv
  <2> SUFFICES ASSUME Init PROVE Inv
    OBVIOUS
  <2>1. NothingDropped
    BY DEF Init, NothingDropped
  <2>2. CountsInv
    <3>1. \A e \in Events : Pending(e) = {} /\ copies[e] = 0 /\ cache[e] = 0
      BY DEF Init, Pending, ToSave, Saving, Keys
    <3>2. \A e \in PhoneEvents : Active(e) = {}
      BY DEF Init, Active, NoCalls
    <3>3. Cardinality({}) = 0 /\ Cardinality(Porters) \in Nat /\ failures = 0
      BY KeysAssumption, FS_EmptySet, FS_CardinalityType DEF Init
    <3>4. ASSUME NEW e \in PlayerEvents \cup PodcastEvents PROVE Counts(e)
      <4>1. e \in Events
        BY DEF Events
      <4>2. Cardinality(Pending(e)) = 0 /\ copies[e] = 0 /\ cache[e] = 0
        BY <3>1, <3>3, <4>1
      <4> QED BY <3>3, <4>2 DEF Counts
    <3>5. ASSUME NEW e \in PhoneEvents PROVE PhoneCounts(e)
      <4>1. e \in Events
        BY DEF Events
      <4>2. Cardinality(Active(e)) = 0 /\ copies[e] = 0
        BY <3>1, <3>2, <3>3, <4>1
      <4> QED BY <3>3, <4>2 DEF PhoneCounts
    <3> QED BY <3>4, <3>5 DEF CountsInv
  <2> QED BY <2>1, <2>2, PlacesInit
<1>2. Inv /\ [Next]_vars => Inv'
  <2> SUFFICES ASSUME Inv, [Next]_vars PROVE Inv'
    OBVIOUS
  <2>1. CASE Next
    <3>1. CountsInv'
      BY <2>1, CountsNext, PhoneCountsNext DEF CountsInv
    <3> QED BY <2>1, <3>1, PlacesNext, DroppedNext
  <2>2. CASE UNCHANGED vars
    <3>1. PortInv'
      BY <2>2, PlacesStill
    <3>2. NothingDropped'
      BY <2>2 DEF NothingDropped, Tried, vars, redisVars, dbVars, historyVars
    <3>3. CountsInv'
      BY <2>2 DEF CountsInv, Counts, PhoneCounts, Pending, Spent, Active, ToSave, Saved, vars,
                  redisVars, dbVars, localVars, historyVars
    <3> QED BY <3>1, <3>2, <3>3
  <2> QED BY <2>1, <2>2
<1>3. Inv => EventsSavedOnce
  <2> SUFFICES ASSUME Inv PROVE EventsSavedOnce
    OBVIOUS
  <2>1. \A e \in arrived : cache[e] = 0 =>
        \/ copies[e] > 0 \/ e \in refused \/ e \in Unknown
        \/ e \in PhoneEvents /\ (failures > 0 \/ \E p \in Porters : calls[p][e] = "committing")
    BY DEF NothingDropped, Tried
  <2>2. \A e \in Events :
          copies[e] <= Cardinality(Porters) + IF e \in PhoneEvents THEN 0 ELSE failures
    <3> SUFFICES ASSUME NEW e \in Events
                 PROVE  copies[e] <= Cardinality(Porters) + IF e \in PhoneEvents THEN 0 ELSE failures
      OBVIOUS
    <3>1. /\ Cardinality(Pending(e)) \in Nat /\ Cardinality(Porters) \in Nat
          /\ Cardinality(Active(e)) \in Nat /\ copies[e] \in Nat /\ failures \in Nat
      <4>1. Pending(e) \in SUBSET Porters /\ Active(e) \in SUBSET Porters
        BY DEF Pending, Active
      <4>2. IsFiniteSet(Pending(e)) /\ IsFiniteSet(Active(e)) /\ IsFiniteSet(Porters)
        BY <4>1, KeysAssumption, FS_Subset
      <4>3. /\ Cardinality(Pending(e)) \in Nat /\ Cardinality(Porters) \in Nat
            /\ Cardinality(Active(e)) \in Nat
        BY <4>2, FS_CardinalityType
      <4> QED BY <4>3, PorterAssumption DEF PortInv, SharedTypes
    <3>2. CASE e \in PhoneEvents
      <4>1. PhoneCounts(e)
        BY <3>2 DEF CountsInv
      <4> QED BY <3>1, <3>2, <4>1 DEF PhoneCounts
    <3>3. CASE e \notin PhoneEvents
      <4>1. Counts(e)
        BY <3>3 DEF CountsInv, Events
      <4> QED BY <3>1, <3>3, <4>1 DEF Counts
    <3> QED BY <3>2, <3>3
  <2> QED BY <2>1, <2>2 DEF EventsSavedOnce
<1> QED BY <1>1, <1>2, <1>3, PTL DEF Spec

-----------------------------------------------------------------------------
(* The dates of the logins.                                                  *)

SameDates(m) ==
    /\ cache'[m] = cache[m] /\ loginedAt'[m] = loginedAt[m] /\ lastLogin'[m] = lastLogin[m]
    /\ m \in missed => m \in missed'

(* Neither the dates of m nor who holds one changes.                         *)
LEMMA DatesKept ==
  ASSUME NEW m \in Members, DateOK(m), SameDates(m),
         \A q \in Porters : SameLocals(q) \/ ~ Holding(q, m)'
  PROVE  DateOK(m)'
BY DEF DateOK, SameDates, SameLocals, Holding

(* Who leaves a page of logins holds none.                                   *)
LEMMA LeftHolds ==
  ASSUME LocalTypes, NEW p \in Porters, NEW m \in Members, Left(p)
  PROVE  ~ Holding(p, m)'
<1>1. pc'[p] \in {"idle", "scan"}
  BY DEF Left, LocalTypes
<1> QED BY <1>1 DEF Holding

LEMMA LoginDates ==
  ASSUME NEW m \in Members, NEW n \in Members, PortInv, DateOK(m), Login(n)
  PROVE  DateOK(m)'
<1>1. /\ cache \in [Keys -> 0..MaxLogins] /\ lastLogin \in [Members -> 0..MaxLogins]
      /\ m \in Keys /\ UNCHANGED <<pc, stream, page, i, logins, loginedAt>>
      /\ cache' = [cache EXCEPT ![n] = lastLogin[n] + 1]
      /\ lastLogin' = [lastLogin EXCEPT ![n] = @ + 1]
  BY DEF PortInv, SharedTypes, Login, Keys, localVars, dbVars
<1>2. CASE n # m
  <2>1. SameDates(m)
    BY <1>1, <1>2 DEF SameDates, Login
  <2> QED BY <1>1, <2>1 DEF DateOK, SameDates, Holding
<1>3. CASE n = m
  <2>1. cache'[m] = lastLogin'[m] /\ cache'[m] # 0
    BY <1>1, <1>3, PorterAssumption
  <2>2. m \notin missed' => \A p \in Porters : ~ Holding(p, m)
    BY <1>3 DEF Login, Holding
  <2>3. m \notin missed' => \A p \in Porters : ~ Holding(p, m)'
    BY <1>1, <2>2 DEF Holding
  <2> QED BY <2>1, <2>3 DEF DateOK
<1> QED BY <1>2, <1>3

LEMMA PortLoginDates ==
  ASSUME NEW m \in Members, PortInv, DateOK(m), SharedGood, NEW p \in Porters,
         \/ ReadLogins(p) \/ UpdateLogin(p) \/ UpdateLoginFails(p)
         \/ stream[p] = "login" /\ DeleteLogin(p)
  PROVE  DateOK(m)'
<1>0. /\ LocalTypes /\ SharedTypes /\ PorterOK(p) /\ stream[p] = "login" /\ m \in Keys
      /\ Alone(p)
  BY LoginLocal DEF PortInv, PlacesInv, PorterOK, ReadLogins, UpdateLogin, UpdateLoginFails,
                    Keys, LocalGood
<1>1. /\ page[p] \in Seq(Members) /\ i[p] \in Nat
      /\ pc[p] \in {"read", "save", "deleteOne"} => i[p] \in 1..Len(page[p])
  BY <1>0, StreamsAre DEF PorterOK, PageOK, LocalTypes
<1>2. \A q \in Porters \ {p} : SameLocals(q)
  BY <1>0 DEF Alone
<1>3. pc[p] \in {"save", "deleteOne"} /\ page[p][i[p]] = m => Holding(p, m)
  <2>1. i[p] \in 1..Len(page[p]) => i[p] \in i[p]..Len(page[p])
    BY <1>1
  <2> QED BY <1>0, <1>1, <2>1 DEF Holding
<1>4. CASE ReadLogins(p)
  <2>1. /\ UNCHANGED <<stream, page, i, cache, loginedAt, lastLogin>>
        /\ missed' = missed \cup {k \in ToSet(page[p]) : cache[k] = 0}
        /\ pc'[p] = "save"
        /\ logins'[p] = [k \in Members |-> IF k \in ToSet(page[p]) THEN cache[k] ELSE 0]
    BY <1>0, <1>4 DEF ReadLogins, Goto, LocalTypes, redisVars, dbVars
  <2>2. ASSUME m \notin missed', Holding(p, m)' PROVE logins'[p][m] = lastLogin[m]
    <3>1. PICK j \in i[p]..Len(page[p]) : page[p][j] = m
      BY <2>1, <2>2 DEF Holding
    <3>2. j \in 1..Len(page[p])
      BY <1>1, <3>1, <1>4 DEF ReadLogins
    <3>3. m \in ToSet(page[p])
      BY <1>1, <3>1, <3>2 DEF ToSet
    <3>4. cache[m] # 0
      BY <2>1, <2>2, <3>3
    <3> QED BY <2>1, <3>3, <3>4 DEF DateOK
  <2>3. \A q \in Porters \ {p} : Holding(q, m)' =>
            Holding(q, m) /\ logins'[q] = logins[q] /\ pc'[q] = pc[q]
    BY <1>2 DEF SameLocals, Holding
  <2> QED BY <2>1, <2>2, <2>3 DEF DateOK
<1>5. CASE UpdateLogin(p)
  <2>1. /\ UNCHANGED <<stream, page, i, cache, lastLogin, missed, logins>>
        /\ loginedAt' = [loginedAt EXCEPT ![page[p][i[p]]] = logins[p][page[p][i[p]]]]
        /\ pc[p] = "save" /\ pc'[p] = "deleteOne"
    BY <1>0, <1>5 DEF UpdateLogin, LoginAt, Goto, LocalTypes, redisVars, localVars, historyVars
  <2>2. \A q \in Porters : /\ Holding(q, m)' <=> Holding(q, m)
                           /\ q # p => pc'[q] = pc[q]
    BY <1>0, <1>2, <2>1 DEF SameLocals, Holding
  <2>3. CASE page[p][i[p]] = m
    <3>1. Holding(p, m) /\ loginedAt'[m] = logins[p][m]
      BY <1>0, <1>3, <2>1, <2>3 DEF SharedTypes
    <3>2. m \notin missed => loginedAt'[m] = lastLogin[m]
      BY <3>1 DEF DateOK
    <3> QED BY <2>1, <2>2, <3>2 DEF DateOK
  <2>4. CASE page[p][i[p]] # m
    <3>1. loginedAt'[m] = loginedAt[m]
      BY <1>0, <2>1, <2>4 DEF SharedTypes
    <3> QED BY <2>1, <2>2, <2>4, <3>1 DEF DateOK
  <2> QED BY <2>3, <2>4
<1>6. CASE UpdateLoginFails(p)
  <2>1. /\ UNCHANGED <<stream, page, i, cache, lastLogin, loginedAt, logins>>
        /\ missed' = missed \cup {page[p][i[p]]} /\ pc[p] = "save"
    BY <1>6 DEF UpdateLoginFails, redisVars, localVars, dbVars
  <2>2. \A q \in Porters : /\ Holding(q, m)' <=> Holding(q, m)
                           /\ q # p => pc'[q] = pc[q]
    <3>1. pc'[p] = "deleteOne"
      BY <1>0, <1>6 DEF UpdateLoginFails, Goto, LocalTypes
    <3> QED BY <1>0, <1>2, <2>1, <3>1 DEF SameLocals, Holding
  <2> QED BY <2>1, <2>2 DEF DateOK
<1>7. CASE DeleteLogin(p)
  <2>1. /\ UNCHANGED <<loginedAt, lastLogin, missed>> /\ pc[p] = "deleteOne"
        /\ cache' = [cache EXCEPT ![page[p][i[p]]] = 0]
    BY <1>7 DEF DeleteLogin, dbVars, historyVars
  <2>2. /\ cache'[m] \in {cache[m], 0}
        /\ cache'[m] # cache[m] => page[p][i[p]] = m
    BY <1>0, <2>1 DEF SharedTypes
  <2>3. cache'[m] = 0 /\ m \notin missed => loginedAt[m] = lastLogin[m]
    BY <1>3, <2>1, <2>2 DEF DateOK
  <2>4. Holding(p, m)' => Holding(p, m) /\ logins'[p] = logins[p] /\ pc'[p] = "save"
    <3>1. CASE i[p] = Len(page[p])
      <4>1. EndOfPage(p, scan[p])
        BY <1>7, <3>1 DEF DeleteLogin
      <4>2. Left(p)
        BY <2>1, <4>1, OwnScan, LeavingGood
      <4>3. pc'[p] \in {"idle", "scan"}
        BY <1>0, <4>2 DEF Left, LocalTypes
      <4> QED BY <4>3 DEF Holding
    <3>2. CASE i[p] # Len(page[p])
      <4>1. i'[p] = i[p] + 1 /\ pc'[p] = "save" /\ UNCHANGED <<stream, page, logins>>
        BY <1>0, <1>7, <3>2 DEF DeleteLogin, Goto, LocalTypes
      <4>2. \A j \in (i[p] + 1)..Len(page[p]) : j \in i[p]..Len(page[p])
        BY <1>1
      <4> QED BY <1>0, <2>1, <4>1, <4>2 DEF Holding
    <3> QED BY <3>1, <3>2
  <2>5. \A q \in Porters \ {p} : Holding(q, m)' =>
            /\ Holding(q, m) /\ logins'[q] = logins[q] /\ pc'[q] = pc[q]
            /\ page'[q] = page[q] /\ i'[q] = i[q]
    BY <1>2 DEF SameLocals, Holding
  <2> QED BY <2>1, <2>2, <2>3, <2>4, <2>5 DEF DateOK
<1> QED BY <1>0, <1>4, <1>5, <1>6, <1>7

(* The other commands touch neither a date nor the key of a login.           *)
LEMMA EventsDates ==
  ASSUME NEW m \in Members, PortInv, DateOK(m), SharedGood, NEW p \in Porters, PortEvents(p)
  PROVE  DateOK(m)'
<1>0. /\ LocalTypes /\ SharedTypes /\ PorterOK(p) /\ stream[p] \in Saving /\ m \in Keys /\ m \notin Events
      /\ Alone(p) /\ page[p] \in Seq(Keys) /\ entries[p] \in Seq(Keys) /\ i[p] \in Nat
  BY EventsLocal, KeysAssumption
     DEF PortInv, PlacesInv, PorterOK, PortEvents, Saving, Keys, LocalGood, LocalTypes
<1>1. /\ \A a \in 1..Len(page[p]) : page[p][a] # m
      /\ \A j \in 1..Len(entries[p]) : entries[p][j] # m
  <2>1. KeysOf[stream[p]] \subseteq Events
    BY <1>0, StreamsAre DEF Saving, Events
  <2>2. page[p] \in Seq(Events) /\ entries[p] \in Seq(Events)
    BY <1>0, <2>1 DEF PorterOK, PageOK, EntriesOK
  <2> QED BY <1>0, <2>2
<1>2. cache'[m] = cache[m]
  <2>1. CASE DeleteOne(p)
    <3>1. pc[p] = "deleteOne" /\ cache' = [cache EXCEPT ![FallbackKey(p)] = 0]
      BY <2>1 DEF DeleteOne
    <3>2. i[p] \in 1..Len(entries[p])
      BY <1>0, <3>1 DEF PorterOK, EntriesOK
    <3>3. stream[p] = "player" => i[p] \in 1..Len(page[p])
      <4>1. stream[p] = "player" => \E a \in 1..Len(page[p]) : i[p] <= a
        BY <1>0, <3>2 DEF PorterOK, EntriesOK
      <4> QED BY <1>0, <3>2, <4>1
    <3>4. FallbackKey(p) # m
      BY <1>1, <3>2, <3>3 DEF FallbackKey
    <3> QED BY <1>0, <3>1, <3>4 DEF SharedTypes
  <2>2. CASE DeleteBatch(p)
    <3>1. m \notin ToSet(page[p]) /\ m \notin ToSet(entries[p])
      BY <1>0, <1>1 DEF ToSet
    <3> QED BY <1>0, <2>2, <3>1 DEF DeleteBatch
  <2> QED BY <2>1, <2>2 DEF PortEvents, SaveBatch, SaveBatchFails, SaveOne, SaveOneFails,
                           DeleteBatchFails, redisVars
<1>3. SameDates(m)
  BY <1>2 DEF SameDates, PortEvents, SaveBatch, SaveBatchFails, SaveOne, SaveOneFails, DeleteOne,
              DeleteBatch, DeleteBatchFails, dbVars, historyVars
<1>4. ~ Holding(p, m)'
  <2>1. CASE stream' = stream
    BY <1>0, <2>1 DEF Holding, Saving
  <2>2. CASE stream' # stream
    <3>1. EndOfPage(p, scan[p]) /\ pc[p] # "idle"
      BY <2>2 DEF PortEvents, SaveBatch, SaveBatchFails, SaveOne, SaveOneFails, DeleteOne,
              DeleteBatch, DeleteBatchFails, localVars
    <3>2. Left(p)
      BY <3>1, OwnScan, LeavingGood
    <3> QED BY <1>0, <3>2, LeftHolds
  <2> QED BY <2>1, <2>2
<1> QED BY <1>0, <1>3, <1>4, DatesKept DEF Alone

LEMMA OtherDates ==
  ASSUME NEW m \in Members, PortInv, DateOK(m), SharedGood, NEW p \in Porters,
         \/ ReadPlayerEvents(p) \/ ReadPodcastEvents(p) \/ ReadPhoneEvents(p)
         \/ AllCallsEnded(p) \/ Begin(p) \/ Throws(p) \/ Die(p)
         \/ \E keys \in SetToAllKPermutations(Present(stream[p])), more \in BOOLEAN :
                Scan(p, keys, more)
         \/ \E d \in PhoneEvents : Call(p, d) \/ CallThrows(p, d)
  PROVE  DateOK(m)'
<1>0. LocalTypes /\ SharedTypes /\ m \in Keys /\ m \notin Events
  BY KeysAssumption DEF PortInv, Keys
<1>1. SameDates(m)
  <2>1. ASSUME NEW d \in PhoneEvents, Call(p, d) \/ CallThrows(p, d)
        PROVE  cache'[m] = cache[m]
    <3>1. d # m
      BY <1>0 DEF Events
    <3> QED BY <1>0, <2>1, <3>1
            DEF Call, WriteNotes, WriteNotesFails, DeletePhoneKey, EndCall, CallThrows, redisVars,
                SharedTypes
  <2>2. ASSUME NEW d \in PhoneEvents, Call(p, d) \/ CallThrows(p, d)
        PROVE  SameDates(m)
    BY <2>1, <2>2 DEF SameDates, Call, WriteNotes, WriteNotesFails, DeletePhoneKey, EndCall,
                CallThrows, dbVars, historyVars
  <2>3. ASSUME NEW keys, NEW more, Scan(p, keys, more) PROVE SameDates(m)
    BY <2>3 DEF SameDates, Scan, redisVars, dbVars, historyVars
  <2> QED BY <2>2, <2>3 DEF SameDates, ReadPlayerEvents, ReadPodcastEvents, ReadPhoneEvents,
           AllCallsEnded, Begin, Throws, Die, redisVars, dbVars, historyVars
<1>2. ASSUME NEW l \in PCs \ {"save", "deleteOne"}, LocalGood(p), pc'[p] = l
      PROVE  DateOK(m)'
  <2>1. ~ Holding(p, m)'
    BY <1>2 DEF Holding
  <2> QED BY <1>1, <1>2, <2>1, DatesKept DEF LocalGood, Alone
<1>3. ASSUME LocalGood(p), stream'[p] # "login" PROVE DateOK(m)'
  <2>1. ~ Holding(p, m)'
    BY <1>3 DEF Holding
  <2> QED BY <1>1, <1>3, <2>1, DatesKept DEF LocalGood, Alone
<1>4. ASSUME UNCHANGED <<pc, localVars>> PROVE DateOK(m)'
  BY <1>1, <1>4, DatesKept DEF localVars, SameLocals
<1>5. ASSUME LocalGood(p), Left(p) PROVE DateOK(m)'
  BY <1>0, <1>1, <1>5, LeftHolds, DatesKept DEF LocalGood, Alone
<1>6. CASE ReadPlayerEvents(p) \/ ReadPodcastEvents(p)
  <2>1. LocalGood(p)
    BY <1>6, ReadLocal
  <2>2. CASE stream' = stream
    <3>1. stream'[p] # "login"
      BY <1>6, <2>2 DEF ReadPlayerEvents, ReadPodcastEvents
    <3> QED BY <1>3, <2>1, <3>1
  <2>3. CASE stream' # stream
    <3>1. EndOfPage(p, scan[p]) /\ pc[p] # "idle"
      BY <1>6, <2>3 DEF ReadPlayerEvents, ReadPodcastEvents
    <3> QED BY <1>5, <3>1, OwnScan, LeavingGood
  <2> QED BY <2>2, <2>3
<1>7. CASE ReadPhoneEvents(p)
  <2>1. stream'[p] = "phone"
    BY <1>7 DEF ReadPhoneEvents, localVars
  <2> QED BY <1>3, <1>7, <2>1, ReadLocal
<1>8. CASE AllCallsEnded(p)
  BY <1>5, <1>8, OwnScan, LeavingGood DEF AllCallsEnded
<1>9. CASE Begin(p)
  BY <1>5, <1>9, LeavingGood DEF Begin, Streams
<1>10. CASE Throws(p)
  BY <1>5, <1>10, LeavingGood DEF Throws
<1>11. CASE Die(p)
  BY <1>5, <1>11, LeavingGood DEF Die, Streams
<1>12. ASSUME NEW d \in PhoneEvents, Call(p, d) \/ CallThrows(p, d) PROVE DateOK(m)'
  <2>1. CASE Call(p, d)
    BY <1>4, <2>1 DEF Call, WriteNotes, WriteNotesFails, DeletePhoneKey, EndCall
  <2>2. CASE CallThrows(p, d)
    BY <1>4, <1>5, <2>2, LeavingGood DEF CallThrows
  <2> QED BY <1>12, <2>1, <2>2
<1>13. ASSUME NEW keys \in SetToAllKPermutations(Present(stream[p])), NEW more \in BOOLEAN,
              Scan(p, keys, more)
       PROVE  DateOK(m)'
  <2>1. LocalGood(p)
    BY <1>13, ScanLocal
  <2>2. pc'[p] \in {"scan", "read", "idle"}
    BY <1>0, <1>13 DEF Scan, Goto, NextCommand, EndOfPage, Enter, LocalTypes
  <2> QED BY <1>2, <2>1, <2>2 DEF PCs
<1> QED BY <1>6, <1>7, <1>8, <1>9, <1>10, <1>11, <1>12, <1>13

LEMMA DatesNext ==
  ASSUME NEW m \in Members, PortInv, DateOK(m), Next
  PROVE  DateOK(m)'
<1>0. SharedGood
  BY SharedStep
<1>1. ASSUME NEW n \in Members, Login(n) PROVE DateOK(m)'
  BY <1>1, LoginDates
<1>2. ASSUME NEW e \in Events, Arrive(e) PROVE DateOK(m)'
  <2>1. e # m /\ m \in Keys
    BY KeysAssumption DEF Keys
  <2>2. SameDates(m) /\ UNCHANGED <<pc, localVars>>
    BY <1>2, <2>1 DEF SameDates, Arrive, PortInv, SharedTypes, dbVars
  <2> QED BY <2>2, DatesKept DEF localVars, SameLocals
<1>3. ASSUME NEW p \in Porters, Port(p) PROVE DateOK(m)'
  <2>1. CASE PortEvents(p)
    BY <1>0, <2>1, EventsDates
  <2>2. CASE \/ ReadLogins(p) \/ UpdateLogin(p) \/ UpdateLoginFails(p)
             \/ stream[p] = "login" /\ DeleteLogin(p)
    BY <1>0, <2>2, PortLoginDates
  <2>3. CASE \/ ReadPlayerEvents(p) \/ ReadPodcastEvents(p) \/ ReadPhoneEvents(p)
             \/ AllCallsEnded(p) \/ Begin(p)
             \/ \E keys \in SetToAllKPermutations(Present(stream[p])), more \in BOOLEAN :
                Scan(p, keys, more)
             \/ \E d \in PhoneEvents : Call(p, d)
    BY <1>0, <2>3, OtherDates
  <2> QED BY <1>3, <2>1, <2>2, <2>3 DEF Port
<1>4. ASSUME NEW p \in Porters, Throws(p) \/ Die(p) \/ \E d \in PhoneEvents : CallThrows(p, d)
      PROVE  DateOK(m)'
  BY <1>0, <1>4, OtherDates
<1> QED BY <1>1, <1>2, <1>3, <1>4 DEF Next

(* A member whose key is gone and whose last login was not missed has its    *)
(* date (LoginLostOnlyIfMissed): who holds a page of logins has read the     *)
(* last one, or it is missed.                                                *)
THEOREM PorterDatesRight == Spec => []LoginLostOnlyIfMissed
<1> DEFINE Inv == PortInv /\ DatesInv
<1>1. Init => Inv
  <2> SUFFICES ASSUME Init PROVE DatesInv
    BY PlacesInit
  <2>1. \A m \in Members : cache[m] = 0 /\ lastLogin[m] = 0 /\ loginedAt[m] = 0
    BY DEF Init, Keys
  <2>2. \A m \in Members, p \in Porters : ~ Holding(p, m)
    BY DEF Init, Holding
  <2> QED BY <2>1, <2>2 DEF DatesInv, DateOK
<1>2. Inv /\ [Next]_vars => Inv'
  <2> SUFFICES ASSUME Inv, [Next]_vars PROVE Inv'
    OBVIOUS
  <2>1. CASE Next
    BY <2>1, PlacesNext, DatesNext DEF DatesInv
  <2>2. CASE UNCHANGED vars
    <3>1. DatesInv'
      BY <2>2 DEF DatesInv, DateOK, Holding, vars, redisVars, dbVars, localVars, historyVars
    <3> QED BY <2>2, <3>1, PlacesStill
  <2> QED BY <2>1, <2>2
<1>3. Inv => LoginLostOnlyIfMissed
  BY DEF DatesInv, DateOK, LoginLostOnlyIfMissed
<1> QED BY <1>1, <1>2, <1>3, PTL DEF Spec

=============================================================================
