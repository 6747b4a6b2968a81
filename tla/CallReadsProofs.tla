-------------------------- MODULE CallReadsProofs --------------------------
(***************************************************************************)
(* Theorems about Calls, for every value of its constants: what is read    *)
(* page by page, the versions of Canvas content and the history, and what  *)
(* a generation request asks of the web client.                            *)
(***************************************************************************)
EXTENDS Calls, TLAPS, FiniteSetTheorems, SequenceTheorems, WellFoundedInduction

-----------------------------------------------------------------------------
(* Canvas content.  Of its cells, c1 is call, c2 chat, c3 versions, c4     *)
(* posts, c5 source, c6 cleanup, c7 retained, c8 pc, c9 walk, c10 file and *)
(* c11 told.                                                               *)

CanvasPart == part = "canvas" => V!Inv

\* Putting versions in order loses and repeats none.
LEMMA CanvasOrder ==
    ASSUME NEW set, set \subseteq V!Artifacts, IsFiniteSet(set), NEW q \in V!NewestFirst(set)
    PROVE  /\ q \in Seq(V!Artifacts) /\ V!Range(q) = set
           /\ \A i, j \in DOMAIN q : q[i].id = q[j].id => i = j
<1>1. Cardinality(set) \in Nat
  BY FS_CardinalityType
<1>2. /\ q \in [1..Cardinality(set) -> set] /\ V!Range(q) = set
      /\ \A i, j \in DOMAIN q : i < j => q[i].id > q[j].id
  <2>1. V!Cardinality(set) = Cardinality(set)
    BY DEF V!Cardinality, Cardinality
  <2> QED
    BY <2>1 DEF V!NewestFirst
<1>3. q \in Seq(V!Artifacts)
  <2>1. \A i \in 1..Cardinality(set) : q[i] \in V!Artifacts
    BY <1>2
  <2>2. q = [i \in 1..Cardinality(set) |-> q[i]]
    BY <1>2
  <2> QED
    BY <1>1, <2>1, <2>2, SeqDef
<1>4. \A i, j \in DOMAIN q : q[i].id = q[j].id => i = j
  <2> SUFFICES ASSUME NEW i \in 1..Cardinality(set), NEW j \in 1..Cardinality(set),
                      q[i].id = q[j].id, i # j
               PROVE  FALSE
    BY <1>2
  <2>1. q[i].id \in Nat /\ q[j].id \in Nat
    BY <1>2 DEF V!Artifacts
  <2>2. i < j \/ j < i
    BY <1>1
  <2> QED
    BY <1>2, <2>1, <2>2
<1> QED
  BY <1>2, <1>3, <1>4

LEMMA CanvasFinite ==
    ASSUME NEW s, NEW T, IsFiniteSet(T), NEW U \in SUBSET {s[i] : i \in T}
    PROVE  IsFiniteSet(U)
<1> DEFINE f == [i \in T |-> s[i]]
<1>1. f \in Surjection(T, {s[i] : i \in T})
  BY DEF Surjection
<1>2. IsFiniteSet({s[i] : i \in T})
  BY <1>1, FS_Surjection
<1> QED
  BY <1>2, FS_Subset

LEMMA CanvasRange ==
    ASSUME NEW s \in Seq(V!Artifacts)
    PROVE  V!Range(s) = {s[i] : i \in 1..Len(s)} /\ V!Range(s) \subseteq V!Artifacts
BY DEF V!Range

LEMMA CanvasInit == V!Init => V!Inv
<1> SUFFICES ASSUME V!Init
             PROVE  V!Inv
  OBVIOUS
<1>1. c3 \in Seq(V!Artifacts) /\ V!Numbered
  <2>1. CASE c1 = "create"
    BY <2>1 DEF V!Init, V!Numbered
  <2>2. CASE c1 # "create"
    <3>1. PICK k \in 0..(MaxVersions - 1) : c3 = [n \in 1..k |-> V!Version(k - n + 1)]
      BY <2>2 DEF V!Init
    <3>2. \A n \in 1..k : k - n + 1 \in Nat
      BY <3>1
    <3>3. \A n \in 1..k : V!Version(k - n + 1) \in V!Artifacts
      BY <3>2 DEF V!Version, V!Artifacts
    <3>4. c3 \in Seq(V!Artifacts) /\ Len(c3) = k
      BY <3>1, <3>3
    <3> QED
      BY <3>1, <3>4 DEF V!Numbered, V!Version
  <2> QED
    BY <2>1, <2>2
<1>2. c9 \in [token: Nat, limit: Nat, items: Seq(V!Artifacts), tokens: SUBSET Nat, pages: Nat,
              old: SUBSET Nat]
  <2>1. c9 = V!NoWalk
    BY DEF V!Init
  <2>2. <<>> \in Seq(V!Artifacts)
    OBVIOUS
  <2> QED
    BY <2>1, <2>2 DEF V!NoWalk
<1>3. c11 \in [kind: V!Kinds, items: Seq(V!Artifacts), complete: BOOLEAN] /\ c11.kind = "none"
  BY DEF V!Init, V!Result, V!Kinds
<1>4. /\ c8 = "start" /\ c4 = 0 /\ c5 = FALSE /\ c6 = "none" /\ c7 = FALSE
      /\ c1 \in {"create", "list", "export"} /\ c2 \in {"none", "made"}
      /\ c10 \in {"absent", "others"}
  BY DEF V!Init
<1>5. V!Typed
  BY <1>1, <1>2, <1>3, <1>4 DEF V!Typed
<1>6. V!SourceKnown /\ V!WalkCovers /\ V!ToldIsTrue
  BY <1>3, <1>4 DEF V!SourceKnown, V!WalkCovers, V!ToldIsTrue
<1> QED
  BY <1>1, <1>5, <1>6 DEF V!Inv

\* A new version leaves the others where they are, seen from the oldest.
LEMMA CanvasCompose ==
    ASSUME V!Inv, V!Compose
    PROVE  V!Inv'
<1>1. PICK usable \in BOOLEAN :
        c3' = <<[id |-> Len(c3) + 1, usable |-> usable]>> \o c3
  BY DEF V!Compose
<1>2. UNCHANGED <<c1, c2, c4, c5, c6, c7, c8, c9, c10, c11>>
  BY DEF V!Compose, V!kept
<1>3. c3 \in Seq(V!Artifacts) /\ Len(c3) \in Nat
  BY DEF V!Inv, V!Typed
<1> DEFINE new == [id |-> Len(c3) + 1, usable |-> usable]
<1>4. new \in V!Artifacts
  BY <1>3 DEF V!Artifacts
<1> HIDE DEF new
<1>5. /\ c3' \in Seq(V!Artifacts) /\ Len(c3') = Len(c3) + 1 /\ c3'[1] = new
      /\ \A i \in 1..Len(c3) : c3'[i + 1] = c3[i]
      /\ \A i \in 2..Len(c3') : c3'[i] = c3[i - 1]
  BY <1>1, <1>3, <1>4 DEF new
<1>6. V!Numbered'
  <2> SUFFICES ASSUME NEW i \in 1..Len(c3')
               PROVE  c3'[i].id = Len(c3') - i + 1
    BY DEF V!Numbered
  <2>1. CASE i = 1
    BY <1>3, <1>5, <2>1 DEF new
  <2>2. CASE i # 1
    <3>1. i - 1 \in 1..Len(c3) /\ i \in 2..Len(c3')
      BY <1>3, <1>5, <2>2
    <3>2. c3[i - 1].id = Len(c3) - (i - 1) + 1
      BY <3>1 DEF V!Inv, V!Numbered
    <3> QED
      BY <1>3, <1>5, <3>1, <3>2
  <2> QED
    BY <2>1, <2>2
<1>7. V!Range(c3) \subseteq V!Range(c3')
  <2> SUFFICES ASSUME NEW v \in V!Range(c3)
               PROVE  v \in V!Range(c3')
    OBVIOUS
  <2>1. PICK i \in 1..Len(c3) : v = c3[i]
    BY <1>3, CanvasRange
  <2>2. i + 1 \in 1..Len(c3') /\ v = c3'[i + 1]
    BY <1>3, <1>5, <2>1
  <2> QED
    BY <1>5, <2>2, CanvasRange
<1>8. V!Typed'
  BY <1>2, <1>5 DEF V!Inv, V!Typed
<1>9. V!WalkCovers'
  <2>1. \A n \in c9.old : n <= Len(c3) - c9.token => n <= Len(c3') - c9.token
    BY <1>3, <1>5 DEF V!Inv, V!Typed
  <2> QED
    BY <1>2, <1>7, <2>1 DEF V!Inv, V!WalkCovers
<1>10. V!ToldIsTrue'
  BY <1>2, <1>7 DEF V!Inv, V!ToldIsTrue
<1>11. V!SourceKnown'
  BY <1>2 DEF V!Inv, V!SourceKnown
<1> QED
  BY <1>6, <1>8, <1>9, <1>10, <1>11 DEF V!Inv

\* A walk begins with what there is still ahead of it.
LEMMA CanvasStart ==
    ASSUME V!Inv, NEW limit \in Nat
    PROVE  /\ V!Start(limit) \in [token: Nat, limit: Nat, items: Seq(V!Artifacts),
                                  tokens: SUBSET Nat, pages: Nat, old: SUBSET Nat]
           /\ V!Start(limit).tokens = {} /\ V!Start(limit).items = <<>>
           /\ 0 \notin V!Start(limit).old
           /\ \A n \in V!Start(limit).old : n <= Len(c3) - V!Start(limit).token
<1>1. c3 \in Seq(V!Artifacts) /\ Len(c3) \in Nat
  BY DEF V!Inv, V!Typed
<1> DEFINE old == {v.id : v \in V!Range(c3)}
<1>2. \A n \in old : n \in Nat \ {0} /\ n <= Len(c3)
  <2> SUFFICES ASSUME NEW n \in old
               PROVE  n \in Nat \ {0} /\ n <= Len(c3)
    OBVIOUS
  <2>1. PICK i \in 1..Len(c3) : n = c3[i].id
    BY <1>1, CanvasRange
  <2>2. n = Len(c3) - i + 1
    BY <2>1 DEF V!Inv, V!Numbered
  <2> QED
    BY <1>1, <2>2
<1>3. V!Start(limit) = [token |-> 0, limit |-> limit, items |-> <<>>, tokens |-> {}, pages |-> 0,
                        old |-> old]
  BY DEF V!Start
<1> HIDE DEF old
<1>4. <<>> \in Seq(V!Artifacts) /\ old \subseteq Nat /\ 0 \notin old
  BY <1>2
<1>5. V!Start(limit) \in [token: Nat, limit: Nat, items: Seq(V!Artifacts),
                          tokens: SUBSET Nat, pages: Nat, old: SUBSET Nat]
  BY <1>3, <1>4
<1>6. /\ V!Start(limit).tokens = {} /\ V!Start(limit).items = <<>>
      /\ V!Start(limit).old = old /\ V!Start(limit).token = 0
  BY <1>3
<1>7. \A n \in old : n <= Len(c3) - 0
  BY <1>1, <1>2
<1> QED
  BY <1>4, <1>5, <1>6, <1>7

\* A result of a kind that claims nothing.
LEMMA CanvasResult ==
    ASSUME NEW kind \in V!Kinds
    PROVE  /\ V!Result(kind) \in [kind: V!Kinds, items: Seq(V!Artifacts), complete: BOOLEAN]
           /\ V!Result(kind).kind = kind
<1>1. V!Result(kind) = [kind |-> kind, items |-> <<>>, complete |-> FALSE]
  BY DEF V!Result
<1>2. <<>> \in Seq(V!Artifacts)
  OBVIOUS
<1> QED
  BY <1>1, <1>2

LEMMA CanvasAsks ==
    ASSUME V!Inv, CreateLimit \in Nat, Limits \subseteq Nat,
           \/ V!SomebodyWrites \/ V!Submit \/ V!Frame \/ V!List
           \/ \E how \in {"reply", "error", "cancel"} : V!Ended(how)
    PROVE  V!Inv'
<1>1. CASE V!SomebodyWrites
  <2>1. UNCHANGED <<c1, c2, c3, c4, c5, c6, c7, c8, c9, c11>> /\ c10 = "absent" /\ c10' = "others"
    BY <1>1 DEF V!SomebodyWrites, V!provider, V!kept
  <2>2. V!Typed' /\ V!Numbered' /\ V!SourceKnown'
    BY <2>1 DEF V!Inv, V!Typed, V!Numbered, V!SourceKnown
  <2>3. V!WalkCovers' /\ V!ToldIsTrue'
    BY <2>1 DEF V!Inv, V!WalkCovers, V!ToldIsTrue
  <2> QED
    BY <2>2, <2>3 DEF V!Inv
<1>2. CASE V!Submit
  <2>1. /\ UNCHANGED <<c1, c3, c5, c6, c7, c9, c10, c11>>
        /\ c8 = "start" /\ c8' = "submitted" /\ c4' = c4 + 1 /\ c2' \in {"none", "made"}
    BY <1>2 DEF V!Submit, V!kept
  <2> QED
    BY <2>1 DEF V!Inv, V!Typed, V!Numbered, V!SourceKnown, V!WalkCovers, V!ToldIsTrue
<1>3. CASE V!Frame
  <2>1. /\ UNCHANGED <<c1, c3, c4, c8, c9, c10, c11>>
        /\ c8 = "submitted" /\ c2' = "seen" /\ c5' = TRUE
        /\ \/ c6' = "retained" /\ c7' = TRUE
           \/ c6' = "failed" /\ c7' = c7
    BY <1>3 DEF V!Frame, V!Register
  <2> QED
    BY <2>1 DEF V!Inv, V!Typed, V!Numbered, V!SourceKnown, V!WalkCovers, V!ToldIsTrue
<1>4. CASE V!List
  <2>1. PICK limit \in Nat : c9' = V!Start(limit)
    BY <1>4 DEF V!List
  <2>2. /\ UNCHANGED <<c1, c2, c3, c4, c5, c6, c7, c10, c11>>
        /\ c8 = "start" /\ c8' = "page"
    BY <1>4 DEF V!List, V!provider, V!kept
  <2>3. V!Typed'
    <3>1. c9' \in [token: Nat, limit: Nat, items: Seq(V!Artifacts), tokens: SUBSET Nat,
                   pages: Nat, old: SUBSET Nat]
      BY <2>1, CanvasStart
    <3> QED
      BY <2>2, <3>1 DEF V!Inv, V!Typed
  <2>4. V!WalkCovers'
    <3>1. /\ c9'.tokens = {} /\ c9'.items = <<>> /\ 0 \notin c9'.old
          /\ \A n \in c9'.old : n <= Len(c3) - c9'.token
      BY <2>1, CanvasStart
    <3> QED
      BY <2>2, <3>1 DEF V!WalkCovers, V!Range
  <2>5. V!Numbered' /\ V!SourceKnown' /\ V!ToldIsTrue'
    BY <2>2 DEF V!Inv, V!Numbered, V!SourceKnown, V!ToldIsTrue
  <2> QED
    BY <2>3, <2>4, <2>5 DEF V!Inv
<1>5. ASSUME NEW how, V!Ended(how)
      PROVE  V!Inv'
  <2>1. /\ UNCHANGED <<c1, c2, c3, c4, c10>> /\ c8 = "submitted"
        /\ \/ /\ c5' = TRUE
              /\ \/ c6' = "retained" /\ c7' = TRUE
                 \/ c6' = "failed" /\ c7' = c7
           \/ c2 # "seen" /\ UNCHANGED <<c5, c6, c7>>
    BY <1>5 DEF V!Ended, V!provider, V!RetainSeen, V!Register, V!kept
  <2>2. c5' \in BOOLEAN /\ c6' \in {"none", "retained", "failed"} /\ c7' \in BOOLEAN
    BY <2>1 DEF V!Inv, V!Typed
  <2>3. CASE c8' = "page" /\ c9' = V!Start(CreateLimit) /\ c11' = c11
    <3>1. V!Typed'
      <4>1. c9' \in [token: Nat, limit: Nat, items: Seq(V!Artifacts), tokens: SUBSET Nat,
                     pages: Nat, old: SUBSET Nat]
        BY <2>3, CanvasStart
      <4> QED
        BY <2>1, <2>2, <2>3, <4>1 DEF V!Inv, V!Typed
    <3>2. V!WalkCovers'
      <4>1. /\ c9'.tokens = {} /\ c9'.items = <<>> /\ 0 \notin c9'.old
            /\ \A n \in c9'.old : n <= Len(c3) - c9'.token
        BY <2>3, CanvasStart
      <4> QED
        BY <2>1, <4>1 DEF V!WalkCovers, V!Range
    <3>3. V!Numbered' /\ V!SourceKnown' /\ V!ToldIsTrue'
      BY <2>1, <2>3 DEF V!Inv, V!Numbered, V!SourceKnown, V!ToldIsTrue
    <3> QED
      BY <3>1, <3>2, <3>3 DEF V!Inv
  <2>4. CASE c8' = "end" /\ c11' = V!Result("failed") /\ c9' = c9
    <3>1. /\ c11' \in [kind: V!Kinds, items: Seq(V!Artifacts), complete: BOOLEAN]
          /\ c11'.kind = "failed"
      BY <2>4, CanvasResult DEF V!Kinds
    <3>2. V!Typed'
      BY <2>1, <2>2, <2>4, <3>1 DEF V!Inv, V!Typed
    <3>3. V!WalkCovers' /\ V!ToldIsTrue'
      BY <2>4, <3>1 DEF V!WalkCovers, V!ToldIsTrue
    <3>4. V!Numbered' /\ V!SourceKnown'
      BY <2>1, <2>4 DEF V!Inv, V!Numbered, V!SourceKnown
    <3> QED
      BY <3>2, <3>3, <3>4 DEF V!Inv
  <2> QED
    BY <1>5, <2>3, <2>4 DEF V!Ended
<1> QED
  BY <1>1, <1>2, <1>3, <1>4, <1>5

LEMMA CanvasFails ==
    ASSUME V!Inv, V!PageFails \/ V!Export \/ V!Read \/ V!Write
    PROVE  V!Inv'
<1>1. UNCHANGED <<c1, c2, c3, c4, c5, c6, c7, c9>> /\ c8 \in {"start", "page", "read", "write"}
  BY DEF V!PageFails, V!Export, V!Read, V!Write, V!provider, V!kept
<1>2. V!Numbered' /\ V!SourceKnown'
  <2>1. c8' # "start"
    BY DEF V!PageFails, V!Export, V!Read, V!Write
  <2> QED
    BY <1>1, <2>1 DEF V!Inv, V!Numbered, V!SourceKnown
<1>3. CASE c8' \in {"read", "write"} /\ UNCHANGED <<c10, c11>>
  BY <1>1, <1>2, <1>3 DEF V!Inv, V!Typed, V!WalkCovers, V!ToldIsTrue
<1>4. CASE /\ c8' = "end" /\ c10' \in {"absent", "others", "partial", "export"}
           /\ \E kind \in {"failed", "accepted"} : c11' = V!Result(kind)
  <2>1. /\ c11' \in [kind: V!Kinds, items: Seq(V!Artifacts), complete: BOOLEAN]
        /\ c11'.kind \in {"failed", "accepted"}
    BY <1>4, CanvasResult DEF V!Kinds
  <2>2. V!Typed'
    BY <1>1, <1>4, <2>1 DEF V!Inv, V!Typed
  <2>3. V!WalkCovers' /\ V!ToldIsTrue'
    BY <1>4, <2>1 DEF V!WalkCovers, V!ToldIsTrue
  <2> QED
    BY <1>2, <2>2, <2>3 DEF V!Inv
<1>5. CASE c8' = "end" /\ c10' = "export" /\ c11' = V!Result("exported")
  <2>1. /\ c11' \in [kind: V!Kinds, items: Seq(V!Artifacts), complete: BOOLEAN]
        /\ c11'.kind = "exported"
    BY <1>5, CanvasResult DEF V!Kinds
  <2>2. V!Typed'
    BY <1>1, <1>5, <2>1 DEF V!Inv, V!Typed
  <2>3. V!WalkCovers' /\ V!ToldIsTrue'
    BY <1>5, <2>1 DEF V!WalkCovers, V!ToldIsTrue
  <2> QED
    BY <1>2, <2>2, <2>3 DEF V!Inv
<1>6. c10 \in {"absent", "others", "partial", "export"}
  BY DEF V!Inv, V!Typed
<1> QED
  <2>1. V!PageFails => <1>4!1
    BY <1>6 DEF V!PageFails, V!Unread
  <2>2. V!Export => <1>3!1 \/ <1>4!1
    BY <1>6 DEF V!Export
  <2>3. V!Read => <1>3!1 \/ <1>4!1
    BY <1>6 DEF V!Read
  <2>4. V!Write => <1>4!1 \/ <1>5!1
    BY <1>6 DEF V!Write
  <2> QED
    BY <1>3, <1>4, <1>5, <2>1, <2>2, <2>3, <2>4

\* What a page adds is new, and what is older than the page is still ahead.
LEMMA CanvasExtended ==
    ASSUME V!Inv, c8 = "page", NEW to \in c9.token..Len(c3),
           NEW items \in V!Extended({c3[i] : i \in (c9.token + 1)..to})
    PROVE  /\ items \in Seq(V!Artifacts) /\ V!Range(items) \subseteq V!Range(c3)
           /\ \A i, j \in DOMAIN items : items[i].id = items[j].id => i = j
           /\ \A n \in c9.old :
                n <= Len(c3) - to \/ \E i \in DOMAIN items : items[i].id = n
<1> DEFINE page == {c3[i] : i \in (c9.token + 1)..to}
           fresh == {v \in page : \A w \in V!Range(c9.items) : w.id # v.id}
<1>1. PICK q \in V!NewestFirst(fresh) : items = c9.items \o q
  BY DEF V!Extended
<1>2. /\ c3 \in Seq(V!Artifacts) /\ Len(c3) \in Nat /\ c9.token \in Nat /\ to \in Nat
      /\ c9.items \in Seq(V!Artifacts) /\ c9.old \subseteq Nat
  BY DEF V!Inv, V!Typed
<1>3. \A i \in (c9.token + 1)..to : i \in 1..Len(c3) /\ c3[i] \in V!Range(c3)
  BY <1>2, CanvasRange
<1>4. page \subseteq V!Range(c3) /\ V!Range(c3) \subseteq V!Artifacts
  BY <1>2, <1>3, CanvasRange
<1>5. IsFiniteSet(fresh)
  <2>1. IsFiniteSet((c9.token + 1)..to)
    <3>1. c9.token + 1 \in Int /\ to \in Int
      BY <1>2
    <3> QED
      BY ONLY <3>1, FS_Interval
  <2>2. fresh \in SUBSET page
    OBVIOUS
  <2> QED
    BY <2>1, <2>2, CanvasFinite
<1>6. /\ q \in Seq(V!Artifacts) /\ V!Range(q) = fresh
      /\ \A i, j \in DOMAIN q : q[i].id = q[j].id => i = j
  <2>1. fresh \subseteq V!Artifacts
    BY <1>4
  <2> HIDE DEF fresh
  <2> QED
    BY <1>1, <1>5, <2>1, CanvasOrder
<1>7. items \in Seq(V!Artifacts) /\ Len(items) = Len(c9.items) + Len(q)
  BY <1>1, <1>2, <1>6
<1> DEFINE n0 == Len(c9.items)
<1>8. /\ n0 \in Nat /\ Len(q) \in Nat
      /\ \A i \in 1..n0 : items[i] = c9.items[i] /\ items[i] \in V!Range(c9.items)
      /\ \A i \in (n0 + 1)..(n0 + Len(q)) :
            i - n0 \in 1..Len(q) /\ items[i] = q[i - n0] /\ items[i] \in fresh
  <2>1. n0 \in Nat /\ Len(q) \in Nat
    BY <1>2, <1>6
  <2>2. /\ \A i \in 1..n0 : items[i] = c9.items[i]
        /\ \A i \in (n0 + 1)..(n0 + Len(q)) : items[i] = q[i - n0]
    <3>1. \A i \in 1..(Len(c9.items) + Len(q)) :
            items[i] = IF i <= Len(c9.items) THEN c9.items[i] ELSE q[i - Len(c9.items)]
      BY <1>1, <1>2, <1>6, ConcatProperties
    <3> QED
      BY <2>1, <3>1
  <2>3. \A i \in 1..n0 : c9.items[i] \in V!Range(c9.items)
    BY <1>2, CanvasRange
  <2>4. \A k \in 1..Len(q) : q[k] \in fresh
    BY <1>6, CanvasRange
  <2>5. \A i \in (n0 + 1)..(n0 + Len(q)) : i - n0 \in 1..Len(q)
    BY <2>1
  <2> HIDE DEF fresh, n0
  <2> QED
    BY <2>1, <2>2, <2>3, <2>4, <2>5
<1> HIDE DEF n0, fresh, page
<1>9. \A i \in 1..Len(items) : i \in 1..n0 \/ i \in (n0 + 1)..(n0 + Len(q))
  BY <1>7, <1>8 DEF n0
<1>10. V!Range(items) \subseteq V!Range(c3)
  <2>1. V!Range(c9.items) \subseteq V!Range(c3)
    BY DEF V!Inv, V!WalkCovers
  <2> QED
    BY <1>4, <1>7, <1>8, <1>9, <2>1, CanvasRange DEF fresh
<1>11. \A i, j \in DOMAIN items : items[i].id = items[j].id => i = j
  <2> SUFFICES ASSUME NEW i \in 1..Len(items), NEW j \in 1..Len(items), items[i].id = items[j].id
               PROVE  i = j
    BY <1>7
  <2>1. CASE i \in 1..n0 /\ j \in 1..n0
    BY <1>2, <1>8, <2>1 DEF V!Inv, V!WalkCovers, n0
  <2>2. CASE i \in (n0 + 1)..(n0 + Len(q)) /\ j \in (n0 + 1)..(n0 + Len(q))
    <3>1. /\ i - n0 \in 1..Len(q) /\ j - n0 \in 1..Len(q)
          /\ q[i - n0].id = q[j - n0].id
      BY <1>8, <2>2
    <3>2. DOMAIN q = 1..Len(q)
      BY <1>6
    <3>3. i - n0 = j - n0
      BY <1>6, <3>1, <3>2
    <3> QED
      BY <1>8, <2>2, <3>3
  <2>3. CASE \/ i \in 1..n0 /\ j \in (n0 + 1)..(n0 + Len(q))
             \/ j \in 1..n0 /\ i \in (n0 + 1)..(n0 + Len(q))
    BY <1>8, <2>3 DEF fresh
  <2> QED
    BY <1>9, <2>1, <2>2, <2>3
<1>12. ASSUME NEW n \in c9.old
       PROVE  n <= Len(c3) - to \/ \E i \in DOMAIN items : items[i].id = n
  <2>1. ASSUME NEW w \in V!Range(c9.items), w.id = n
        PROVE  \E i \in DOMAIN items : items[i].id = n
    <3>1. PICK i \in 1..n0 : w = c9.items[i]
      BY <1>2, CanvasRange DEF n0
    <3>2. i \in 1..Len(items)
      BY <1>7, <1>8, <3>1 DEF n0
    <3> QED
      BY <1>7, <1>8, <2>1, <3>1, <3>2
  <2>2. CASE \E i \in DOMAIN c9.items : c9.items[i].id = n
    BY <1>2, <2>1, <2>2, CanvasRange
  <2>3. CASE n <= Len(c3) - c9.token /\ ~(n <= Len(c3) - to)
    <3> DEFINE i == Len(c3) - n + 1
    <3>1. i \in (c9.token + 1)..to /\ i \in 1..Len(c3) /\ Len(c3) - i + 1 = n
      BY <1>2, <2>3
    <3> HIDE DEF i
    <3>2. c3[i].id = n /\ c3[i] \in page
      BY <3>1 DEF V!Inv, V!Numbered, page
    <3>3. CASE c3[i] \in fresh
      <4>1. PICK k \in 1..Len(q) : c3[i] = q[k]
        BY <1>6, <3>3, CanvasRange
      <4>2. n0 + k \in 1..Len(items) /\ items[n0 + k] = q[k]
        <5>1. n0 + k \in (n0 + 1)..(n0 + Len(q)) /\ (n0 + k) - n0 = k
          BY <1>8, <4>1
        <5>2. n0 + k \in 1..Len(items)
          BY <1>7, <1>8, <5>1 DEF n0
        <5> QED
          BY <1>8, <5>1, <5>2
      <4> QED
        BY <1>7, <3>2, <4>1, <4>2
    <3>4. CASE c3[i] \notin fresh
      BY <2>1, <3>2, <3>4 DEF fresh
    <3> QED
      BY <3>3, <3>4
  <2> QED
    BY <2>2, <2>3 DEF V!Inv, V!WalkCovers
<1> QED
  BY <1>7, <1>10, <1>11, <1>12

\* A walk that ends tells of what it found, all of it only at the last token.
LEMMA CanvasTells ==
    ASSUME V!Inv, c8 = "page", NEW to \in c9.token..Len(c3),
           to > c9.token \/ to = Len(c3),
           NEW items \in V!Extended({c3[i] : i \in (c9.token + 1)..to}),
           NEW token \in c9.tokens \cup {IF to = Len(c3) THEN 0 ELSE to},
           c11' \in V!Told(token, items), c8' = "end",
           UNCHANGED <<c3, c7, c9, c10>>
    PROVE  /\ c11' \in [kind: V!Kinds, items: Seq(V!Artifacts), complete: BOOLEAN]
           /\ V!ToldIsTrue'
<1>1. /\ items \in Seq(V!Artifacts) /\ V!Range(items) \subseteq V!Range(c3)
      /\ \A i, j \in DOMAIN items : items[i].id = items[j].id => i = j
      /\ \A n \in c9.old :
           n <= Len(c3) - to \/ \E i \in DOMAIN items : items[i].id = n
  BY CanvasExtended
<1>2. /\ Len(items) \in Nat /\ c9.limit \in Nat /\ Len(c3) \in Nat /\ to \in Nat
      /\ c9.token \in Nat /\ c9.old \subseteq Nat /\ 0 \notin c9.tokens \cup c9.old
  BY <1>1 DEF V!Inv, V!Typed, V!WalkCovers
<1> DEFINE m == IF Len(items) < c9.limit THEN Len(items) ELSE c9.limit
           s == V!Shown(items)
<1>3. m \in Nat /\ m <= Len(items) /\ (Len(items) <= c9.limit => m = Len(items))
  BY <1>2
<1>4. /\ s \in Seq(V!Artifacts) /\ Len(s) = m /\ DOMAIN s = 1..m
      /\ \A i \in 1..m : s[i] = items[i]
  <2>1. s = SubSeq(items, 1, m)
    BY DEF V!Shown
  <2> HIDE DEF m, s
  <2> QED
    BY <1>1, <1>2, <1>3, <2>1
<1> HIDE DEF m, s
<1>5. V!Range(s) \subseteq V!Range(items)
  <2>1. \A i \in 1..m : i \in 1..Len(items)
    BY <1>2, <1>3
  <2> QED
    BY <1>1, <1>4, <2>1, CanvasRange
<1>6. CASE c1 # "create"
  <2>1. c11' = [kind |-> "listed", items |-> s, complete |-> V!Complete(token, items)]
    BY <1>6 DEF V!Told, V!Listed, s
  <2>2. V!Complete(token, items) \in BOOLEAN
    BY DEF V!Complete
  <2>3. V!IsInjective(s)
    <3> SUFFICES ASSUME NEW i \in 1..m, NEW j \in 1..m, s[i] = s[j]
                 PROVE  i = j
      BY <1>4 DEF V!IsInjective
    <3>1. i \in DOMAIN items /\ j \in DOMAIN items /\ items[i].id = items[j].id
      BY <1>1, <1>2, <1>3, <1>4
    <3> QED
      BY <1>1, <3>1
  <2>4. ASSUME V!Complete(token, items), NEW n \in c9.old
        PROVE  n \in {v.id : v \in V!Range(s)}
    <3>1. token = 0 /\ m = Len(items)
      BY <1>3, <2>4 DEF V!Complete
    <3>2. to = Len(c3)
      BY <1>2, <3>1
    <3>3. ~(n <= Len(c3) - to)
      BY <1>2, <3>2
    <3>4. PICK i \in DOMAIN items : items[i].id = n
      BY <1>1, <3>3
    <3>5. i \in 1..m /\ s[i].id = n
      BY <1>1, <1>4, <3>1, <3>4
    <3>6. s[i] \in V!Range(s)
      BY <1>4, <3>5, CanvasRange
    <3> QED
      BY <3>5, <3>6
  <2>5. c11' \in [kind: V!Kinds, items: Seq(V!Artifacts), complete: BOOLEAN]
    BY <1>4, <2>1, <2>2 DEF V!Kinds
  <2>6. /\ c11'.kind = "listed" /\ c11'.items = s /\ c11'.complete = V!Complete(token, items)
        /\ c9' = c9
    BY <2>1
  <2>7. V!ToldIsTrue'
    BY <2>3, <2>4, <2>6 DEF V!ToldIsTrue
  <2> QED
    BY <2>5, <2>7
<1>7. CASE c1 = "create"
  <2> DEFINE some == {v \in V!Range(s) : v.usable}
  <2>1. PICK usable \in V!NewestFirst(some) :
          c11' = [V!Result(IF usable = <<>> THEN "accepted"
                           ELSE IF c6 = "retained" THEN "completed" ELSE "partial")
                    EXCEPT !.items = usable]
    BY <1>7 DEF V!Told, V!Created, s
  <2>2. some \subseteq V!Artifacts /\ some \subseteq V!Range(c3)
    BY <1>1, <1>4, <1>5, CanvasRange
  <2>3. IsFiniteSet(some)
    <3>1. IsFiniteSet(1..m)
      <4>1. 1 \in Int /\ m \in Int
        BY <1>3
      <4> QED
        BY ONLY <4>1, FS_Interval
    <3>2. some \in SUBSET {s[i] : i \in 1..m}
      BY <1>4, CanvasRange
    <3> QED
      BY <3>1, <3>2, CanvasFinite
  <2>4. usable \in Seq(V!Artifacts) /\ V!Range(usable) = some
    <3> HIDE DEF some
    <3> QED
      BY <2>1, <2>2, <2>3, CanvasOrder
  <2>5. PICK kind \in {"accepted", "completed", "partial"} :
          /\ c11' = [kind |-> kind, items |-> usable, complete |-> FALSE]
          /\ kind = "completed" => c6 = "retained" /\ usable # <<>>
    BY <2>1 DEF V!Result
  <2>6. c11' \in [kind: V!Kinds, items: Seq(V!Artifacts), complete: BOOLEAN]
    BY <2>4, <2>5 DEF V!Kinds
  <2>7. c11'.kind = kind /\ c11'.items = usable /\ UNCHANGED <<c3, c7>>
    BY <2>5
  <2>8. c6 = "retained" => c7
    BY DEF V!Inv, V!SourceKnown
  <2>9. V!ToldIsTrue'
    <3>1. V!Range(c11'.items) = some /\ V!Range(c3') = V!Range(c3)
      BY <2>4, <2>7 DEF V!Range
    <3>2. \A v \in V!Range(c11'.items) : v.usable /\ v \in V!Range(c3')
      BY <2>2, <3>1
    <3>3. c11'.kind = "completed" => c7' /\ c11'.items # <<>>
      BY <2>5, <2>7, <2>8
    <3>4. c11'.kind \notin {"listed", "exported"}
      BY <2>5, <2>7
    <3> QED
      BY <3>2, <3>3, <3>4 DEF V!ToldIsTrue, V!Range
  <2> QED
    BY <2>6, <2>9
<1> QED
  BY <1>6, <1>7

LEMMA CanvasPage ==
    ASSUME V!Inv, V!Page
    PROVE  V!Inv'
<1>1. /\ UNCHANGED <<c1, c2, c3, c4, c5, c6, c7, c10>> /\ c8 = "page"
      /\ c8' \in {"page", "end"}
  BY DEF V!Page, V!provider, V!kept
<1>2. V!Numbered' /\ V!SourceKnown'
  BY <1>1 DEF V!Inv, V!Numbered, V!SourceKnown
<1>3. PICK to \in c9.token..Len(c3) :
        /\ to > c9.token \/ to = Len(c3)
        /\ \E items \in V!Extended({c3[i] : i \in (c9.token + 1)..to}),
              token \in c9.tokens \cup {IF to = Len(c3) THEN 0 ELSE to} :
             \/ c8' = "end" /\ c11' \in V!Told(token, items) /\ c9' = c9
             \/ c8' = "end" /\ c11' = V!Unread /\ c9' = c9
             \/ /\ token # 0 /\ token \notin c9.tokens
                /\ c9' = [c9 EXCEPT !.token = token, !.items = items,
                                    !.tokens = @ \cup {token}, !.pages = @ + 1]
                /\ c8' = c8 /\ c11' = c11
  BY DEF V!Page
<1>4. PICK items \in V!Extended({c3[i] : i \in (c9.token + 1)..to}),
           token \in c9.tokens \cup {IF to = Len(c3) THEN 0 ELSE to} :
        \/ c8' = "end" /\ c11' \in V!Told(token, items) /\ c9' = c9
        \/ c8' = "end" /\ c11' = V!Unread /\ c9' = c9
        \/ /\ token # 0 /\ token \notin c9.tokens
           /\ c9' = [c9 EXCEPT !.token = token, !.items = items,
                               !.tokens = @ \cup {token}, !.pages = @ + 1]
           /\ c8' = c8 /\ c11' = c11
  BY <1>3
<1>5. CASE c8' = "end" /\ c11' \in V!Told(token, items) /\ c9' = c9
  <2>1. /\ c11' \in [kind: V!Kinds, items: Seq(V!Artifacts), complete: BOOLEAN]
        /\ V!ToldIsTrue'
    BY <1>1, <1>3, <1>5, CanvasTells
  <2>2. V!Typed'
    BY <1>1, <1>5, <2>1 DEF V!Inv, V!Typed
  <2>3. V!WalkCovers'
    BY <1>5 DEF V!WalkCovers
  <2> QED
    BY <1>2, <2>1, <2>2, <2>3 DEF V!Inv
<1>6. CASE c8' = "end" /\ c11' = V!Unread /\ c9' = c9
  <2>1. /\ c11' \in [kind: V!Kinds, items: Seq(V!Artifacts), complete: BOOLEAN]
        /\ c11'.kind \in {"accepted", "failed"}
    BY <1>6, CanvasResult DEF V!Unread, V!Kinds
  <2>2. V!Typed'
    BY <1>1, <1>6, <2>1 DEF V!Inv, V!Typed
  <2>3. V!WalkCovers' /\ V!ToldIsTrue'
    BY <1>6, <2>1 DEF V!WalkCovers, V!ToldIsTrue
  <2> QED
    BY <1>2, <2>2, <2>3 DEF V!Inv
<1>7. CASE /\ token # 0 /\ token \notin c9.tokens
           /\ c9' = [c9 EXCEPT !.token = token, !.items = items,
                               !.tokens = @ \cup {token}, !.pages = @ + 1]
           /\ c8' = c8 /\ c11' = c11
  <2>1. /\ items \in Seq(V!Artifacts) /\ V!Range(items) \subseteq V!Range(c3)
        /\ \A i, j \in DOMAIN items : items[i].id = items[j].id => i = j
        /\ \A n \in c9.old :
             n <= Len(c3) - to \/ \E i \in DOMAIN items : items[i].id = n
    BY <1>1, CanvasExtended
  <2>2. token = to /\ to \in Nat
    BY <1>7 DEF V!Inv, V!Typed
  <2>3. c9 \in [token: Nat, limit: Nat, items: Seq(V!Artifacts), tokens: SUBSET Nat, pages: Nat,
                old: SUBSET Nat]
    BY DEF V!Inv, V!Typed
  <2>4. /\ c9' \in [token: Nat, limit: Nat, items: Seq(V!Artifacts), tokens: SUBSET Nat,
                    pages: Nat, old: SUBSET Nat]
    <3>1. c9' = [c9 EXCEPT !.token = to, !.items = items,
                           !.tokens = @ \cup {to}, !.pages = @ + 1]
      BY <1>7, <2>2
    <3>2. c9.pages + 1 \in Nat /\ c9.tokens \cup {to} \in SUBSET Nat
      BY <2>2, <2>3
    <3> QED
      BY ONLY <2>1, <2>2, <2>3, <3>1, <3>2
  <2>5. /\ c9'.items = items /\ c9'.token = to /\ c9'.old = c9.old
        /\ c9'.tokens = c9.tokens \cup {to}
    BY ONLY <1>7, <2>2, <2>3
  <2>6. V!Typed'
    BY <1>1, <1>7, <2>4 DEF V!Inv, V!Typed
  <2>7. 0 \notin c9.tokens \cup c9.old /\ to # 0
    BY <1>1, <1>7, <2>2 DEF V!Inv, V!WalkCovers
  <2>8. V!WalkCovers'
    <3>1. 0 \notin c9'.tokens \cup c9'.old
      BY <2>5, <2>7
    <3>2. V!Range(c9'.items) \subseteq V!Range(c3')
      BY <1>1, <2>1, <2>5 DEF V!Range
    <3>3. \A i, j \in DOMAIN c9'.items : c9'.items[i].id = c9'.items[j].id => i = j
      BY <2>1, <2>5
    <3>4. \A n \in c9'.old :
            n <= Len(c3') - c9'.token \/ \E i \in DOMAIN c9'.items : c9'.items[i].id = n
      BY <1>1, <2>1, <2>5
    <3> QED
      BY <3>1, <3>2, <3>3, <3>4 DEF V!WalkCovers, V!Range
  <2>9. V!ToldIsTrue'
    BY <1>1, <1>7 DEF V!Inv, V!ToldIsTrue
  <2> QED
    BY <1>2, <2>6, <2>8, <2>9 DEF V!Inv
<1> QED
  BY <1>4, <1>5, <1>6, <1>7

LEMMA CanvasStep ==
    ASSUME V!Inv, CreateLimit \in Nat, Limits \subseteq Nat, [V!Next]_(V!cvvars)
    PROVE  V!Inv'
<1>1. CASE UNCHANGED V!cvvars
  BY <1>1 DEF V!cvvars, V!Inv, V!Typed, V!Numbered, V!SourceKnown, V!WalkCovers, V!ToldIsTrue
<1>2. CASE V!Compose
  BY <1>2, CanvasCompose
<1>3. CASE \/ V!SomebodyWrites \/ V!Submit \/ V!Frame \/ V!List
           \/ \E how \in {"reply", "error", "cancel"} : V!Ended(how)
  BY <1>3, CanvasAsks
<1>4. CASE V!Page
  BY <1>4, CanvasPage
<1>5. CASE V!PageFails \/ V!Export \/ V!Read \/ V!Write
  BY <1>5, CanvasFails
<1> QED
  BY <1>1, <1>2, <1>3, <1>4, <1>5 DEF V!Next

LEMMA CanvasKeepsFiles ==
    ASSUME [V!Next]_(V!cvvars)
    PROVE  V!KeepsFiles
<1>1. c10' = c10 \/ c10 = "absent"
  BY DEF V!Next, V!cvvars, V!provider, V!kept, V!Compose, V!SomebodyWrites, V!Submit, V!Frame,
         V!Ended, V!List, V!Page, V!PageFails, V!Export, V!Read, V!Write, V!Free
<1> QED
  BY <1>1 DEF V!KeepsFiles

\* CanvasIsTrue, for any number of versions and pages and any limits.
THEOREM CanvasIsKept == Spec => CanvasIsTrue
<1>1. Init => CanvasPart
  BY CanvasInit DEF Init, CanvasPart
<1>2. CanvasPart /\ [Next]_vars => CanvasPart'
  <2> SUFFICES ASSUME CanvasPart, [Next]_vars, part' = "canvas"
               PROVE  V!Inv'
    BY DEF CanvasPart
  <2>1. part = "canvas" /\ [V!Next]_(V!cvvars)
    BY DEF Next, vars, cells, V!cvvars
  <2> QED
    BY <2>1, ValuesAssumption, CanvasStep DEF CanvasPart
<1>3. CanvasPart => (part = "canvas" => V!SourceIsRetained /\ V!ListingIsWhole /\ V!ExportIsNew)
  BY DEF CanvasPart, V!Inv, V!SourceKnown, V!ToldIsTrue, V!SourceIsRetained, V!ListingIsWhole,
         V!ExportIsNew, V!Tells
<1>4. [Next]_vars => [part = "canvas" => V!KeepsFiles]_vars
  <2> SUFFICES ASSUME [Next]_vars, part = "canvas"
               PROVE  V!KeepsFiles
    OBVIOUS
  <2>1. [V!Next]_(V!cvvars)
    BY DEF Next, vars, cells, V!cvvars
  <2> QED
    BY <2>1, CanvasKeepsFiles
<1> QED
  BY <1>1, <1>2, <1>3, <1>4, PTL DEF Spec, CanvasIsTrue

-----------------------------------------------------------------------------
(* The history.  Of its cells, c1 is stamp, c2 pin, c3 title, c4 sent, c5  *)
(* changed, c6 repeated, c7 goal, c8 pc, c9 scan, c10 items, c11 more, c12 *)
(* reading, c13 shown and c14 result.                                      *)

HistoryPart == part = "history" => H!Inv

LEMMA HistoryMin ==
    ASSUME NEW a \in Int, NEW b \in Int
    PROVE  /\ H!Min({a, b}) = IF a <= b THEN a ELSE b
           /\ H!Max({a, b}) = IF a >= b THEN a ELSE b
<1>1. \A x \in {a, b} : (\A y \in {a, b} : x <= y) <=> x = IF a <= b THEN a ELSE b
  OBVIOUS
<1>2. \A x \in {a, b} : (\A y \in {a, b} : x >= y) <=> x = IF a >= b THEN a ELSE b
  OBVIOUS
<1> QED
  BY <1>1, <1>2 DEF H!Min, H!Max

\* A bounded set of numbers has a greatest.
LEMMA HistoryMax ==
    ASSUME NEW set \in SUBSET Nat, set # {}, NEW b \in Nat, \A s \in set : s <= b
    PROVE  H!Max(set) \in set /\ \A s \in set : s <= H!Max(set)
<1> DEFINE T == {n \in Nat : \A s \in set : s <= n}
<1>1. T \subseteq Nat /\ T # {}
  OBVIOUS
<1>2. PICK n \in T : \A m \in T : <<m, n>> \notin OpToRel(<, Nat)
  BY <1>1, NatLessThanWellFounded, WFMin
<1>3. n \in Nat /\ \A s \in set : s <= n
  OBVIOUS
<1>4. \A m \in Nat : m < n => \E s \in set : ~(s <= m)
  <2>1. \A m \in T : ~(m < n)
    <3>1. \A m \in T : <<m, n>> \in OpToRel(<, Nat) <=> m < n
      BY <1>1 DEF OpToRel
    <3> QED
      BY <1>2, <3>1
  <2> QED
    BY <2>1
<1> HIDE DEF T
<1>5. n \in set
  <2> SUFFICES ASSUME n \notin set
               PROVE  FALSE
    OBVIOUS
  <2>1. \A s \in set : s \in Nat /\ s < n
    BY <1>3
  <2>2. n # 0
    <3>1. PICK s \in set : TRUE
      OBVIOUS
    <3> QED
      BY <1>3, <2>1, <3>1
  <2>3. n - 1 \in Nat /\ n - 1 < n /\ \A s \in set : s <= n - 1
    BY <1>3, <2>1, <2>2
  <2> QED
    BY <1>4, <2>3
<1>6. \E x \in set : \A y \in set : x >= y
  BY <1>3, <1>5
<1>7. H!Max(set) \in set /\ \A y \in set : H!Max(set) >= y
  BY <1>6 DEF H!Max
<1> QED
  BY <1>7

LEMMA HistoryNewest ==
    ASSUME NEW f \in [H!AllChats -> Nat], NEW b \in Nat, \A c \in H!AllChats : f[c] <= b,
           NEW n, n = H!Max({f[c] : c \in H!AllChats} \cup {0})
    PROVE  n \in Nat /\ \A c \in H!AllChats : f[c] <= n
<1> DEFINE set == {f[c] : c \in H!AllChats} \cup {0}
<1>1. set \in SUBSET Nat /\ set # {} /\ \A s \in set : s <= b
  OBVIOUS
<1>2. \A c \in H!AllChats : f[c] \in set
  OBVIOUS
<1> HIDE DEF set
<1>3. H!Max(set) \in set /\ \A s \in set : s <= H!Max(set)
  BY <1>1, HistoryMax
<1> QED
  BY <1>1, <1>2, <1>3 DEF set

\* Finitely many chats come before a chat.
LEMMA HistoryRank ==
    ASSUME NChats \in Nat, NEW c \in H!AllChats
    PROVE  /\ IsFiniteSet({d \in H!AllChats : H!Before(d, c)})
           /\ H!Rank(c) = Cardinality({d \in H!AllChats : H!Before(d, c)}) /\ H!Rank(c) \in Nat
<1>1. IsFiniteSet(H!AllChats)
  BY FS_Interval DEF H!AllChats
<1>2. IsFiniteSet({d \in H!AllChats : H!Before(d, c)})
  BY <1>1, FS_Subset
<1>3. H!Rank(c) = Cardinality({d \in H!AllChats : H!Before(d, c)})
  BY DEF H!Rank, H!Cardinality, Cardinality
<1> QED
  BY <1>2, <1>3, FS_CardinalityType

LEMMA HistoryInit ==
    ASSUME NChats \in Nat, H!Init
    PROVE  H!Inv
<1>1. /\ c1 = [c \in H!AllChats |-> c] /\ c2 \in SUBSET H!AllChats
      /\ c3 = [c \in H!AllChats |-> "old"] /\ c4 = FALSE /\ c5 = {} /\ c6 = FALSE
      /\ c7 \in H!Goals
      /\ c8 = IF c7.kind \in {"delete", "update"} THEN "request" ELSE "scan"
      /\ c9 = H!Scan(H!Sources(c7)) /\ c10 = <<>> /\ c11 = FALSE /\ c13 = {}
      /\ c12 = [todo |-> <<>>, read |-> {}, failed |-> {}, matched |-> {}]
      /\ c14 = [status |-> "open", next |-> 0]
  BY DEF H!Init, H!NoToken
<1>2. /\ c1 \in [H!AllChats -> Nat] /\ c3 \in [H!AllChats -> H!Titles]
      /\ \A c \in H!AllChats : c1[c] <= NChats /\ c1[c] > 0
  BY <1>1 DEF H!AllChats, H!Titles
<1>3. H!NewestIsLatest
  BY <1>2, HistoryNewest DEF H!Newest, H!NewestIsLatest
<1>4. /\ c9 = [sources |-> H!Sources(c7), cursor |-> 0, tokens |-> {}, pages |-> 0, count |-> 0]
      /\ H!Sources(c7) = IF c7.kind = "delete" THEN <<FALSE, TRUE>> ELSE <<TRUE, FALSE>>
  BY <1>1 DEF H!Scan, H!NoToken, H!Sources, H!DeletionSources
<1>5. /\ c7 \in [kind: {"delete"}, chat: H!AllChats]
                \cup [kind: {"update"}, chat: H!AllChats, fields: SUBSET H!Fields]
                \cup [kind: {"list"}, offset: Nat]
                \cup [kind: {"search"}, offset: {0}, holder: H!AllChats]
      /\ c7.kind = "list" => c7.offset = 0
  BY <1>1 DEF H!Goals
<1>6. /\ c9 \in [sources: {<<TRUE, FALSE>>, <<FALSE, TRUE>>, <<TRUE>>, <<FALSE>>}, cursor: Nat,
                 tokens: SUBSET (Nat \ {H!NoToken}), pages: Nat, count: Nat]
      /\ c9.cursor = 0
  BY <1>4
<1>7. c12 \in [todo: Seq(H!Items), read: SUBSET H!AllChats, failed: SUBSET H!AllChats,
               matched: SUBSET H!AllChats]
  <2>1. <<>> \in Seq(H!Items)
    OBVIOUS
  <2> QED
    BY <1>1, <2>1
<1>8. H!Typed
  <2>1. c10 \in Seq(H!Items) /\ c14 \in [status: H!Statuses, next: Nat]
    <3>1. c10 = <<>> /\ c14 = [status |-> "open", next |-> 0]
      BY <1>1
    <3>2. <<>> \in Seq(H!Items)
      OBVIOUS
    <3>3. [status |-> "open", next |-> 0] \in [status: H!Statuses, next: Nat]
      BY DEF H!Statuses
    <3> QED
      BY <3>1, <3>2, <3>3
  <2>2. c8 \in {"request", "scan", "read", "done"}
    BY <1>1
  <2> QED
    BY <1>1, <1>2, <1>5, <1>6, <1>7, <2>1, <2>2 DEF H!Typed
<1>9. H!Alive = H!AllChats
  BY <1>2 DEF H!Alive
<1>10. H!DeletionLooks /\ H!GoalFits
  <2>1. H!DeletionLooks
    <3>1. c7.kind = "delete" => c9.sources = <<FALSE, TRUE>>
      BY <1>4
    <3>2. <<FALSE, TRUE>> # <<TRUE>>
      OBVIOUS
    <3> QED
      BY <1>6, <3>1, <3>2 DEF H!DeletionLooks, H!NoToken
  <2>2. H!GoalFits
    BY <1>1 DEF H!GoalFits
  <2> QED
    BY <2>1, <2>2
<1>11. H!UpdateLooks
  BY <1>1, <1>5, <1>9 DEF H!UpdateLooks
<1>12. H!SearchReads /\ H!AbsenceIsTrue /\ H!UpdateIsTrue /\ H!SearchMissesNothing
  BY <1>1 DEF H!SearchReads, H!AbsenceIsTrue, H!UpdateIsTrue, H!SearchMissesNothing
<1>13. H!ListShows
  <2> SUFFICES ASSUME c7.kind = "list"
               PROVE  /\ c8 = "scan" /\ ~c4 /\ c1 = [c \in H!AllChats |-> c]
                      /\ H!ScanIsFront /\ \A c \in H!AllChats : H!Rank(c) < c7.offset => c \in c13
    BY DEF H!ListShows
  <2>1. c8 = "scan" /\ ~c4 /\ c1 = [c \in H!AllChats |-> c]
    BY <1>1
  <2>2. Len(c10) = 0 /\ H!Front(c10, 0) /\ H!Ids(c10) = {}
    BY <1>1 DEF H!Front, H!Ids
  <2>3. \A c \in H!AllChats : ~H!Passed(c)
    BY <1>6 DEF H!Passed, H!NoToken
  <2>4. H!ScanIsFront
    <3>1. c9.sources = <<TRUE, FALSE>> /\ c9.count = 0
      BY <1>4
    <3>4. ~c11
      BY <1>1
    <3>2. c9.count = Len(c10) /\ H!Front(c10, Len(c10))
      BY <2>2, <3>1
    <3>3. \A c \in H!AllChats : c \in H!Ids(c10) <=> c \in c2 /\ H!Passed(c)
      BY <2>2, <2>3
    <3> HIDE DEF H!Front
    <3> QED
      BY <3>1, <3>2, <3>3, <3>4 DEF H!ScanIsFront
  <2>5. ASSUME NEW c \in H!AllChats
        PROVE  ~(H!Rank(c) < c7.offset)
    <3>1. H!Rank(c) \in Nat
      BY HistoryRank
    <3> QED
      BY <1>5, <3>1
  <2> QED
    BY <2>1, <2>4, <2>5
<1> QED
  BY <1>3, <1>8, <1>10, <1>11, <1>12, <1>13 DEF H!Inv

\* A page lies before the rest of its listing, and a token that leads on
\* tells where it ends.
LEMMA HistoryPage ==
    ASSUME H!Typed, H!NewestIsLatest, NChats \in Nat, NEW size, NEW a \in H!Answers(size)
    PROVE  /\ H!Rest \subseteq H!Alive /\ a.page \subseteq H!Rest
           /\ IsFiniteSet(a.page) /\ H!Cardinality(a.page) = Cardinality(a.page)
           /\ Cardinality(a.page) \in Nat /\ a.token \in Nat
           /\ a.token = H!NoToken => a.page = H!Rest
           /\ a.token # H!NoToken /\ a.token \notin c9.tokens =>
                /\ a.page = {} => H!Rest = {}
                /\ \A c \in H!Rest : c \in a.page <=> c1[c] >= a.token
                /\ a.page # {} /\ c9.cursor # H!NoToken => a.token < c9.cursor
<1>1. /\ c1 \in [H!AllChats -> Nat] /\ c9.cursor \in Nat /\ c9.tokens \subseteq Nat \ {0}
      /\ H!Newest \in Nat
  BY DEF H!Typed, H!NewestIsLatest, H!NoToken
<1>2. /\ H!Rest \subseteq H!Alive /\ H!Alive \subseteq H!AllChats
      /\ \A c \in H!Rest : c1[c] > 0 /\ (c9.cursor # 0 => c1[c] < c9.cursor)
  BY DEF H!Rest, H!Alive, H!NoToken
<1>3. /\ a.page \in SUBSET H!Rest /\ a.token \in 0..(H!Newest + 1)
      /\ a.page = {} => H!Rest = {}
      /\ \A c \in a.page, d \in H!Rest \ a.page : c1[c] > c1[d]
      /\ \/ H!Follows(a.page, a.token)
         \/ a.token = 0 /\ a.page = H!Rest
         \/ a.token \in c9.tokens
  <2>1. /\ a.page \in H!Pages(size) /\ a.token \in 0..(H!Newest + 1)
        /\ \/ H!Follows(a.page, a.token)
           \/ a.token = 0 /\ a.page = H!Rest
           \/ a.token \in c9.tokens
    BY DEF H!Answers, H!NoToken
  <2> QED
    BY <2>1 DEF H!Pages
<1>4. IsFiniteSet(a.page)
  <2>1. IsFiniteSet(H!AllChats)
    BY FS_Interval DEF H!AllChats
  <2>2. a.page \subseteq H!AllChats
    BY <1>2, <1>3
  <2> QED
    BY <2>1, <2>2, FS_Subset
<1>5. H!Cardinality(a.page) = Cardinality(a.page) /\ Cardinality(a.page) \in Nat
  BY <1>4, FS_CardinalityType DEF H!Cardinality, Cardinality
<1>6. H!Follows(a.page, a.token) =>
        IF a.page # {} THEN \E c \in a.page : a.token = c1[c] /\ \A d \in a.page : c1[d] >= c1[c]
        ELSE a.token = IF c9.cursor # 0 THEN c9.cursor ELSE H!Newest + 1
  BY DEF H!Follows, H!NoToken
<1>7. a.token = 0 => a.page = H!Rest
  <2> SUFFICES ASSUME a.token = 0, H!Follows(a.page, a.token)
               PROVE  FALSE
    BY <1>1, <1>3
  <2>1. CASE a.page # {}
    BY <1>1, <1>2, <1>3, <1>6, <2>1
  <2>2. CASE a.page = {}
    BY <1>1, <1>6, <2>2
  <2> QED
    BY <2>1, <2>2
<1>8. ASSUME a.token # 0, a.token \notin c9.tokens
      PROVE  /\ \A c \in H!Rest : c \in a.page <=> c1[c] >= a.token
             /\ a.page # {} /\ c9.cursor # 0 => a.token < c9.cursor
  <2>1. CASE a.page = {}
    BY <1>3, <2>1
  <2>2. CASE a.page # {}
    <3>1. PICK c \in a.page : a.token = c1[c] /\ \A d \in a.page : c1[d] >= c1[c]
      BY <1>3, <1>6, <1>8, <2>2
    <3>2. \A d \in H!Rest : c1[d] \in Nat
      BY <1>1, <1>2
    <3>3. \A d \in H!Rest : d \in a.page <=> c1[d] >= a.token
      BY <1>3, <3>1, <3>2
    <3> QED
      BY <1>2, <1>3, <3>1, <3>3
  <2> QED
    BY <2>1, <2>2
<1> QED
  BY <1>2, <1>3, <1>4, <1>5, <1>7, <1>8, <1>1 DEF H!NoToken

\* What is read is appended.
LEMMA HistoryCombined ==
    ASSUME H!Typed, NChats \in Nat, NEW page \in SUBSET H!AllChats, NEW all \in H!Combined(page)
    PROVE  \E q \in H!LatestFirst(page \ H!Ids(c10)), n \in Nat :
             /\ n = Cardinality(page \ H!Ids(c10)) /\ DOMAIN q = 1..n
             /\ H!Range(q) = page \ H!Ids(c10)
             /\ \A i, j \in 1..n : i < j => c1[q[i]] > c1[q[j]]
             /\ all \in Seq(H!Items) /\ Len(all) = Len(c10) + n
             /\ \A i \in 1..Len(c10) : all[i] = c10[i]
             /\ \A i \in 1..n : all[Len(c10) + i] = H!Metadata(q[i]) /\ q[i] \in page
             /\ H!Ids(all) = H!Ids(c10) \cup page
<1> DEFINE new == page \ H!Ids(c10)
<1>1. IsFiniteSet(new) /\ H!Cardinality(new) = Cardinality(new) /\ Cardinality(new) \in Nat
  <2>1. IsFiniteSet(H!AllChats)
    BY FS_Interval DEF H!AllChats
  <2>2. IsFiniteSet(new)
    BY <2>1, FS_Subset
  <2> QED
    BY <2>2, FS_CardinalityType DEF H!Cardinality, Cardinality
<1>2. PICK q \in H!LatestFirst(new) : all = c10 \o [i \in DOMAIN q |-> H!Metadata(q[i])]
  BY DEF H!Combined
<1> DEFINE n == Cardinality(new)
           tail == [i \in DOMAIN q |-> H!Metadata(q[i])]
<1>3. /\ q \in [1..n -> new] /\ H!Range(q) = new
      /\ \A i, j \in 1..n : i < j => c1[q[i]] > c1[q[j]]
  BY <1>1, <1>2 DEF H!LatestFirst
<1>4. /\ c10 \in Seq(H!Items) /\ c2 \in SUBSET H!AllChats /\ c3 \in [H!AllChats -> H!Titles]
  BY DEF H!Typed
<1>5. \A c \in H!AllChats : H!Metadata(c) \in H!Items /\ H!Metadata(c).id = c
  BY <1>4 DEF H!Metadata, H!Items
<1>6. /\ n \in Nat /\ DOMAIN q = 1..n /\ \A i \in 1..n : q[i] \in new
  BY <1>1, <1>3
<1> HIDE DEF n, new
<1>7. tail \in [1..n -> H!Items] /\ \A i \in 1..n : tail[i] = H!Metadata(q[i])
  BY <1>5, <1>6 DEF new
<1>8. tail \in Seq(H!Items) /\ Len(tail) = n
  BY <1>6, <1>7
<1> HIDE DEF tail
<1>9. /\ all \in Seq(H!Items) /\ Len(all) = Len(c10) + n
      /\ \A i \in 1..Len(c10) : all[i] = c10[i]
      /\ \A i \in 1..n : all[Len(c10) + i] = tail[i]
  BY <1>2, <1>4, <1>8 DEF tail
<1>10. H!Ids(all) = H!Ids(c10) \cup page
  <2>1. /\ H!Ids(all) = {all[i].id : i \in 1..Len(all)}
        /\ H!Ids(c10) = {c10[i].id : i \in 1..Len(c10)}
        /\ Len(c10) \in Nat
    BY <1>4, <1>9 DEF H!Ids
  <2>2. \A i \in 1..Len(c10) : i \in 1..Len(all) /\ all[i].id = c10[i].id
    BY <1>6, <1>9, <2>1
  <2>3. \A i \in 1..n : Len(c10) + i \in 1..Len(all) /\ all[Len(c10) + i].id = q[i]
    BY <1>5, <1>6, <1>7, <1>9, <2>1 DEF new
  <2>4. \A c \in new : \E i \in 1..n : q[i] = c
    BY <1>3, <1>6 DEF H!Range
  <2>5. \A i \in 1..Len(all) : i \in 1..Len(c10) \/ \E j \in 1..n : i = Len(c10) + j
    <3> SUFFICES ASSUME NEW i \in 1..Len(all), ~(i \in 1..Len(c10))
                 PROVE  \E j \in 1..n : i = Len(c10) + j
      OBVIOUS
    <3>1. i - Len(c10) \in 1..n /\ i = Len(c10) + (i - Len(c10))
      BY <1>6, <1>9, <2>1
    <3> QED
      BY <3>1
  <2>6. ASSUME NEW c \in H!Ids(all)
        PROVE  c \in H!Ids(c10) \cup page
    <3>1. PICK i \in 1..Len(all) : c = all[i].id
      BY <2>1
    <3>2. CASE i \in 1..Len(c10)
      BY <2>1, <2>2, <3>1, <3>2
    <3>3. CASE \E j \in 1..n : i = Len(c10) + j
      BY <2>3, <3>1, <3>3, <1>6 DEF new
    <3> QED
      BY <2>5, <3>2, <3>3
  <2>7. ASSUME NEW c \in H!Ids(c10) \cup page
        PROVE  c \in H!Ids(all)
    <3>1. CASE c \in H!Ids(c10)
      BY <2>1, <2>2, <3>1
    <3>2. CASE c \in new
      BY <2>1, <2>3, <2>4, <3>2
    <3> QED
      BY <3>1, <3>2 DEF new
  <2> QED
    BY <2>6, <2>7
<1> QED
  BY <1>2, <1>3, <1>6, <1>7, <1>9, <1>10 DEF n, new

LEMMA HistorySlice ==
    ASSUME NEW all \in Seq(H!Items), c7.offset \in Nat, Limit \in Nat \ {0}
    PROVE  /\ H!Offset(all) = IF c7.offset <= Len(all) THEN c7.offset ELSE Len(all)
           /\ H!NextOffset(all) = IF H!Offset(all) + Limit <= Len(all) THEN H!Offset(all) + Limit
                                  ELSE Len(all)
           /\ H!Slice(all) \in Seq(H!Items)
           /\ H!Ids(H!Slice(all)) = {all[i].id : i \in H!Offset(all) + 1..H!NextOffset(all)}
           /\ H!Slice(all) = <<>> <=> H!Offset(all) = H!NextOffset(all)
<1>1. Len(all) \in Nat /\ Limit \in Nat /\ Limit > 0
  OBVIOUS
<1>2. H!Offset(all) = IF c7.offset <= Len(all) THEN c7.offset ELSE Len(all)
  BY <1>1, HistoryMin DEF H!Offset
<1> DEFINE o == H!Offset(all)
           m == IF o + Limit <= Len(all) THEN o + Limit ELSE Len(all)
<1>3. o \in Nat /\ o <= Len(all)
  BY <1>1, <1>2
<1>4. m \in Nat /\ o <= m /\ m <= Len(all)
  BY <1>1, <1>3
<1>5. H!Slice(all) = SubSeq(all, o + 1, m)
  <2>1. H!Slice(all) = SubSeq(all, o + 1, H!Min({o + Limit, Len(all)}))
    BY DEF H!Slice
  <2> HIDE DEF o
  <2>2. o + Limit \in Int /\ Len(all) \in Int
    BY <1>1, <1>3
  <2>3. H!Min({o + Limit, Len(all)}) = m
    BY <2>2, HistoryMin
  <2> QED
    BY <2>1, <2>3
<1> HIDE DEF o, m
<1>6. /\ SubSeq(all, o + 1, m) \in Seq(H!Items) /\ Len(SubSeq(all, o + 1, m)) = m - o
      /\ \A i \in 1..(m - o) : SubSeq(all, o + 1, m)[i] = all[o + i]
  BY <1>1, <1>3, <1>4
<1>7. H!NextOffset(all) = m
  BY <1>3, <1>4, <1>5, <1>6 DEF H!NextOffset, o
<1>8. H!Ids(H!Slice(all)) = {all[i].id : i \in o + 1..m}
  <2>1. H!Ids(H!Slice(all)) = {all[o + i].id : i \in 1..(m - o)}
    <3> DEFINE sub == H!Slice(all)
    <3>1. H!Ids(sub) = {sub[i].id : i \in DOMAIN sub}
      BY DEF H!Ids
    <3>2. DOMAIN sub = 1..(m - o) /\ \A i \in 1..(m - o) : sub[i] = all[o + i]
      BY <1>5, <1>6
    <3> HIDE DEF sub
    <3> QED
      BY <3>1, <3>2 DEF sub
  <2>2. \A i \in 1..(m - o) : o + i \in o + 1..m
    BY <1>3, <1>4
  <2>3. \A i \in o + 1..m : i - o \in 1..(m - o) /\ o + (i - o) = i
    BY <1>3, <1>4
  <2> QED
    BY <2>1, <2>2, <2>3
<1>9. H!Slice(all) = <<>> <=> o = m
  BY <1>3, <1>4, <1>5, <1>6
<1> QED
  BY <1>2, <1>5, <1>6, <1>7, <1>8, <1>9 DEF o, m

\* In a calm history, one of two chats comes before the other.
HistoryCalm == c1 = [c \in H!AllChats |-> c] /\ c2 \in SUBSET H!AllChats /\ NChats \in Nat

LEMMA HistoryOrder ==
    ASSUME HistoryCalm
    PROVE  /\ \A c \in H!AllChats : c \in Nat /\ c1[c] = c /\ ~H!Before(c, c)
           /\ \A c, d \in H!AllChats : c = d \/ H!Before(c, d) \/ H!Before(d, c)
           /\ \A c, d \in H!AllChats : ~(H!Before(c, d) /\ H!Before(d, c))
<1>1. \A c \in H!AllChats : c \in Nat /\ c1[c] = c
  BY DEF HistoryCalm, H!AllChats
<1> QED
  BY <1>1 DEF H!Before

LEMMA HistoryCount ==
    ASSUME HistoryCalm, NEW all \in Seq(H!Items), NEW k \in Nat, k <= Len(all),
           \A i, j \in 1..k : i < j => H!Before(all[i].id, all[j].id)
    PROVE  LET ids == {all[i].id : i \in 1..k}
           IN ids \subseteq H!AllChats /\ IsFiniteSet(ids) /\ Cardinality(ids) = k
<1> DEFINE ids == {all[i].id : i \in 1..k}
           f == [i \in 1..k |-> all[i].id]
<1>1. \A i \in 1..k : all[i].id \in H!AllChats
  <2>1. \A i \in 1..k : all[i] \in H!Items
    OBVIOUS
  <2> QED
    BY <2>1 DEF H!Items
<1>2. \A i, j \in 1..k : f[i] = f[j] => i = j
  <2> SUFFICES ASSUME NEW i \in 1..k, NEW j \in 1..k, i < j
               PROVE  all[i].id # all[j].id
    OBVIOUS
  <2>1. H!Before(all[i].id, all[j].id)
    OBVIOUS
  <2> QED
    BY <1>1, <2>1, HistoryOrder
<1>3. f \in Bijection(1..k, ids)
  <2>1. f \in [1..k -> ids]
    OBVIOUS
  <2>2. \A c \in ids : \E i \in 1..k : f[i] = c
    OBVIOUS
  <2> HIDE DEF f, ids
  <2> QED
    BY <1>2, <2>1, <2>2 DEF Bijection, Injection, Surjection, IsInjective
<1>4. k \in Int /\ 1 \in Int
  OBVIOUS
<1>5. IsFiniteSet(1..k) /\ Cardinality(1..k) = k
  <2>1. IsFiniteSet(1..k) /\ Cardinality(1..k) = IF 1 > k THEN 0 ELSE k - 1 + 1
    BY ONLY <1>4, FS_Interval
  <2> QED
    BY <2>1
<1> HIDE DEF f, ids
<1>6. ExistsBijection(1..k, ids)
  BY <1>3 DEF ExistsBijection
<1>7. IsFiniteSet(ids) /\ Cardinality(ids) = k
  BY <1>5, <1>6, FS_Bijection
<1> QED
  BY <1>1, <1>7 DEF ids

\* The rank of one of the first k is its place; all others rank behind.
LEMMA HistoryPlace ==
    ASSUME HistoryCalm, NEW all \in Seq(H!Items), NEW k \in Nat, k <= Len(all), H!Front(all, k),
           NEW i \in 1..k, NEW c, c = all[i].id
    PROVE  c \in H!AllChats /\ H!Rank(c) = i - 1
<1> DEFINE before == {d \in H!AllChats : H!Before(d, c)}
           h == i - 1
           first == {all[j].id : j \in 1..h}
<1>1. \A a, b \in 1..k : a < b => H!Before(all[a].id, all[b].id)
  BY DEF H!Front
<1>2. \A j \in 1..k : all[j].id \in H!AllChats
  BY <1>1, HistoryCount
<1>3. c \in H!AllChats
  BY <1>2
<1>4. h \in Nat /\ h <= Len(all) /\ \A j \in 1..h : j \in 1..k /\ j < i
  OBVIOUS
<1>5. before \subseteq first
  <2> SUFFICES ASSUME NEW d \in H!AllChats, H!Before(d, c)
               PROVE  \E j \in 1..h : all[j].id = d
    OBVIOUS
  <2>1. PICK j \in 1..k : all[j].id = d
    <3>1. ~H!Before(c, d)
      BY <1>3, HistoryOrder
    <3> QED
      BY <3>1 DEF H!Front
  <2>2. ~(i < j) /\ i # j
    BY <1>1, <1>3, <2>1, HistoryOrder
  <2>3. j \in 1..h
    BY <2>2
  <2> QED
    BY <2>1, <2>3
<1>6. first \subseteq before
  BY <1>1, <1>2, <1>4
<1>7. Cardinality(first) = h
  <2>1. \A a, b \in 1..h : a < b => H!Before(all[a].id, all[b].id)
    BY <1>1, <1>4
  <2> HIDE DEF h
  <2> QED
    BY <1>4, <2>1, HistoryCount
<1>8. before = first
  BY <1>5, <1>6
<1>9. H!Rank(c) = Cardinality(before)
  BY <1>3, HistoryRank DEF HistoryCalm
<1> QED
  BY <1>3, <1>7, <1>8, <1>9

LEMMA HistoryRanks ==
    ASSUME HistoryCalm, NEW all \in Seq(H!Items), NEW k \in Nat, k <= Len(all), H!Front(all, k),
           NEW c \in H!AllChats, H!Rank(c) < k
    PROVE  \E i \in 1..k : all[i].id = c /\ H!Rank(c) = i - 1
<1> DEFINE before == {d \in H!AllChats : H!Before(d, c)}
<1>1. IsFiniteSet(before) /\ H!Rank(c) = Cardinality(before) /\ H!Rank(c) \in Nat
  BY HistoryRank DEF HistoryCalm
<1>2. \A i, j \in 1..k : i < j => H!Before(all[i].id, all[j].id)
  BY DEF H!Front
<1>3. \A i \in 1..k : all[i].id \in H!AllChats
  BY <1>2, HistoryCount
<1>4. \E i \in 1..k : all[i].id = c
  <2> SUFFICES ASSUME ~\E i \in 1..k : all[i].id = c
               PROVE  FALSE
    OBVIOUS
  <2>1. \A i \in 1..k : H!Before(all[i].id, c)
    BY DEF H!Front
  <2>2. {all[i].id : i \in 1..k} \subseteq before
    BY <1>3, <2>1
  <2>3. Cardinality({all[i].id : i \in 1..k}) = k
    BY <1>2, HistoryCount
  <2>4. Cardinality({all[i].id : i \in 1..k}) <= Cardinality(before)
    BY <1>1, <2>2, FS_Subset
  <2> QED
    BY <1>1, <2>3, <2>4
<1> QED
  BY <1>4, HistoryPlace

\* A front stays one when what comes next is appended in its order.
LEMMA HistoryAppend ==
    ASSUME HistoryCalm, H!Typed, H!Front(c10, Len(c10)), NEW page \in SUBSET H!AllChats,
           page \cap H!Ids(c10) = {}, NEW all \in H!Combined(page),
           \A d \in page, i \in 1..Len(c10) : H!Before(c10[i].id, d),
           \A d, e \in page : d \in c2 <=> e \in c2,
           \A d \in page, e \in H!AllChats \ (H!Ids(c10) \cup page) : H!Before(d, e)
    PROVE  H!Front(all, Len(all))
<1>1. page \ H!Ids(c10) = page
  OBVIOUS
<1> DEFINE new == page \ H!Ids(c10)
<1>2. PICK q \in H!LatestFirst(new), n \in Nat :
             /\ n = Cardinality(new) /\ DOMAIN q = 1..n
             /\ H!Range(q) = new
             /\ \A i, j \in 1..n : i < j => c1[q[i]] > c1[q[j]]
             /\ all \in Seq(H!Items) /\ Len(all) = Len(c10) + n
             /\ \A i \in 1..Len(c10) : all[i] = c10[i]
             /\ \A i \in 1..n : all[Len(c10) + i] = H!Metadata(q[i]) /\ q[i] \in page
             /\ H!Ids(all) = H!Ids(c10) \cup page
  BY HistoryCombined DEF HistoryCalm
<1>3. /\ DOMAIN q = 1..n
      /\ H!Range(q) = page
      /\ \A i, j \in 1..n : i < j => c1[q[i]] > c1[q[j]]
      /\ all \in Seq(H!Items) /\ Len(all) = Len(c10) + n
      /\ \A i \in 1..Len(c10) : all[i] = c10[i]
      /\ \A i \in 1..n : all[Len(c10) + i] = H!Metadata(q[i]) /\ q[i] \in page
      /\ H!Ids(all) = H!Ids(c10) \cup page
  BY <1>1, <1>2
<1> HIDE DEF new
<1> DEFINE k == Len(c10)
<1>4. k \in Nat /\ Len(all) = k + n
  BY <1>3 DEF H!Typed
<1>5. \A i \in 1..n : all[k + i].id = q[i] /\ q[i] \in page
  <2>1. \A c : H!Metadata(c).id = c
    BY DEF H!Metadata
  <2> QED
    BY <1>3, <2>1
<1>6. \A i \in 1..k : all[i].id = c10[i].id
  BY <1>3
<1> HIDE DEF k
<1>7. \A i \in 1..Len(all) : i \in 1..k \/ \E m \in 1..n : i = k + m
  <2> SUFFICES ASSUME NEW i \in 1..Len(all), ~(i \in 1..k)
               PROVE  \E m \in 1..n : i = k + m
    OBVIOUS
  <2>1. i - k \in 1..n /\ i = k + (i - k)
    BY <1>4
  <2> QED
    BY <2>1
<1>8. ASSUME NEW i \in 1..Len(all), NEW j \in 1..Len(all), i < j
      PROVE  H!Before(all[i].id, all[j].id)
  <2>1. CASE j \in 1..k
    <3>1. i \in 1..k
      BY <1>4, <1>8, <2>1
    <3> QED
      BY <1>6, <1>8, <2>1, <3>1 DEF H!Front, k
  <2>2. CASE i \in 1..k /\ \E m \in 1..n : j = k + m
    BY <1>5, <1>6, <2>2 DEF k
  <2>3. ASSUME NEW l \in 1..n, NEW m \in 1..n, i = k + l, j = k + m
        PROVE  H!Before(all[i].id, all[j].id)
    <3>1. l < m
      BY <1>4, <1>8, <2>3
    <3>2. c1[q[l]] > c1[q[m]]
      BY <1>3, <3>1
    <3> QED
      BY <1>5, <2>3, <3>2 DEF H!Before
  <2> QED
    BY <1>7, <2>1, <2>2, <2>3
<1>9. ASSUME NEW c \in H!AllChats
      PROVE  \/ \E i \in 1..Len(all) : all[i].id = c
             \/ \A i \in 1..Len(all) : H!Before(all[i].id, c)
  <2>1. CASE c \in H!Ids(all)
    BY <1>3, <2>1 DEF H!Ids
  <2>2. CASE c \notin H!Ids(all)
    <3>1. \A i \in 1..k : H!Before(all[i].id, c)
      <4>1. ~\E i \in 1..k : c10[i].id = c
        BY <1>3, <2>2, <1>4 DEF H!Ids, k
      <4> QED
        BY <1>6, <4>1 DEF H!Front, k
    <3>2. \A m \in 1..n : H!Before(all[k + m].id, c)
      BY <1>3, <1>5, <2>2
    <3> QED
      BY <1>7, <3>1, <3>2
  <2> QED
    BY <2>1, <2>2
<1> QED
  BY <1>8, <1>9 DEF H!Front

\* A walk that goes on from its front shows the chats up to its next offset.
LEMMA HistoryShown ==
    ASSUME HistoryCalm, NEW all \in Seq(H!Items), c7.offset \in Nat, Limit \in Nat \ {0},
           NEW k \in Nat, H!NextOffset(all) <= k, k <= Len(all), H!Front(all, k),
           NEW c \in H!AllChats, H!Rank(c) < H!NextOffset(all), H!Rank(c) < c7.offset => c \in c13
    PROVE  c \in c13 \cup H!Ids(H!Slice(all))
<1>1. /\ H!Offset(all) = IF c7.offset <= Len(all) THEN c7.offset ELSE Len(all)
      /\ H!NextOffset(all) = IF H!Offset(all) + Limit <= Len(all) THEN H!Offset(all) + Limit
                             ELSE Len(all)
      /\ H!Ids(H!Slice(all)) = {all[i].id : i \in H!Offset(all) + 1..H!NextOffset(all)}
      /\ Len(all) \in Nat
  BY HistorySlice
<1>2. H!Offset(all) \in Nat /\ H!Offset(all) <= c7.offset /\ H!NextOffset(all) \in Nat
  BY <1>1
<1>3. H!Rank(c) \in Nat /\ H!Rank(c) < k
  <2>1. H!Rank(c) \in Nat
    BY HistoryRank DEF HistoryCalm
  <2> QED
    BY <1>2, <2>1
<1>4. PICK i \in 1..k : all[i].id = c /\ H!Rank(c) = i - 1
  BY <1>3, HistoryRanks
<1>5. CASE i <= H!Offset(all)
  BY <1>2, <1>4, <1>5
<1>6. CASE ~(i <= H!Offset(all))
  <2>1. i \in H!Offset(all) + 1..H!NextOffset(all)
    BY <1>2, <1>4, <1>6
  <2> QED
    BY <1>1, <1>4, <2>1
<1> QED
  BY <1>5, <1>6

\* A walk only goes on from where it is further.
LEMMA HistoryNext ==
    ASSUME NEW all \in Seq(H!Items), c7.offset \in Nat, Limit \in Nat \ {0}, MaxTarget \in Nat,
           NEW remote \in BOOLEAN
    PROVE  /\ H!NextOffset(all) \in Nat /\ H!NextOffset(all) <= Len(all)
           /\ H!Next_(all, remote) \in Nat
           /\ H!Next_(all, remote) # H!NoToken =>
                /\ H!Next_(all, remote) = H!NextOffset(all) /\ H!NextOffset(all) > c7.offset
                /\ H!NextOffset(all) <= MaxTarget /\ H!NextOffset(all) <= c7.offset + Limit
           /\ ~H!Stuck(all, remote) /\ H!Next_(all, remote) = H!NoToken =>
                ~remote /\ H!NextOffset(all) = Len(all)
<1>1. /\ H!Offset(all) = IF c7.offset <= Len(all) THEN c7.offset ELSE Len(all)
      /\ H!NextOffset(all) = IF H!Offset(all) + Limit <= Len(all) THEN H!Offset(all) + Limit
                             ELSE Len(all)
      /\ H!Slice(all) = <<>> <=> H!Offset(all) = H!NextOffset(all)
      /\ Len(all) \in Nat
  BY HistorySlice
<1>2. H!Offset(all) \in Nat /\ H!NextOffset(all) \in Nat /\ H!NextOffset(all) <= Len(all)
  BY <1>1
<1>3. H!LocalMore(all) <=> H!NextOffset(all) < Len(all)
  BY DEF H!LocalMore
<1>4. H!Stuck(all, remote) <=>
        \/ (remote \/ H!LocalMore(all)) /\ H!NextOffset(all) > MaxTarget
        \/ remote /\ ~H!LocalMore(all) /\ H!Slice(all) = <<>>
  BY DEF H!Stuck
<1>5. /\ ~H!Stuck(all, remote) /\ (remote \/ H!LocalMore(all)) =>
            H!Next_(all, remote) = H!NextOffset(all)
      /\ ~(~H!Stuck(all, remote) /\ (remote \/ H!LocalMore(all))) => H!Next_(all, remote) = 0
  BY DEF H!Next_, H!NoToken
<1>6. ASSUME ~H!Stuck(all, remote), remote \/ H!LocalMore(all)
      PROVE  /\ H!NextOffset(all) > c7.offset /\ H!NextOffset(all) <= MaxTarget
             /\ H!NextOffset(all) <= c7.offset + Limit
  <2>1. H!NextOffset(all) <= MaxTarget
    BY <1>2, <1>4, <1>6
  <2>2. H!Offset(all) # Len(all)
    <3>1. CASE H!LocalMore(all)
      BY <1>1, <1>2, <1>3, <3>1
    <3>2. CASE ~H!LocalMore(all)
      BY <1>1, <1>2, <1>3, <1>4, <1>6, <3>2
    <3> QED
      BY <3>1, <3>2
  <2> QED
    BY <1>1, <2>1, <2>2
<1> QED
  BY <1>2, <1>3, <1>5, <1>6 DEF H!NoToken

LEMMA HistoryNewestKept ==
    ASSUME c1' \in [H!AllChats -> Nat], NEW b \in Nat, \A c \in H!AllChats : c1'[c] <= b
    PROVE  H!NewestIsLatest'
<1>1. H!Newest' = H!Max({c1'[c] : c \in H!AllChats} \cup {0})
  BY DEF H!Newest
<1>2. H!Newest' \in Nat /\ \A c \in H!AllChats : c1'[c] <= H!Newest'
  BY <1>1, HistoryNewest
<1> QED
  BY <1>2 DEF H!NewestIsLatest

\* The parts of the invariant that speak of other goals.
LEMMA HistoryElse ==
    ASSUME c7' = c7
    PROVE  /\ c7.kind # "delete" => H!DeletionLooks'
           /\ c7.kind # "update" => H!UpdateLooks'
           /\ c7.kind # "search" => H!SearchReads' /\ H!SearchMissesNothing'
           /\ c7.kind # "list" => H!ListShows'
<1>1. c7.kind # "delete" => H!DeletionLooks'
  BY DEF H!DeletionLooks
<1>2. c7.kind # "update" => H!UpdateLooks'
  BY DEF H!UpdateLooks
<1>3. c7.kind # "search" => H!SearchReads' /\ H!SearchMissesNothing'
  BY DEF H!SearchReads, H!SearchMissesNothing
<1>4. c7.kind # "list" => H!ListShows'
  BY DEF H!ListShows
<1> QED
  BY <1>1, <1>2, <1>3, <1>4

\* What has not said "verified" has not said it wrongly.
LEMMA HistoryUnsaid ==
    ASSUME c14'.status \notin {"verified_absent", "verified_updated"}
    PROVE  H!AbsenceIsTrue' /\ H!UpdateIsTrue'
BY DEF H!AbsenceIsTrue, H!UpdateIsTrue

LEMMA HistoryGoal ==
    ASSUME H!Typed
    PROVE  /\ c7.kind \in {"delete", "update", "list", "search"}
           /\ c7.kind \in {"delete", "update"} => c7.chat \in H!AllChats
           /\ c7.kind = "update" => c7.fields \subseteq H!Fields
           /\ c7.kind \in {"list", "search"} => c7.offset \in Nat
           /\ c7.kind = "search" => c7.holder \in H!AllChats
<1>1. \/ c7 \in [kind: {"delete"}, chat: H!AllChats]
      \/ c7 \in [kind: {"update"}, chat: H!AllChats, fields: SUBSET H!Fields]
      \/ c7 \in [kind: {"list"}, offset: Nat]
      \/ c7 \in [kind: {"search"}, offset: {0}, holder: H!AllChats]
  BY DEF H!Typed
<1> QED
  BY <1>1

LEMMA HistoryLand ==
    ASSUME H!Inv, H!Land
    PROVE  H!Inv'
<1>1. /\ c4 /\ c4' = FALSE /\ c14.status = "open" /\ c5' = c5 /\ c6' = c6 /\ c7' = c7 /\ c8' = c8
      /\ c9' = c9 /\ c10' = c10 /\ c11' = c11 /\ c12' = c12 /\ c13' = c13 /\ c14' = c14
  BY DEF H!Land, H!Open
<1>2. c7.kind \in {"delete", "update"}
  BY <1>1 DEF H!Inv, H!GoalFits
<1>3. /\ H!Typed /\ c7.chat \in H!AllChats
      /\ c1 \in [H!AllChats -> Nat] /\ c3 \in [H!AllChats -> H!Titles]
      /\ c2 \in SUBSET H!AllChats /\ H!Newest \in Nat /\ \A c \in H!AllChats : c1[c] <= H!Newest
  BY <1>2, HistoryGoal DEF H!Inv, H!Typed, H!NewestIsLatest
<1>4. /\ c7.kind = "delete" => c1' = [c1 EXCEPT ![c7.chat] = 0] /\ c2' = c2 /\ c3' = c3
      /\ c7.kind # "delete" =>
           /\ c3' = IF "title" \in c7.fields THEN [c3 EXCEPT ![c7.chat] = "new"] ELSE c3
           /\ c2' = IF "is_pinned" \in c7.fields THEN c2 \cup {c7.chat} ELSE c2
           /\ c1' = c1
  BY DEF H!Land
<1>5. c1' \in [H!AllChats -> Nat] /\ \A c \in H!AllChats : c1'[c] <= H!Newest
  BY <1>3, <1>4
<1>6. c2' \in SUBSET H!AllChats /\ c3' \in [H!AllChats -> H!Titles]
  BY <1>3, <1>4 DEF H!Titles
<1>7. H!Typed'
  BY <1>1, <1>3, <1>5, <1>6 DEF H!Typed
<1>8. H!GoalFits'
  BY <1>1, <1>2 DEF H!Inv, H!GoalFits
<1>9. H!NewestIsLatest'
  BY <1>3, <1>5, HistoryNewestKept
<1>10. H!AbsenceIsTrue' /\ H!UpdateIsTrue'
  BY <1>1, HistoryUnsaid
<1>11. H!DeletionLooks'
  <2> SUFFICES ASSUME c7.kind = "delete"
               PROVE  H!DeletionLooks'
    BY <1>1, HistoryElse
  <2>1. c1'[c7.chat] = 0
    BY <1>3, <1>4
  <2>2. c7.chat \notin H!Alive'
    BY <1>1, <2>1 DEF H!Alive
  <2> QED
    BY <1>1, <2>2 DEF H!Inv, H!DeletionLooks
<1>12. H!UpdateLooks'
  <2> SUFFICES ASSUME c7.kind = "update", c7.chat \notin c5
               PROVE  H!UpdateLooks'
    BY <1>1, HistoryElse DEF H!UpdateLooks
  <2>1. c7.chat \in H!Alive' /\ (c3[c7.chat] = "new" => c3'[c7.chat] = "new") /\ c2 \subseteq c2'
    BY <1>3, <1>4 DEF H!Inv, H!UpdateLooks, H!Alive
  <2> QED
    BY <1>1, <2>1 DEF H!Inv, H!UpdateLooks
<1> QED
  BY <1>1, <1>2, <1>7, <1>8, <1>9, <1>10, <1>11, <1>12, HistoryElse DEF H!Inv

LEMMA HistoryUserChanges ==
    ASSUME H!Inv, NEW c \in H!AllChats, H!UserChanges(c)
    PROVE  H!Inv'
<1>1. /\ c14.status = "open" /\ c5' = c5 \cup {c} /\ c4' = c4 /\ c6' = c6 /\ c7' = c7 /\ c8' = c8
      /\ c9' = c9 /\ c10' = c10 /\ c11' = c11 /\ c12' = c12 /\ c13' = c13 /\ c14' = c14
  BY DEF H!UserChanges, H!Open
<1>2. /\ H!Typed /\ c1 \in [H!AllChats -> Nat] /\ c3 \in [H!AllChats -> H!Titles]
      /\ c2 \in SUBSET H!AllChats /\ H!Newest \in Nat /\ \A d \in H!AllChats : c1[d] <= H!Newest
  BY DEF H!Inv, H!Typed, H!NewestIsLatest
<1>3. \/ c2' = (IF c \in c2 THEN c2 \ {c} ELSE c2 \cup {c}) /\ c1' = c1 /\ c3' = c3
      \/ c3' = [c3 EXCEPT ![c] = "old"] /\ c1' = c1 /\ c2' = c2
      \/ c1' = [c1 EXCEPT ![c] = H!Newest + 1] /\ c2' = c2 /\ c3' = c3
      \/ c1' = [c1 EXCEPT ![c] = 0] /\ c2' = c2 /\ c3' = c3
  BY DEF H!UserChanges
<1>4. c1' \in [H!AllChats -> Nat] /\ \A d \in H!AllChats : c1'[d] <= H!Newest + 1
  BY <1>2, <1>3
<1>5. c2' \in SUBSET H!AllChats /\ c3' \in [H!AllChats -> H!Titles]
  BY <1>2, <1>3 DEF H!Titles
<1>6. \A d \in H!AllChats \ {c} : c1'[d] = c1[d] /\ c3'[d] = c3[d] /\ (d \in c2' <=> d \in c2)
  BY <1>2, <1>3
<1>7. H!Typed'
  <2>1. c5' \in SUBSET H!AllChats
    BY <1>1, <1>2 DEF H!Typed
  <2> QED
    BY <1>1, <1>2, <1>4, <1>5, <2>1 DEF H!Typed
<1>8. H!GoalFits'
  BY <1>1 DEF H!Inv, H!GoalFits
<1>9. H!NewestIsLatest'
  BY <1>2, <1>4, HistoryNewestKept
<1>10. H!AbsenceIsTrue' /\ H!UpdateIsTrue'
  BY <1>1, HistoryUnsaid
<1>11. H!DeletionLooks'
  <2> SUFFICES ASSUME c7.kind = "delete", c8 \in {"request", "scan"}
               PROVE  H!DeletionLooks'
    BY <1>1, HistoryElse DEF H!DeletionLooks
  <2>1. c7.chat \in H!AllChats
    BY <1>2, HistoryGoal
  <2>2. CASE c7.chat = c
    BY <1>1, <2>2 DEF H!Inv, H!DeletionLooks
  <2>3. CASE c7.chat # c
    <3>1. c7.chat \in H!Alive' <=> c7.chat \in H!Alive
      BY <1>6, <2>1, <2>3 DEF H!Alive
    <3>2. (c7.chat \in c2') = (c7.chat \in c2)
      BY <1>6, <2>1, <2>3
    <3>3. c1'[c7.chat] = c1[c7.chat] /\ c5 \subseteq c5'
      BY <1>1, <1>6, <2>1, <2>3
    <3>4. /\ c9.sources \in {<<FALSE, TRUE>>, <<TRUE>>}
          /\ c7.chat \in H!Alive \ c5 =>
               /\ c9.sources = <<TRUE>> => c7.chat \in c2
               /\ (c7.chat \in c2) = Head(c9.sources) /\ c9.cursor # H!NoToken =>
                    c1[c7.chat] < c9.cursor
      BY DEF H!Inv, H!DeletionLooks
    <3>5. /\ c9'.sources \in {<<FALSE, TRUE>>, <<TRUE>>}
          /\ c7.chat \in H!Alive' \ c5' =>
               /\ c9'.sources = <<TRUE>> => c7.chat \in c2'
               /\ (c7.chat \in c2') = Head(c9'.sources) /\ c9'.cursor # H!NoToken =>
                    c1'[c7.chat] < c9'.cursor
      BY <1>1, <3>1, <3>2, <3>3, <3>4
    <3> QED
      BY <1>1, <3>5 DEF H!DeletionLooks
  <2> QED
    BY <2>2, <2>3
<1>12. H!UpdateLooks'
  <2> SUFFICES ASSUME c7.kind = "update", c7.chat \notin c5, c7.chat # c
               PROVE  H!UpdateLooks'
    BY <1>1, HistoryElse DEF H!UpdateLooks
  <2>1. c7.chat \in H!AllChats
    BY <1>2, HistoryGoal
  <2>2. c7.chat \in H!Alive' /\ (c7.chat \in c2' <=> c7.chat \in c2) /\ c3'[c7.chat] = c3[c7.chat]
    BY <1>6, <2>1 DEF H!Inv, H!UpdateLooks, H!Alive
  <2> QED
    BY <1>1, <2>2 DEF H!Inv, H!UpdateLooks
<1>13. H!SearchReads' /\ H!SearchMissesNothing'
  BY <1>1 DEF H!Inv, H!SearchReads, H!SearchMissesNothing, H!Ids
<1>14. H!ListShows'
  BY <1>1 DEF H!Inv, H!ListShows
<1> QED
  BY <1>7, <1>8, <1>9, <1>10, <1>11, <1>12, <1>13, <1>14 DEF H!Inv

LEMMA HistoryRequest ==
    ASSUME H!Inv, H!Request
    PROVE  H!Inv'
<1>1. /\ c8 = "request" /\ c4' = TRUE /\ c1' = c1 /\ c2' = c2 /\ c3' = c3 /\ c5' = c5 /\ c6' = c6
      /\ c7' = c7 /\ c9' = c9 /\ c10' = c10 /\ c11' = c11 /\ c12' = c12 /\ c13' = c13
      /\ \/ /\ c14' \in {[status |-> "raised", next |-> 0],
                         [status |-> "acknowledgement_unverified", next |-> 0]}
            /\ c8' = "done"
         \/ c8' = "scan" /\ c14' = c14
  BY DEF H!Request, H!End, H!NoToken
<1>2. c7.kind \in {"delete", "update"}
  BY <1>1 DEF H!Inv, H!GoalFits
<1>3. c14' \in [status: H!Statuses, next: Nat]
  BY <1>1 DEF H!Inv, H!Typed, H!Statuses
<1>4. H!Typed'
  BY <1>1, <1>3 DEF H!Inv, H!Typed
<1>5. H!GoalFits' /\ H!NewestIsLatest'
  <2>1. H!GoalFits'
    BY <1>1, <1>2 DEF H!GoalFits
  <2>2. H!NewestIsLatest'
    BY <1>1 DEF H!Inv, H!NewestIsLatest, H!Newest
  <2> QED
    BY <2>1, <2>2
<1>6. H!AbsenceIsTrue' /\ H!UpdateIsTrue'
  <2>1. CASE c14' = c14
    BY <1>1, <2>1 DEF H!Inv, H!AbsenceIsTrue, H!UpdateIsTrue, H!Alive, H!Requested, H!Metadata
  <2>2. CASE c14' # c14
    BY <1>1, <2>2, HistoryUnsaid
  <2> QED
    BY <2>1, <2>2
<1>7. H!DeletionLooks'
  BY <1>1 DEF H!Inv, H!DeletionLooks, H!Alive
<1>8. H!UpdateLooks'
  BY <1>1 DEF H!Inv, H!UpdateLooks, H!Alive
<1> QED
  BY <1>1, <1>2, <1>4, <1>5, <1>6, <1>7, <1>8, HistoryElse DEF H!Inv

\* What the steps of a search and of the caller leave alone.
LEMMA HistoryKept ==
    ASSUME H!Inv, UNCHANGED <<c1, c2, c3, c4, c5>>
    PROVE  /\ H!NewestIsLatest'
           /\ c7' = c7 /\ c8' = c8 => H!GoalFits'
           /\ c14' = c14 /\ c7' = c7 => H!AbsenceIsTrue' /\ H!UpdateIsTrue'
<1>1. H!NewestIsLatest'
  BY DEF H!Inv, H!NewestIsLatest, H!Newest
<1>2. c7' = c7 /\ c8' = c8 => H!GoalFits'
  BY DEF H!Inv, H!GoalFits
<1>3. c14' = c14 /\ c7' = c7 => H!AbsenceIsTrue' /\ H!UpdateIsTrue'
  BY DEF H!Inv, H!AbsenceIsTrue, H!UpdateIsTrue, H!Alive, H!Requested, H!Metadata
<1> QED
  BY <1>1, <1>2, <1>3

LEMMA HistoryReadContent ==
    ASSUME H!Inv, H!ReadContent
    PROVE  H!Inv'
<1> DEFINE c == Head(c12.todo).id
<1>1. /\ c8 = "read" /\ c12.todo # <<>>
      /\ UNCHANGED <<c1, c2, c3, c4, c5>>
      /\ c6' = c6 /\ c7' = c7 /\ c8' = c8 /\ c9' = c9 /\ c10' = c10 /\ c11' = c11 /\ c13' = c13
      /\ c14' = c14
      /\ \/ c12' = [c12 EXCEPT !.todo = Tail(@), !.failed = @ \cup {c}]
         \/ c12' = [c12 EXCEPT !.todo = Tail(@), !.read = @ \cup {c},
                               !.matched = IF c7.holder = c THEN @ \cup {c} ELSE @]
  BY DEF H!ReadContent, H!Unread, H!provider
<1>2. c7.kind = "search" /\ c7.holder \in H!AllChats
  BY <1>1, HistoryGoal DEF H!Inv, H!GoalFits
<1>3. c12 \in [todo: Seq(H!Items), read: SUBSET H!AllChats, failed: SUBSET H!AllChats,
               matched: SUBSET H!AllChats]
  BY DEF H!Inv, H!Typed
<1>4. /\ Tail(c12.todo) \in Seq(H!Items) /\ Head(c12.todo) \in H!Items
      /\ Len(c12.todo) \in Nat \ {0} /\ Len(Tail(c12.todo)) = Len(c12.todo) - 1
      /\ Head(c12.todo) = c12.todo[1]
      /\ \A i \in 1..Len(Tail(c12.todo)) : Tail(c12.todo)[i] = c12.todo[i + 1]
  BY <1>1, <1>3
<1>5. c \in H!AllChats
  BY <1>4 DEF H!Items
<1>6. H!Ids(c12.todo) \subseteq {c} \cup H!Ids(Tail(c12.todo))
  <2>1. H!Ids(c12.todo) = {c12.todo[i].id : i \in 1..Len(c12.todo)}
    BY <1>3 DEF H!Ids
  <2>2. H!Ids(Tail(c12.todo)) = {Tail(c12.todo)[i].id : i \in 1..Len(Tail(c12.todo))}
    <3> DEFINE s == Tail(c12.todo)
    <3>1. s \in Seq(H!Items)
      BY <1>4
    <3> HIDE DEF s
    <3>2. H!Ids(s) = {s[i].id : i \in 1..Len(s)}
      BY <3>1 DEF H!Ids
    <3> QED
      BY <3>2 DEF s
  <2>3. ASSUME NEW i \in 1..Len(c12.todo), i # 1
        PROVE  c12.todo[i].id \in H!Ids(Tail(c12.todo))
    <3>1. i - 1 \in 1..Len(Tail(c12.todo)) /\ (i - 1) + 1 = i
      BY <1>4, <2>3
    <3>2. Tail(c12.todo)[i - 1] = c12.todo[i]
      BY <1>4, <3>1
    <3> QED
      BY <2>2, <3>1, <3>2
  <2> QED
    BY <1>4, <2>1, <2>3
<1> HIDE DEF c
<1>7. /\ c12'.todo = Tail(c12.todo)
      /\ \/ /\ c12'.failed = c12.failed \cup {c}
            /\ c12'.read = c12.read /\ c12'.matched = c12.matched
         \/ /\ c12'.failed = c12.failed /\ c12'.read = c12.read \cup {c}
            /\ c12'.matched = IF c7.holder = c THEN c12.matched \cup {c} ELSE c12.matched
      /\ c12' = [todo |-> c12'.todo, read |-> c12'.read, failed |-> c12'.failed,
                 matched |-> c12'.matched]
  BY <1>1, <1>3
<1>8. H!Typed'
  <2>1. /\ c12'.todo \in Seq(H!Items) /\ c12'.read \in SUBSET H!AllChats
        /\ c12'.failed \in SUBSET H!AllChats /\ c12'.matched \in SUBSET H!AllChats
    BY <1>3, <1>4, <1>5, <1>7
  <2>2. c12' \in [todo: Seq(H!Items), read: SUBSET H!AllChats, failed: SUBSET H!AllChats,
                  matched: SUBSET H!AllChats]
    BY <1>7, <2>1
  <2> QED
    BY <1>1, <2>2 DEF H!Inv, H!Typed
<1>9. H!SearchReads'
  <2>1. /\ c13 \subseteq H!Ids(c12.todo) \cup c12.read \cup c12.failed
        /\ c7.holder \in c12.read => c7.holder \in c12.matched
    BY <1>1, <1>2 DEF H!Inv, H!SearchReads
  <2>2. c13' \subseteq H!Ids(c12'.todo) \cup c12'.read \cup c12'.failed
    BY <1>1, <1>6, <1>7, <2>1
  <2>3. c7.holder \in c12'.read => c7.holder \in c12'.matched
    BY <1>7, <2>1
  <2> QED
    BY <1>1, <2>2, <2>3 DEF H!SearchReads, H!Ids
<1>10. H!SearchMissesNothing'
  BY <1>1 DEF H!SearchMissesNothing
<1> QED
  BY <1>1, <1>2, <1>8, <1>9, <1>10, HistoryElse, HistoryKept DEF H!Inv

LEMMA HistorySearchEnds ==
    ASSUME H!Inv, H!SearchEnds, Limit \in Nat \ {0}, MaxTarget \in Nat
    PROVE  H!Inv'
<1>1. /\ c8 = "read" /\ c12.todo = <<>> /\ c8' = "done"
      /\ UNCHANGED <<c1, c2, c3, c4, c5>>
      /\ c6' = c6 /\ c7' = c7 /\ c9' = c9 /\ c10' = c10 /\ c11' = c11 /\ c12' = c12 /\ c13' = c13
      /\ c14' = [status |-> IF c12.failed # {}
                            THEN IF c12.read = {} THEN "content_scan_failed"
                                                  ELSE "content_scan_incomplete"
                            ELSE IF H!Stuck(c10, c11) THEN "bounded_incomplete" ELSE "observed",
                 next |-> H!Next_(c10, c11)]
  BY DEF H!SearchEnds, H!provider
<1>2. c7.kind = "search" /\ c7.offset \in Nat
  BY <1>1, HistoryGoal DEF H!Inv, H!GoalFits
<1>3. c10 \in Seq(H!Items) /\ c11 \in BOOLEAN
  BY DEF H!Inv, H!Typed
<1>4. H!Next_(c10, c11) \in Nat
  BY <1>2, <1>3, HistoryNext
<1>5. /\ c14'.status \in {"content_scan_failed", "content_scan_incomplete", "bounded_incomplete",
                          "observed"}
      /\ c14'.status = "observed" => c12.failed = {}
      /\ c14' \in [status: H!Statuses, next: Nat]
  BY <1>1, <1>4 DEF H!Statuses
<1>6. H!Typed'
  BY <1>1, <1>5 DEF H!Inv, H!Typed
<1>7. H!GoalFits' /\ H!SearchReads'
  BY <1>1 DEF H!Inv, H!GoalFits, H!SearchReads
<1>8. H!SearchMissesNothing'
  <2>1. c13 \subseteq H!Ids(c12.todo) \cup c12.read \cup c12.failed
    BY <1>1, <1>2 DEF H!Inv, H!SearchReads
  <2>2. H!Ids(c12.todo) = {}
    BY <1>1 DEF H!Ids
  <2>3. c7.holder \in c12.read => c7.holder \in c12.matched
    BY <1>1, <1>2 DEF H!Inv, H!SearchReads
  <2> QED
    BY <1>1, <1>5, <2>1, <2>2, <2>3 DEF H!SearchMissesNothing
<1>9. H!AbsenceIsTrue' /\ H!UpdateIsTrue'
  BY <1>5, HistoryUnsaid
<1> QED
  BY <1>1, <1>2, <1>6, <1>7, <1>8, <1>9, HistoryElse, HistoryKept DEF H!Inv

LEMMA HistoryContinue ==
    ASSUME H!Inv, H!Continue, NChats \in Nat
    PROVE  H!Inv'
<1>1. /\ c8 = "done" /\ c7.kind = "list" /\ c14.next # 0 /\ c8' = "scan"
      /\ c7' = [c7 EXCEPT !.offset = c14.next]
      /\ c9' = H!Scan(H!Sources(c7)) /\ c10' = <<>> /\ c11' = FALSE
      /\ c14' = [status |-> "open", next |-> 0]
      /\ UNCHANGED <<c1, c2, c3, c4, c5>>
      /\ c6' = c6 /\ c12' = c12 /\ c13' = c13
  BY DEF H!Continue, H!provider, H!NoToken
<1>2. /\ H!Typed /\ c14.next \in Nat /\ c7 \in [kind: {"list"}, offset: Nat]
  <2>1. H!Typed /\ c14 \in [status: H!Statuses, next: Nat]
    BY DEF H!Inv, H!Typed
  <2>2. c7 \in [kind: {"list"}, offset: Nat]
    BY <1>1, <2>1 DEF H!Typed
  <2> QED
    BY <2>1, <2>2
<1>3. c7' = [kind |-> "list", offset |-> c14.next]
  BY <1>1, <1>2
<1>4. c9' = [sources |-> <<TRUE, FALSE>>, cursor |-> 0, tokens |-> {}, pages |-> 0, count |-> 0]
  BY <1>1 DEF H!Scan, H!Sources, H!NoToken
<1>5. /\ c7' \in [kind: {"list"}, offset: Nat] /\ c7'.kind = "list" /\ c7'.offset = c14.next
      /\ c9'.sources = <<TRUE, FALSE>> /\ c9'.cursor = 0 /\ c9'.count = 0
  BY <1>2, <1>3, <1>4
<1>6. c9' \in [sources: {<<TRUE, FALSE>>, <<FALSE, TRUE>>, <<TRUE>>, <<FALSE>>}, cursor: Nat,
               tokens: SUBSET (Nat \ {H!NoToken}), pages: Nat, count: Nat]
  BY <1>4
<1>7. H!Typed'
  <2>1. c10' \in Seq(H!Items)
    <3>1. <<>> \in Seq(H!Items)
      OBVIOUS
    <3> QED
      BY <1>1, <3>1
  <2>2. c14' \in [status: H!Statuses, next: Nat]
    BY <1>1 DEF H!Statuses
  <2>3. c11' \in BOOLEAN /\ c8' \in {"request", "scan", "read", "done"}
    BY <1>1
  <2> QED
    BY <1>1, <1>2, <1>5, <1>6, <2>1, <2>2, <2>3 DEF H!Typed
<1>8. H!GoalFits' /\ H!AbsenceIsTrue' /\ H!UpdateIsTrue'
  <2>1. H!GoalFits'
    BY <1>1, <1>5 DEF H!Inv, H!GoalFits
  <2>2. c14'.status = "open"
    BY <1>1
  <2> QED
    BY <2>1, <2>2, HistoryUnsaid
<1>9. H!DeletionLooks' /\ H!UpdateLooks' /\ H!SearchReads' /\ H!SearchMissesNothing'
  BY <1>5 DEF H!DeletionLooks, H!UpdateLooks, H!SearchReads, H!SearchMissesNothing
<1>10. H!ListShows'
  <2> SUFFICES ASSUME c5 = {}, ~c6
               PROVE  /\ c1' = [d \in H!AllChats |-> d] /\ H!ScanIsFront'
                      /\ \A d \in H!AllChats : H!Rank(d)' < c14.next => d \in c13
    BY <1>1, <1>5 DEF H!ListShows
  <2>1. c1' = [d \in H!AllChats |-> d]
    BY <1>1 DEF H!Inv, H!ListShows
  <2>2. \A d \in H!AllChats : H!Rank(d)' < c14.next => d \in c13
    BY <1>1 DEF H!Inv, H!ListShows, H!NoToken, H!Rank, H!Before
  <2>3. Len(c10)' = 0 /\ H!Front(c10, 0)' /\ H!Ids(c10)' = {}
    BY <1>1 DEF H!Front, H!Ids
  <2>4. \A d \in H!AllChats : ~H!Passed(d)'
    BY <1>5 DEF H!Passed, H!NoToken
  <2>5. H!ScanIsFront'
    <3>1. c9'.count = Len(c10)' /\ H!Front(c10, Len(c10))'
      BY <1>5, <2>3
    <3>2. \A d \in H!AllChats : d \in H!Ids(c10)' <=> d \in c2' /\ H!Passed(d)'
      BY <2>3, <2>4
    <3>3. ~c11'
      BY <1>1
    <3> QED
      BY <1>5, <3>1, <3>2, <3>3 DEF H!ScanIsFront
  <2> QED
    BY <2>1, <2>2, <2>5
<1> QED
  BY <1>1, <1>7, <1>8, <1>9, <1>10, HistoryKept DEF H!Inv

LEMMA HistoryPair ==
    ASSUME NEW a, NEW b
    PROVE  /\ Head(<<a, b>>) = a /\ Tail(<<a, b>>) = <<b>> /\ Len(<<a, b>>) = 2
           /\ Head(<<a>>) = a /\ Len(<<a>>) = 1
OBVIOUS

LEMMA HistorySources ==
    /\ Head(<<TRUE, FALSE>>) = TRUE /\ Tail(<<TRUE, FALSE>>) = <<FALSE>> /\ Len(<<TRUE, FALSE>>) = 2
    /\ Head(<<FALSE, TRUE>>) = FALSE /\ Tail(<<FALSE, TRUE>>) = <<TRUE>> /\ Len(<<FALSE, TRUE>>) = 2
    /\ Head(<<TRUE>>) = TRUE /\ Len(<<TRUE>>) = 1 /\ Head(<<FALSE>>) = FALSE /\ Len(<<FALSE>>) = 1
BY HistoryPair

LEMMA HistoryDeletePage ==
    ASSUME H!Inv, H!DeletePage, NChats \in Nat
    PROVE  H!Inv'
<1>1. /\ c8 = "scan" /\ c7.kind = "delete"
      /\ UNCHANGED <<c1, c2, c3, c4, c5>> /\ c10' = c10 /\ c11' = c11
  BY DEF H!DeletePage, H!provider
<1>2. /\ H!Typed /\ H!NewestIsLatest /\ H!DeletionLooks /\ c7.chat \in H!AllChats
      /\ c9.sources \in {<<FALSE, TRUE>>, <<TRUE>>} /\ c6 \in BOOLEAN
      /\ c9.cursor \in Nat /\ c9.tokens \subseteq Nat \ {0} /\ c9.pages \in Nat /\ c9.count \in Nat
      /\ c9 = [sources |-> c9.sources, cursor |-> c9.cursor, tokens |-> c9.tokens,
               pages |-> c9.pages, count |-> c9.count]
  <2>1. H!Typed /\ H!NewestIsLatest /\ H!DeletionLooks /\ c7.chat \in H!AllChats
    BY <1>1, HistoryGoal DEF H!Inv
  <2>2. c9.sources \in {<<FALSE, TRUE>>, <<TRUE>>}
    BY <1>1, <2>1 DEF H!DeletionLooks
  <2>3. c9 \in [sources: {<<TRUE, FALSE>>, <<FALSE, TRUE>>, <<TRUE>>, <<FALSE>>}, cursor: Nat,
                tokens: SUBSET (Nat \ {H!NoToken}), pages: Nat, count: Nat] /\ c6 \in BOOLEAN
    BY <2>1 DEF H!Typed
  <2> QED
    BY <2>1, <2>2, <2>3 DEF H!NoToken
\* Whatever ends the call other than "verified" leaves nothing to show.
<1>3. ASSUME NEW status \in H!Statuses, H!End(status), c6' \in BOOLEAN,
             status = "verified_absent" => c7.chat \notin H!Alive \/ c7.chat \in c5,
             status # "verified_updated"
      PROVE  H!Inv'
  <2>1. /\ c14' = [status |-> status, next |-> 0] /\ c8' = "done" /\ c7' = c7 /\ c9' = c9
        /\ c12' = c12 /\ c13' = c13
    BY <1>3 DEF H!End, H!NoToken
  <2>2. H!Typed'
    BY <1>1, <1>2, <1>3, <2>1 DEF H!Typed
  <2>3. H!GoalFits'
    BY <1>1, <2>1 DEF H!Inv, H!GoalFits
  <2>4. H!AbsenceIsTrue' /\ H!UpdateIsTrue'
    BY <1>1, <1>3, <2>1 DEF H!AbsenceIsTrue, H!UpdateIsTrue, H!Alive
  <2>5. H!DeletionLooks'
    BY <2>1 DEF H!DeletionLooks
  <2> QED
    BY <1>1, <2>1, <2>2, <2>3, <2>4, <2>5, HistoryElse, HistoryKept DEF H!Inv
\* Going on, behind what was read or with the pinned chats.
<1>4. ASSUME c6' \in BOOLEAN, UNCHANGED <<c7, c8, c12, c13, c14>>,
             c9' \in [sources: {<<TRUE, FALSE>>, <<FALSE, TRUE>>, <<TRUE>>, <<FALSE>>}, cursor: Nat,
                      tokens: SUBSET (Nat \ {H!NoToken}), pages: Nat, count: Nat],
             c9'.sources \in {<<FALSE, TRUE>>, <<TRUE>>},
             c7.chat \in H!Alive \ c5 =>
               /\ c9'.sources = <<TRUE>> => c7.chat \in c2
               /\ (c7.chat \in c2) = Head(c9'.sources) /\ c9'.cursor # 0 =>
                     c1[c7.chat] < c9'.cursor
      PROVE  H!Inv'
  <2>1. H!Typed'
    BY <1>1, <1>2, <1>4 DEF H!Typed
  <2>2. H!DeletionLooks'
    BY <1>1, <1>4 DEF H!DeletionLooks, H!Alive, H!NoToken
  <2> QED
    BY <1>1, <1>4, <2>1, <2>2, HistoryElse, HistoryKept DEF H!Inv
<1>5. CASE H!End("read_back_error") /\ UNCHANGED c6
  BY <1>2, <1>3, <1>5 DEF H!Statuses
<1>6. ASSUME NEW a \in H!Answers(PageMax), H!ObserveAbsence(a),
             c6' = (c6 \/ a.token \in c9.tokens)
      PROVE  H!Inv'
  <2>1. c6' \in BOOLEAN
    BY <1>2, <1>6
  <2>2. /\ H!Rest \subseteq H!Alive /\ a.page \subseteq H!Rest
        /\ H!Cardinality(a.page) \in Nat /\ a.token \in Nat
        /\ a.token = 0 => a.page = H!Rest
        /\ a.token # 0 /\ a.token \notin c9.tokens =>
             \A c \in H!Rest : c \in a.page <=> c1[c] >= a.token
    BY <1>2, HistoryPage DEF H!NoToken
  <2>3. c7.chat \in H!Alive \ c5 /\ (c7.chat \in c2) = Head(c9.sources) => c7.chat \in H!Rest
    BY <1>1, <1>2 DEF H!DeletionLooks, H!Rest, H!NoToken
  <2>4. CASE c7.chat \in a.page /\ H!End("still_present")
    BY <1>3, <2>1, <2>4 DEF H!Statuses
  <2>5. CASE /\ c7.chat \notin a.page /\ a.token = 0 /\ Len(c9.sources) = 1
             /\ H!End("verified_absent")
    <3>1. c9.sources = <<TRUE>> /\ Head(c9.sources) = TRUE
      <4>1. 1 # 2
        OBVIOUS
      <4> QED
        BY <1>2, <2>5, <4>1, HistorySources
    <3>2. c7.chat \notin H!Alive \/ c7.chat \in c5
      <4> SUFFICES ASSUME c7.chat \in H!Alive \ c5
                   PROVE  FALSE
        BY <1>2 DEF H!Alive
      <4>1. c7.chat \in c2
        BY <1>1, <1>2, <3>1 DEF H!DeletionLooks
      <4>2. (c7.chat \in c2) = Head(c9.sources)
        BY <3>1, <4>1
      <4> QED
        BY <2>2, <2>3, <2>5, <4>2
    <3> QED
      BY <1>3, <2>1, <2>5, <3>2 DEF H!Statuses
  <2>6. CASE /\ c7.chat \notin a.page /\ a.token = 0 /\ Len(c9.sources) > 1
             /\ c9' = H!Scan(Tail(c9.sources)) /\ UNCHANGED <<c7, c8, c12, c13, c14>>
    <3>1. c9.sources = <<FALSE, TRUE>>
      <4>1. c9.sources # <<TRUE>>
        <5>1. ~(1 > 1)
          OBVIOUS
        <5> QED
          BY <2>6, <5>1, HistorySources
      <4> QED
        BY <1>2, <4>1
    <3>2. Tail(c9.sources) = <<TRUE>> /\ Head(c9.sources) = FALSE
      BY <3>1, HistorySources
    <3>3. c9' = [sources |-> <<TRUE>>, cursor |-> 0, tokens |-> {}, pages |-> 0, count |-> 0]
      BY <2>6, <3>2 DEF H!Scan, H!NoToken
    <3>4. c7.chat \in H!Alive \ c5 => c7.chat \in c2
      <4> SUFFICES ASSUME c7.chat \in H!Alive \ c5, c7.chat \notin c2
                   PROVE  FALSE
        OBVIOUS
      <4>1. (c7.chat \in c2) = Head(c9.sources)
        <5>1. (c7.chat \in c2) = FALSE
          OBVIOUS
        <5> QED
          BY <3>2, <5>1
      <4> QED
        BY <2>2, <2>3, <2>6, <4>1
    <3>5. c9' \in [sources: {<<TRUE, FALSE>>, <<FALSE, TRUE>>, <<TRUE>>, <<FALSE>>}, cursor: Nat,
                   tokens: SUBSET (Nat \ {H!NoToken}), pages: Nat, count: Nat]
      BY <3>3
    <3>6. c9'.sources = <<TRUE>> /\ c9'.cursor = 0
      BY <3>3
    <3> QED
      BY <1>4, <2>1, <2>6, <3>4, <3>5, <3>6
  <2>7. CASE c7.chat \notin a.page /\ H!End("read_back_error")
    BY <1>3, <2>1, <2>7 DEF H!Statuses
  <2>8. CASE c7.chat \notin a.page /\ H!BoundReached
    BY <1>3, <2>1, <2>8 DEF H!Statuses, H!BoundReached
  <2>9. CASE c7.chat \notin a.page /\ a.token # 0 /\ a.token \notin c9.tokens /\ H!Advance(a)
    <3>1. /\ c9' = [c9 EXCEPT !.cursor = a.token, !.tokens = @ \cup {a.token},
                              !.pages = @ + 1, !.count = @ + H!Cardinality(a.page)]
          /\ UNCHANGED <<c7, c8, c12, c13, c14>>
      BY <2>9 DEF H!Advance
    <3>2. c9' = [sources |-> c9.sources, cursor |-> a.token, tokens |-> c9.tokens \cup {a.token},
                 pages |-> c9.pages + 1, count |-> c9.count + H!Cardinality(a.page)]
      BY <1>2, <3>1
    <3>3. c9' \in [sources: {<<TRUE, FALSE>>, <<FALSE, TRUE>>, <<TRUE>>, <<FALSE>>}, cursor: Nat,
                   tokens: SUBSET (Nat \ {H!NoToken}), pages: Nat, count: Nat]
      <4>1. /\ c9.sources \in {<<TRUE, FALSE>>, <<FALSE, TRUE>>, <<TRUE>>, <<FALSE>>}
            /\ c9.tokens \cup {a.token} \in SUBSET (Nat \ {H!NoToken})
        BY <1>2, <2>2, <2>9 DEF H!NoToken
      <4>2. c9.pages + 1 \in Nat /\ c9.count + H!Cardinality(a.page) \in Nat /\ a.token \in Nat
        BY <1>2, <2>2
      <4> QED
        BY <3>2, <4>1, <4>2
    <3>4. c9'.sources = c9.sources /\ c9'.cursor = a.token
      BY <3>2
    <3>5. c7.chat \in H!Alive \ c5 =>
               /\ c9'.sources = <<TRUE>> => c7.chat \in c2
               /\ (c7.chat \in c2) = Head(c9'.sources) => c1[c7.chat] < c9'.cursor
      <4> SUFFICES ASSUME c7.chat \in H!Alive \ c5
                   PROVE  /\ c9'.sources = <<TRUE>> => c7.chat \in c2
                          /\ (c7.chat \in c2) = Head(c9'.sources) => c1[c7.chat] < c9'.cursor
        OBVIOUS
      <4>1. c9'.sources = <<TRUE>> => c7.chat \in c2
        BY <1>1, <1>2, <3>4 DEF H!DeletionLooks
      <4>2. (c7.chat \in c2) = Head(c9.sources) => c1[c7.chat] < a.token
        <5>1. c1[c7.chat] \in Nat
          BY <1>2 DEF H!Typed
        <5> QED
          BY <2>2, <2>3, <2>9, <5>1
      <4> QED
        BY <3>4, <4>1, <4>2
    <3> QED
      BY <1>2, <1>4, <2>1, <3>1, <3>3, <3>4, <3>5
  <2> QED
    BY <1>6, <2>4, <2>5, <2>6, <2>7, <2>8, <2>9 DEF H!ObserveAbsence, H!NoToken
<1>7. \/ H!End("read_back_error") /\ UNCHANGED c6
      \/ \E a \in H!Answers(PageMax) :
             H!ObserveAbsence(a) /\ c6' = (c6 \/ a.token \in c9.tokens)
  BY DEF H!DeletePage
<1> QED
  BY <1>5, <1>6, <1>7

\* Of the listing that is being read, the items hold what lies before the
\* cursor; with the page, what lies before its token.
LEMMA HistorySourceRead ==
    ASSUME H!Typed, H!NewestIsLatest, HistoryCalm,
           NEW source \in SUBSET H!AllChats,
           \A c \in H!AllChats : c \in source <=> (c \in c2) = Head(c9.sources),
           \A c \in source : c \in H!Ids(c10) <=> H!Passed(c),
           NEW size, NEW a \in H!Answers(size), a.token \notin c9.tokens
    PROVE  /\ a.page \subseteq source /\ a.page \cap H!Ids(c10) = {}
           /\ a.page # {} /\ a.token # 0 =>
                \A c \in source : c \in H!Ids(c10) \cup a.page <=> c1[c] >= a.token
           /\ a.page = {} \/ a.token = 0 => source \subseteq H!Ids(c10) \cup a.page
           /\ \A d \in a.page, e \in source \ (H!Ids(c10) \cup a.page) : c1[d] > c1[e]
           /\ \A d \in a.page, e \in source : e \in H!Ids(c10) => c1[e] > c1[d]
<1>1. /\ H!Rest \subseteq H!Alive /\ a.page \subseteq H!Rest /\ a.token \in Nat
      /\ a.token = 0 => a.page = H!Rest
      /\ a.token # 0 =>
           /\ a.page = {} => H!Rest = {}
           /\ \A c \in H!Rest : c \in a.page <=> c1[c] >= a.token
           /\ a.page # {} /\ c9.cursor # 0 => a.token < c9.cursor
  BY HistoryPage DEF HistoryCalm, H!NoToken
<1>2. \A c \in H!AllChats : c \in Nat /\ c1[c] = c /\ c > 0
  BY HistoryOrder DEF H!AllChats
<1>3. H!Alive = H!AllChats
  BY <1>2 DEF H!Alive
<1>4. c9.cursor \in Nat
  BY DEF H!Typed
<1>5. \A c \in H!AllChats : c \in H!Rest <=> c \in source /\ ~H!Passed(c)
  <2>1. \A c \in H!AllChats : c \in H!Rest <=>
            (c \in c2) = Head(c9.sources) /\ (c9.cursor = 0 \/ c1[c] < c9.cursor)
    BY <1>3 DEF H!Rest, H!NoToken
  <2>2. \A c \in H!AllChats : H!Passed(c) <=> ~(c9.cursor = 0 \/ c1[c] < c9.cursor)
    BY <1>2, <1>4 DEF H!Passed, H!NoToken
  <2> QED
    BY <2>1, <2>2
<1>6. \A c \in source : c \in H!Rest <=> c \notin H!Ids(c10)
  BY <1>5
<1>7. a.page \subseteq source /\ a.page \cap H!Ids(c10) = {}
  BY <1>1, <1>3, <1>5, <1>6
<1>8. \A c \in H!AllChats : H!Passed(c) <=> c9.cursor # 0 /\ c1[c] >= c9.cursor
  BY DEF H!Passed, H!NoToken
<1>9. ASSUME a.page # {}, a.token # 0, NEW c \in source
      PROVE  c \in H!Ids(c10) \cup a.page <=> c1[c] >= a.token
  <2>1. CASE c \in H!Rest
    BY <1>1, <1>6, <1>9, <2>1
  <2>2. CASE c \notin H!Rest
    <3>1. c \in H!Ids(c10) /\ H!Passed(c)
      BY <1>6, <2>2
    <3> QED
      BY <1>1, <1>2, <1>4, <1>8, <1>9, <3>1
  <2> QED
    BY <2>1, <2>2
<1>10. a.page = {} \/ a.token = 0 => source \subseteq H!Ids(c10) \cup a.page
  BY <1>1, <1>6
<1>11. ASSUME NEW d \in a.page, NEW e \in source \ (H!Ids(c10) \cup a.page)
       PROVE  c1[d] > c1[e]
  <2>1. e \in H!Rest /\ d \in H!Rest
    BY <1>1, <1>6
  <2>2. a.token # 0
    BY <1>1, <2>1
  <2>3. c1[d] >= a.token /\ ~(c1[e] >= a.token)
    BY <1>1, <2>1, <2>2
  <2>4. c1[d] \in Nat /\ c1[e] \in Nat
    BY <1>1, <1>2, <1>3, <2>1
  <2> QED
    BY <1>1, <2>3, <2>4
<1>12. ASSUME NEW d \in a.page, NEW e \in source, e \in H!Ids(c10)
       PROVE  c1[e] > c1[d]
  <2>1. d \in H!Rest /\ d \in H!AllChats /\ ~H!Passed(d) /\ H!Passed(e)
    BY <1>1, <1>3, <1>5, <1>12
  <2> QED
    BY <1>2, <1>4, <1>8, <2>1
<1> QED
  BY <1>7, <1>9, <1>10, <1>11, <1>12

LEMMA HistoryIds ==
    ASSUME H!Typed
    PROVE  /\ H!Ids(c10) \subseteq H!AllChats /\ Len(c10) \in Nat
           /\ \A i \in 1..Len(c10) : c10[i].id \in H!Ids(c10)
<1>1. c10 \in Seq(H!Items)
  BY DEF H!Typed
<1>2. H!Ids(c10) = {c10[i].id : i \in 1..Len(c10)} /\ Len(c10) \in Nat
  BY <1>1 DEF H!Ids
<1>3. \A i \in 1..Len(c10) : c10[i] \in H!Items
  BY <1>1
<1> QED
  BY <1>2, <1>3 DEF H!Items

LEMMA HistoryAppended ==
    ASSUME H!Typed, NChats \in Nat, NEW page \in SUBSET H!AllChats, NEW all \in H!Combined(page)
    PROVE  /\ all \in Seq(H!Items) /\ Len(all) = Len(c10) + Cardinality(page \ H!Ids(c10))
           /\ Cardinality(page \ H!Ids(c10)) \in Nat
           /\ \A i \in 1..Len(c10) : all[i] = c10[i]
           /\ H!Ids(all) = H!Ids(c10) \cup page
<1> DEFINE new == page \ H!Ids(c10)
<1>1. PICK q \in H!LatestFirst(new), n \in Nat :
             /\ n = Cardinality(new) /\ DOMAIN q = 1..n
             /\ H!Range(q) = new
             /\ \A i, j \in 1..n : i < j => c1[q[i]] > c1[q[j]]
             /\ all \in Seq(H!Items) /\ Len(all) = Len(c10) + n
             /\ \A i \in 1..Len(c10) : all[i] = c10[i]
             /\ \A i \in 1..n : all[Len(c10) + i] = H!Metadata(q[i]) /\ q[i] \in page
             /\ H!Ids(all) = H!Ids(c10) \cup page
  BY HistoryCombined
<1> QED
  BY <1>1

\* Items that are there stay where they are.
LEMMA HistoryFrontKept ==
    ASSUME NEW all, NEW k, \A i \in 1..k : all[i] = c10[i], H!Front(c10, k)
    PROVE  H!Front(all, k)
BY DEF H!Front

LEMMA HistoryPinnedFront ==
    ASSUME H!Typed, H!NewestIsLatest, HistoryCalm, c9.sources = <<TRUE, FALSE>>,
           H!Front(c10, Len(c10)),
           \A c \in H!AllChats : c \in H!Ids(c10) <=> c \in c2 /\ H!Passed(c),
           NEW size, NEW a \in H!Answers(size), a.token \notin c9.tokens,
           NEW all \in H!Combined(a.page)
    PROVE  /\ H!Front(all, Len(all)) /\ H!Ids(all) \subseteq c2
           /\ Len(all) = Len(c10) + Cardinality(a.page)
           /\ a.page # {} /\ a.token # 0 =>
                \A c \in c2 : c \in H!Ids(all) <=> c1[c] >= a.token
           /\ a.page = {} \/ a.token = 0 => c2 \subseteq H!Ids(all)
<1>1. c2 \in SUBSET H!AllChats
  BY DEF HistoryCalm
<1>2. \A c \in H!AllChats : c \in c2 <=> (c \in c2) = Head(c9.sources)
  BY HistorySources
<1>3. \A c \in c2 : c \in H!Ids(c10) <=> H!Passed(c)
  BY <1>1
<1>4. /\ a.page \subseteq c2 /\ a.page \cap H!Ids(c10) = {}
      /\ a.page # {} /\ a.token # 0 =>
           \A c \in c2 : c \in H!Ids(c10) \cup a.page <=> c1[c] >= a.token
      /\ a.page = {} \/ a.token = 0 => c2 \subseteq H!Ids(c10) \cup a.page
      /\ \A d \in a.page, e \in c2 \ (H!Ids(c10) \cup a.page) : c1[d] > c1[e]
      /\ \A d \in a.page, e \in c2 : e \in H!Ids(c10) => c1[e] > c1[d]
  BY <1>1, <1>2, <1>3, HistorySourceRead
<1>5. a.page \in SUBSET H!AllChats /\ a.page \ H!Ids(c10) = a.page
  BY <1>1, <1>4
<1>6. Len(all) = Len(c10) + Cardinality(a.page) /\ H!Ids(all) = H!Ids(c10) \cup a.page
  BY <1>5, HistoryAppended DEF HistoryCalm
<1>7. H!Ids(c10) \subseteq c2
  <2>1. H!Ids(c10) \subseteq H!AllChats
    BY HistoryIds
  <2> QED
    BY <2>1
<1>8. \A d \in a.page, i \in 1..Len(c10) : H!Before(c10[i].id, d)
  <2> SUFFICES ASSUME NEW d \in a.page, NEW i \in 1..Len(c10)
               PROVE  H!Before(c10[i].id, d)
    OBVIOUS
  <2>1. c10[i].id \in H!Ids(c10)
    BY HistoryIds
  <2> QED
    BY <1>4, <1>7, <2>1 DEF H!Before
<1>9. \A d \in a.page, e \in H!AllChats \ (H!Ids(c10) \cup a.page) : H!Before(d, e)
  BY <1>4 DEF H!Before
<1>10. \A d, e \in a.page : d \in c2 <=> e \in c2
  BY <1>4
<1>11. H!Front(all, Len(all))
  BY <1>4, <1>5, <1>8, <1>9, <1>10, HistoryAppend
<1> QED
  BY <1>4, <1>6, <1>7, <1>11

LEMMA HistoryRecentFront ==
    ASSUME H!Typed, H!NewestIsLatest, HistoryCalm, c9.sources = <<FALSE>>,
           \A c \in H!AllChats \ c2 : c \in H!Ids(c10) <=> H!Passed(c),
           \/ c2 \subseteq H!Ids(c10) /\ H!Front(c10, Len(c10))
           \/ c11 /\ \E k \in 0..Len(c10) : k >= H!Target /\ H!Front(c10, k),
           NEW size, NEW a \in H!Answers(size), a.token \notin c9.tokens,
           NEW all \in H!Combined(a.page)
    PROVE  /\ \/ c2 \subseteq H!Ids(all) /\ H!Front(all, Len(all))
              \/ c11 /\ \E k \in 0..Len(all) : k >= H!Target /\ H!Front(all, k)
           /\ all \in Seq(H!Items)
           /\ a.page # {} /\ a.token # 0 =>
                \A c \in H!AllChats \ c2 : c \in H!Ids(all) <=> c1[c] >= a.token
           /\ a.page = {} \/ a.token = 0 => H!AllChats \ c2 \subseteq H!Ids(all)
<1>1. H!AllChats \ c2 \in SUBSET H!AllChats
  OBVIOUS
<1>2. \A c \in H!AllChats : c \in H!AllChats \ c2 <=> (c \in c2) = Head(c9.sources)
  <2>1. Head(c9.sources) = FALSE
    BY HistorySources
  <2>2. \A c \in H!AllChats : c \notin c2 <=> (c \in c2) = FALSE
    OBVIOUS
  <2> QED
    BY <2>1, <2>2
<1>4. /\ a.page \subseteq H!AllChats \ c2 /\ a.page \cap H!Ids(c10) = {}
      /\ a.page # {} /\ a.token # 0 =>
           \A c \in H!AllChats \ c2 : c \in H!Ids(c10) \cup a.page <=> c1[c] >= a.token
      /\ a.page = {} \/ a.token = 0 => H!AllChats \ c2 \subseteq H!Ids(c10) \cup a.page
      /\ \A d \in a.page, e \in (H!AllChats \ c2) \ (H!Ids(c10) \cup a.page) : c1[d] > c1[e]
      /\ \A d \in a.page, e \in H!AllChats \ c2 : e \in H!Ids(c10) => c1[e] > c1[d]
  BY <1>1, <1>2, HistorySourceRead
<1>5. a.page \in SUBSET H!AllChats
  BY <1>4
<1>6. /\ Len(all) = Len(c10) + Cardinality(a.page \ H!Ids(c10))
      /\ Cardinality(a.page \ H!Ids(c10)) \in Nat /\ H!Ids(all) = H!Ids(c10) \cup a.page
      /\ all \in Seq(H!Items) /\ \A i \in 1..Len(c10) : all[i] = c10[i]
  BY <1>5, HistoryAppended DEF HistoryCalm
<1>7. Len(c10) \in Nat
  BY DEF H!Typed
<1>8. CASE c2 \subseteq H!Ids(c10) /\ H!Front(c10, Len(c10))
  <2>1. \A d \in a.page, i \in 1..Len(c10) : H!Before(c10[i].id, d)
    <3> SUFFICES ASSUME NEW d \in a.page, NEW i \in 1..Len(c10)
                 PROVE  H!Before(c10[i].id, d)
      OBVIOUS
    <3>1. c10[i].id \in H!Ids(c10)
      BY HistoryIds
    <3>2. H!Ids(c10) \subseteq H!AllChats
      BY HistoryIds
    <3> QED
      BY <1>4, <3>1, <3>2 DEF H!Before
  <2>2. \A d \in a.page, e \in H!AllChats \ (H!Ids(c10) \cup a.page) : H!Before(d, e)
    BY <1>4, <1>8 DEF H!Before
  <2>3. \A d, e \in a.page : d \in c2 <=> e \in c2
    BY <1>4
  <2>4. H!Front(all, Len(all))
    BY <1>4, <1>5, <1>8, <2>1, <2>2, <2>3, HistoryAppend
  <2> QED
    BY <1>4, <1>6, <1>8, <2>4
<1>9. CASE c11 /\ \E k \in 0..Len(c10) : k >= H!Target /\ H!Front(c10, k)
  <2>1. PICK k \in 0..Len(c10) : k >= H!Target /\ H!Front(c10, k)
    BY <1>9
  <2>2. \A i \in 1..k : all[i] = c10[i]
    <3>1. 1..k \subseteq 1..Len(c10)
      BY <1>7
    <3> QED
      BY <1>6, <3>1
  <2>3. k \in 0..Len(all)
    BY <1>6, <1>7
  <2>4. H!Front(all, k)
    BY <2>1, <2>2, HistoryFrontKept
  <2> QED
    BY <1>4, <1>6, <1>9, <2>1, <2>3, <2>4
<1> QED
  BY <1>8, <1>9

LEMMA HistoryTarget ==
    ASSUME MaxTarget \in Nat, Limit \in Nat, c7.kind = "list", c7.offset \in Nat
    PROVE  /\ H!Target \in Nat
           /\ \A m \in Nat : m <= MaxTarget /\ m <= c7.offset + Limit => m <= H!Target
<1>1. H!Target = H!Min({MaxTarget, Limit + H!Min({c7.offset, MaxTarget})})
  BY DEF H!Target
<1> DEFINE o == IF c7.offset <= MaxTarget THEN c7.offset ELSE MaxTarget
<1>2. o \in Nat /\ H!Min({c7.offset, MaxTarget}) = o
  BY HistoryMin
<1>3. Limit + o \in Int /\ MaxTarget \in Int
  BY <1>2
<1>4. H!Target = IF MaxTarget <= Limit + o THEN MaxTarget ELSE Limit + o
  BY <1>1, <1>2, <1>3, HistoryMin
<1> QED
  BY <1>2, <1>4

LEMMA HistoryPrimes ==
    ASSUME c1' = c1, c2' = c2
    PROVE  /\ \A k : H!Front(c10', k) => H!Front(c10, k)'
           /\ \A c \in H!AllChats : H!Rank(c)' = H!Rank(c)
           /\ H!Ids(c10') = H!Ids(c10)'
           /\ c7' = c7 => H!Target' = H!Target
<1>1. \A k : H!Front(c10', k) => H!Front(c10, k)'
  BY DEF H!Front, H!Before
<1>2. \A c \in H!AllChats : H!Rank(c)' = H!Rank(c)
  BY DEF H!Rank, H!Before
<1>3. H!Ids(c10') = H!Ids(c10)'
  BY DEF H!Ids
<1>4. c7' = c7 => H!Target' = H!Target
  BY DEF H!Target
<1> QED
  BY <1>1, <1>2, <1>3, <1>4

\* A calm list call: what is read so far.
LEMMA HistoryListCalm ==
    ASSUME H!Inv, NChats \in Nat, c8 = "scan", c7.kind = "list", c5 = {}, ~c6
    PROVE  /\ HistoryCalm /\ H!Typed /\ H!NewestIsLatest /\ c7.offset \in Nat
           /\ \A c \in H!AllChats : H!Rank(c) < c7.offset => c \in c13
           /\ \/ /\ c9.sources = <<TRUE, FALSE>> /\ ~c11
                 /\ c9.count = Len(c10) /\ H!Front(c10, Len(c10))
                 /\ \A c \in H!AllChats : c \in H!Ids(c10) <=> c \in c2 /\ H!Passed(c)
              \/ /\ c9.sources = <<FALSE>>
                 /\ \A c \in H!AllChats \ c2 : c \in H!Ids(c10) <=> H!Passed(c)
                 /\ \/ c2 \subseteq H!Ids(c10) /\ H!Front(c10, Len(c10))
                    \/ c11 /\ \E k \in 0..Len(c10) : k >= H!Target /\ H!Front(c10, k)
<1>1. H!Typed /\ H!NewestIsLatest /\ H!ListShows
  BY DEF H!Inv
<1>2. c7.offset \in Nat /\ c2 \in SUBSET H!AllChats
  <2>1. c2 \in SUBSET H!AllChats
    BY <1>1 DEF H!Typed
  <2> QED
    BY <1>1, <2>1, HistoryGoal
<1>3. /\ c1 = [c \in H!AllChats |-> c] /\ H!ScanIsFront
      /\ \A c \in H!AllChats : H!Rank(c) < c7.offset => c \in c13
  BY <1>1 DEF H!ListShows
<1>4. HistoryCalm
  BY <1>2, <1>3 DEF HistoryCalm
<1> QED
  BY <1>1, <1>2, <1>3, <1>4 DEF H!ScanIsFront

LEMMA HistoryListAdvance ==
    ASSUME H!Inv, NChats \in Nat, c8 = "scan", c7.kind = "list",
           UNCHANGED <<c1, c2, c3, c4, c5>>, c11' = c11,
           NEW a \in H!Answers(H!PageSize), c10' \in H!Combined(a.page),
           a.token # 0, a.page # {}, a.token \notin c9.tokens, c6' = (c6 \/ a.token \in c9.tokens),
           H!Advance(a)
    PROVE  H!ListShows'
<1>1. /\ c9' = [c9 EXCEPT !.cursor = a.token, !.tokens = @ \cup {a.token},
                          !.pages = @ + 1, !.count = @ + H!Cardinality(a.page)]
      /\ c7' = c7 /\ c8' = c8 /\ c12' = c12 /\ c13' = c13 /\ c14' = c14
  BY DEF H!Advance
<1> SUFFICES ASSUME c5 = {}, ~c6
             PROVE  /\ c1' = [c \in H!AllChats |-> c] /\ H!ScanIsFront'
                    /\ \A c \in H!AllChats : H!Rank(c)' < c7.offset => c \in c13
  BY <1>1 DEF H!ListShows
<1>2. /\ HistoryCalm /\ H!Typed /\ H!NewestIsLatest /\ c7.offset \in Nat
      /\ \A c \in H!AllChats : H!Rank(c) < c7.offset => c \in c13
      /\ \/ /\ c9.sources = <<TRUE, FALSE>> /\ ~c11
            /\ c9.count = Len(c10) /\ H!Front(c10, Len(c10))
            /\ \A c \in H!AllChats : c \in H!Ids(c10) <=> c \in c2 /\ H!Passed(c)
         \/ /\ c9.sources = <<FALSE>>
            /\ \A c \in H!AllChats \ c2 : c \in H!Ids(c10) <=> H!Passed(c)
            /\ \/ c2 \subseteq H!Ids(c10) /\ H!Front(c10, Len(c10))
               \/ c11 /\ \E k \in 0..Len(c10) : k >= H!Target /\ H!Front(c10, k)
  BY HistoryListCalm
<1>3. c1' = [c \in H!AllChats |-> c]
  BY <1>2 DEF HistoryCalm
<1>4. /\ \A k : H!Front(c10', k) => H!Front(c10, k)'
      /\ \A c \in H!AllChats : H!Rank(c)' = H!Rank(c)
      /\ H!Ids(c10') = H!Ids(c10)' /\ H!Target' = H!Target
  BY <1>1, HistoryPrimes
<1>5. c9'.sources = c9.sources /\ c9'.cursor = a.token /\ c9'.count = c9.count + Cardinality(a.page)
  <2>1. H!Cardinality(a.page) = Cardinality(a.page)
    BY <1>2, HistoryPage
  <2>2. c9 \in [sources: {<<TRUE, FALSE>>, <<FALSE, TRUE>>, <<TRUE>>, <<FALSE>>}, cursor: Nat,
                tokens: SUBSET (Nat \ {H!NoToken}), pages: Nat, count: Nat]
    BY <1>2 DEF H!Typed
  <2> QED
    BY <1>1, <2>1, <2>2
<1>6. \A c \in H!AllChats : H!Passed(c)' <=> c1[c] >= a.token
  BY <1>5 DEF H!Passed, H!NoToken
<1>7. H!ScanIsFront'
  <2>1. CASE c9.sources = <<TRUE, FALSE>>
    <3>1. /\ ~c11 /\ c9.count = Len(c10) /\ H!Front(c10, Len(c10))
          /\ \A c \in H!AllChats : c \in H!Ids(c10) <=> c \in c2 /\ H!Passed(c)
      <4>1. c9.sources # <<FALSE>>
        BY <2>1
      <4> QED
        BY <1>2, <4>1
    <3>2. /\ H!Front(c10', Len(c10')) /\ H!Ids(c10') \subseteq c2
          /\ Len(c10') = Len(c10) + Cardinality(a.page)
          /\ \A c \in c2 : c \in H!Ids(c10') <=> c1[c] >= a.token
      BY <1>2, <2>1, <3>1, HistoryPinnedFront
    <3>3. c9'.sources = <<TRUE, FALSE>> /\ ~c11' /\ c9'.count = Len(c10)' /\ H!Front(c10, Len(c10))'
      BY <1>4, <1>5, <2>1, <3>1, <3>2
    <3>4. \A c \in H!AllChats : c \in H!Ids(c10)' <=> c \in c2' /\ H!Passed(c)'
      BY <1>4, <1>6, <3>2
    <3> QED
      BY <3>3, <3>4 DEF H!ScanIsFront
  <2>2. CASE c9.sources = <<FALSE>>
    <3>1. /\ \A c \in H!AllChats \ c2 : c \in H!Ids(c10) <=> H!Passed(c)
          /\ \/ c2 \subseteq H!Ids(c10) /\ H!Front(c10, Len(c10))
             \/ c11 /\ \E k \in 0..Len(c10) : k >= H!Target /\ H!Front(c10, k)
      <4>1. c9.sources # <<TRUE, FALSE>>
        BY <2>2
      <4> QED
        BY <1>2, <4>1
    <3>2. /\ \/ c2 \subseteq H!Ids(c10') /\ H!Front(c10', Len(c10'))
             \/ c11 /\ \E k \in 0..Len(c10') : k >= H!Target /\ H!Front(c10', k)
          /\ \A c \in H!AllChats \ c2 : c \in H!Ids(c10') <=> c1[c] >= a.token
      BY <1>2, <2>2, <3>1, HistoryRecentFront
    <3>3. \A c \in (H!AllChats \ c2)' : c \in H!Ids(c10)' <=> H!Passed(c)'
      BY <1>4, <1>6, <3>2
    <3>4. \/ c2' \subseteq H!Ids(c10)' /\ H!Front(c10, Len(c10))'
          \/ c11' /\ \E k \in 0..Len(c10)' : k >= H!Target' /\ H!Front(c10, k)'
      BY <1>4, <3>2
    <3>5. c9'.sources = <<FALSE>>
      BY <1>5, <2>2
    <3> QED
      BY <3>3, <3>4, <3>5 DEF H!ScanIsFront
  <2> QED
    BY <1>2, <2>1, <2>2
<1> QED
  BY <1>2, <1>3, <1>4, <1>7

LEMMA HistoryListNextSource ==
    ASSUME H!Inv, NChats \in Nat, MaxTarget \in Nat, Limit \in Nat \ {0}, c8 = "scan",
           c7.kind = "list", UNCHANGED <<c1, c2, c3, c4, c5>>,
           NEW a \in H!Answers(H!PageSize), c10' \in H!Combined(a.page),
           ~ /\ a.token # 0 /\ a.page # {} /\ a.token \notin c9.tokens
             /\ c9.count + H!Cardinality(a.page) < H!Target,
           c6' = (c6 \/ a.token \in c9.tokens), c11' = (c11 \/ a.token # 0), Len(c9.sources) > 1,
           c9' = H!Scan(Tail(c9.sources)), UNCHANGED <<c7, c8, c12, c13, c14>>
    PROVE  H!ListShows'
<1> SUFFICES ASSUME c5 = {}, ~c6, a.token \notin c9.tokens
             PROVE  /\ c1' = [c \in H!AllChats |-> c] /\ H!ScanIsFront'
                    /\ \A c \in H!AllChats : H!Rank(c)' < c7.offset => c \in c13
  BY DEF H!ListShows
<1>1. /\ HistoryCalm /\ H!Typed /\ H!NewestIsLatest /\ c7.offset \in Nat
      /\ \A c \in H!AllChats : H!Rank(c) < c7.offset => c \in c13
      /\ c9.sources = <<TRUE, FALSE>> /\ ~c11
      /\ c9.count = Len(c10) /\ H!Front(c10, Len(c10))
      /\ \A c \in H!AllChats : c \in H!Ids(c10) <=> c \in c2 /\ H!Passed(c)
  <2>1. c9.sources # <<FALSE>>
    <3>1. ~(1 > 1)
      OBVIOUS
    <3> QED
      BY <3>1, HistorySources
  <2> QED
    BY <2>1, HistoryListCalm
<1>2. c1' = [c \in H!AllChats |-> c]
  BY <1>1 DEF HistoryCalm
<1>3. /\ \A k : H!Front(c10', k) => H!Front(c10, k)'
      /\ \A c \in H!AllChats : H!Rank(c)' = H!Rank(c)
      /\ H!Ids(c10') = H!Ids(c10)' /\ H!Target' = H!Target
  <2>1. c1' = c1 /\ c2' = c2 /\ c7' = c7
    OBVIOUS
  <2> QED
    BY <2>1, HistoryPrimes
<1>4. c9' = [sources |-> <<FALSE>>, cursor |-> 0, tokens |-> {}, pages |-> 0, count |-> 0]
  BY <1>1, HistorySources DEF H!Scan, H!NoToken
<1>5. c9'.sources = <<FALSE>> /\ c9'.cursor = 0
  <2>1. \A list, scan : scan = [sources |-> list, cursor |-> 0, tokens |-> {}, pages |-> 0,
                               count |-> 0] => scan.sources = list /\ scan.cursor = 0
    OBVIOUS
  <2> QED
    BY <1>4, <2>1
<1>6. /\ H!Front(c10', Len(c10')) /\ H!Ids(c10') \subseteq c2
      /\ Len(c10') = Len(c10) + Cardinality(a.page)
      /\ a.page = {} \/ a.token = 0 => c2 \subseteq H!Ids(c10')
  BY <1>1, HistoryPinnedFront
<1>7. /\ H!Cardinality(a.page) = Cardinality(a.page) /\ Cardinality(a.page) \in Nat
      /\ Len(c10) \in Nat /\ H!Target \in Nat
  BY <1>1, HistoryPage, HistoryIds, HistoryTarget
<1>8. \A c \in (H!AllChats \ c2)' : c \in H!Ids(c10)' <=> H!Passed(c)'
  <2>1. \A c \in H!AllChats : ~H!Passed(c)'
    BY <1>5 DEF H!Passed, H!NoToken
  <2> QED
    BY <1>3, <1>6, <2>1
<1>9. \/ c2' \subseteq H!Ids(c10)' /\ H!Front(c10, Len(c10))'
      \/ c11' /\ \E k \in 0..Len(c10)' : k >= H!Target' /\ H!Front(c10, k)'
  <2>1. CASE a.page = {} \/ a.token = 0
    BY <1>3, <1>6, <2>1
  <2>2. CASE ~(a.page = {} \/ a.token = 0)
    <3>1. ~(c9.count + H!Cardinality(a.page) < H!Target)
      BY <2>2
    <3>2. Len(c10') \in 0..Len(c10') /\ Len(c10') >= H!Target
      BY <1>1, <1>6, <1>7, <3>1
    <3>3. c11'
      BY <2>2
    <3> QED
      BY <1>3, <1>6, <3>2, <3>3
  <2> QED
    BY <2>1, <2>2
<1>10. H!ScanIsFront'
  BY <1>5, <1>8, <1>9 DEF H!ScanIsFront
<1> QED
  BY <1>1, <1>2, <1>3, <1>10

\* What the last page of a list call leads to.
LEMMA HistoryListEnds ==
    ASSUME H!Inv, NChats \in Nat, MaxTarget \in Nat, Limit \in Nat \ {0}, c8 = "scan",
           c7.kind = "list", UNCHANGED <<c1, c2, c3, c4, c5>>,
           NEW a \in H!Answers(H!PageSize), c10' \in H!Combined(a.page), c10' \in Seq(H!Items),
           ~ /\ a.token # 0 /\ a.page # {} /\ a.token \notin c9.tokens
             /\ c9.count + H!Cardinality(a.page) < H!Target,
           NEW left \in BOOLEAN, left = (c11 \/ a.token # 0),
           c6' = (c6 \/ a.token \in c9.tokens), Len(c9.sources) = 1,
           c7' = c7, c8' = "done", c13' = c13 \cup H!Ids(H!Slice(c10')),
           c14' = [status |-> IF H!Stuck(c10', left) THEN "bounded_incomplete" ELSE "observed",
                   next |-> H!Next_(c10', left)]
    PROVE  H!ListShows'
<1> DEFINE all == c10'
           m == H!NextOffset(all)
<1>1. c7.offset \in Nat
  BY HistoryGoal DEF H!Inv
<1>2. /\ m \in Nat /\ m <= Len(all) /\ H!Next_(all, left) \in Nat
      /\ H!Next_(all, left) # 0 =>
           H!Next_(all, left) = m /\ m > c7.offset /\ m <= MaxTarget /\ m <= c7.offset + Limit
      /\ ~H!Stuck(all, left) /\ H!Next_(all, left) = 0 => ~left /\ m = Len(all)
  BY <1>1, HistoryNext DEF H!NoToken
<1>3. /\ c14'.next = H!Next_(all, left)
      /\ c14'.status = "observed" => ~H!Stuck(all, left)
  BY DEF H!NoToken
<1> SUFFICES ASSUME c5 = {}, ~c6, a.token \notin c9.tokens
             PROVE  /\ c1' = [c \in H!AllChats |-> c]
                    /\ c14'.next # 0 => \A c \in H!AllChats : H!Rank(c)' < c14'.next => c \in c13'
                    /\ c14' = [status |-> "observed", next |-> 0] => H!AllChats \subseteq c13'
  BY <1>2, <1>3 DEF H!ListShows, H!NoToken
<1>4. /\ HistoryCalm /\ H!Typed /\ H!NewestIsLatest
      /\ \A c \in H!AllChats : H!Rank(c) < c7.offset => c \in c13
      /\ c9.sources = <<FALSE>>
      /\ \A c \in H!AllChats \ c2 : c \in H!Ids(c10) <=> H!Passed(c)
      /\ \/ c2 \subseteq H!Ids(c10) /\ H!Front(c10, Len(c10))
         \/ c11 /\ \E k \in 0..Len(c10) : k >= H!Target /\ H!Front(c10, k)
  <2>1. c9.sources # <<TRUE, FALSE>>
    <3>1. 1 # 2
      OBVIOUS
    <3> QED
      BY <3>1, HistorySources
  <2> QED
    BY <2>1, HistoryListCalm
<1>5. /\ \/ c2 \subseteq H!Ids(all) /\ H!Front(all, Len(all))
         \/ c11 /\ \E k \in 0..Len(all) : k >= H!Target /\ H!Front(all, k)
      /\ a.page = {} \/ a.token = 0 => H!AllChats \ c2 \subseteq H!Ids(all)
  BY <1>4, HistoryRecentFront
<1>6. c1' = [c \in H!AllChats |-> c] /\ \A c \in H!AllChats : H!Rank(c)' = H!Rank(c)
  <2>1. c1' = c1 /\ c2' = c2 /\ c7' = c7
    OBVIOUS
  <2> QED
    BY <1>4, <2>1, HistoryPrimes DEF HistoryCalm
<1> HIDE DEF m, all
<1>7. ASSUME NEW k \in Nat, m <= k, k <= Len(all), H!Front(all, k),
             NEW c \in H!AllChats, H!Rank(c) < m
      PROVE  c \in c13'
  <2>1. H!Rank(c) < c7.offset => c \in c13
    BY <1>4
  <2>2. all \in Seq(H!Items) /\ H!NextOffset(all) = m
    BY DEF all, m
  <2>3. c \in c13 \cup H!Ids(H!Slice(all))
    BY <1>1, <1>4, <1>7, <2>1, <2>2, HistoryShown
  <2> QED
    BY <2>3 DEF all
<1>8. ASSUME c14'.next # 0, NEW c \in H!AllChats, H!Rank(c)' < c14'.next
      PROVE  c \in c13'
  <2>1. c14'.next = m /\ H!Rank(c) < m /\ m <= MaxTarget /\ m <= c7.offset + Limit
    BY <1>2, <1>3, <1>6, <1>8
  <2>2. m <= H!Target /\ H!Target \in Nat
    BY <1>1, <1>2, <2>1, HistoryTarget
  <2>3. \E k \in Nat : m <= k /\ k <= Len(all) /\ H!Front(all, k)
    <3>0. Len(all) \in Nat
      BY DEF all
    <3>1. CASE H!Front(all, Len(all))
      BY <1>2, <3>0, <3>1
    <3>2. CASE \E k \in 0..Len(all) : k >= H!Target /\ H!Front(all, k)
      <4>1. PICK k \in 0..Len(all) : k >= H!Target /\ H!Front(all, k)
        BY <3>2
      <4>2. k \in Nat /\ m <= k /\ k <= Len(all)
        BY <1>2, <2>2, <3>0, <4>1
      <4> QED
        BY <4>1, <4>2
    <3> QED
      BY <1>5, <3>1, <3>2
  <2> QED
    BY <1>7, <2>1, <2>3
<1>9. ASSUME c14' = [status |-> "observed", next |-> 0], NEW c \in H!AllChats
      PROVE  c \in c13'
  <2>1. ~left /\ m = Len(all)
    <3>1. c14'.status = "observed" /\ c14'.next = 0
      BY <1>9
    <3> QED
      BY <1>2, <1>3, <3>1
  <2>2. ~c11 /\ a.token = 0
    BY <2>1
  <2>3. H!Front(all, Len(all)) /\ c \in H!Ids(all)
    BY <1>5, <2>2
  <2>4. Len(all) \in Nat /\ all \in Seq(H!Items)
    BY DEF all
  <2>5. H!Rank(c) < Len(all)
    <3>1. PICK i \in 1..Len(all) : c = all[i].id
      BY <2>3, <2>4 DEF H!Ids
    <3> QED
      BY <1>4, <2>3, <2>4, <3>1, HistoryPlace
  <2> QED
    BY <1>7, <2>1, <2>3, <2>4, <2>5
<1> QED
  BY <1>6, <1>8, <1>9

LEMMA HistoryUpdateKept ==
    ASSUME H!Typed, H!UpdateLooks, NChats \in Nat, UNCHANGED <<c1, c2, c3, c5>>, c7' = c7,
           NEW page \in SUBSET H!AllChats, c10' \in H!Combined(page)
    PROVE  H!UpdateLooks' /\ c10' \in Seq(H!Items)
<1> DEFINE new == page \ H!Ids(c10)
<1>1. PICK q \in H!LatestFirst(new), n \in Nat :
             /\ n = Cardinality(new) /\ DOMAIN q = 1..n
             /\ H!Range(q) = new
             /\ \A i, j \in 1..n : i < j => c1[q[i]] > c1[q[j]]
             /\ c10' \in Seq(H!Items) /\ Len(c10') = Len(c10) + n
             /\ \A i \in 1..Len(c10) : c10'[i] = c10[i]
             /\ \A i \in 1..n : c10'[Len(c10) + i] = H!Metadata(q[i]) /\ q[i] \in page
             /\ H!Ids(c10') = H!Ids(c10) \cup page
  BY HistoryCombined
<1> SUFFICES ASSUME c7.kind = "update", c7.chat \notin c5
             PROVE  H!UpdateLooks'
  BY <1>1 DEF H!UpdateLooks
<1>2. c7.chat \in H!Alive'
  BY DEF H!UpdateLooks, H!Alive
<1>3. ASSUME NEW i \in 1..Len(c10'), c10'[i].id = c7.chat
      PROVE  /\ c10'[i].title = "new" => c3[c7.chat] = "new"
             /\ c10'[i].pinned => c7.chat \in c2
  <2>1. Len(c10) \in Nat /\ DOMAIN c10 = 1..Len(c10)
    BY DEF H!Typed
  <2>2. CASE i \in 1..Len(c10)
    BY <1>1, <1>3, <2>1, <2>2 DEF H!UpdateLooks
  <2>3. CASE ~(i \in 1..Len(c10))
    <3>1. i - Len(c10) \in 1..n /\ Len(c10) + (i - Len(c10)) = i
      BY <1>1, <2>1, <2>3
    <3>2. c10'[i] = H!Metadata(q[i - Len(c10)])
      BY <1>1, <3>1
    <3> HIDE DEF new
    <3>3. PICK c : c10'[i] = H!Metadata(c)
      BY <3>2
    <3>4. /\ c10'[i].id = c /\ c10'[i].title = c3[c]
          /\ c10'[i].pinned = (c \in c2)
      BY <3>3 DEF H!Metadata
    <3>5. c = c7.chat
      BY <1>3, <3>4
    <3> QED
      BY <3>4, <3>5
  <2> QED
    BY <2>2, <2>3
<1>4. DOMAIN c10' = 1..Len(c10')
  BY <1>1
<1> QED
  BY <1>2, <1>3, <1>4 DEF H!UpdateLooks

\* A fetch that fails says so.
LEMMA HistoryFetchFails ==
    ASSUME H!Inv, c8 = "scan", c7.kind # "delete", UNCHANGED <<c1, c2, c3, c4, c5>>,
           c6' \in BOOLEAN, c6 => c6', c10' = c10, c11' = c11,
           NEW status \in {"page_unverified", "metadata_conflict"}, H!FetchFails(status)
    PROVE  H!Inv'
<1>1. PICK told \in {"read_back_unavailable", "page_unverified", "metadata_conflict"} :
         c14' = [status |-> told, next |-> 0]
  BY DEF H!FetchFails, H!End, H!NoToken
<1>2. c8' = "done" /\ c7' = c7 /\ c9' = c9 /\ c12' = c12 /\ c13' = c13
  BY DEF H!FetchFails, H!End
<1>3. c14'.status = told /\ c14'.next = 0 /\ c14' \in [status: H!Statuses, next: Nat]
  BY <1>1 DEF H!Statuses
<1>4. H!Typed'
  BY <1>2, <1>3 DEF H!Inv, H!Typed
<1>5. H!GoalFits'
  BY <1>2 DEF H!Inv, H!GoalFits
<1>6. H!AbsenceIsTrue' /\ H!UpdateIsTrue' /\ H!NewestIsLatest'
  BY <1>3, HistoryUnsaid, HistoryKept
<1>7. H!DeletionLooks'
  BY <1>2, HistoryElse
<1>8. H!UpdateLooks'
  BY <1>2 DEF H!Inv, H!UpdateLooks, H!Alive
<1>9. H!SearchReads' /\ H!SearchMissesNothing'
  BY <1>2, <1>3 DEF H!SearchReads, H!SearchMissesNothing
<1>10. H!ListShows'
  <2>1. c14' # [status |-> "observed", next |-> 0]
    BY <1>3
  <2>2. c5 = {} /\ ~c6' /\ c7.kind = "list" => c1 = [c \in H!AllChats |-> c]
    <3> SUFFICES ASSUME c5 = {}, ~c6', c7.kind = "list"
                 PROVE  c1 = [c \in H!AllChats |-> c]
      OBVIOUS
    <3> QED
      BY DEF H!Inv, H!ListShows
  <2> QED
    BY <1>2, <1>3, <2>1, <2>2 DEF H!ListShows, H!NoToken
<1> QED
  BY <1>4, <1>5, <1>6, <1>7, <1>8, <1>9, <1>10 DEF H!Inv

\* A fetch that goes on, to the next page or the next listing.
LEMMA HistoryFetchGoesOn ==
    ASSUME H!Inv, NChats \in Nat, c8 = "scan", c7.kind # "delete",
           UNCHANGED <<c1, c2, c3, c4, c5>>, c6' \in BOOLEAN, c11' \in BOOLEAN,
           NEW page \in SUBSET H!AllChats, c10' \in H!Combined(page),
           UNCHANGED <<c7, c8, c12, c13, c14>>,
           c9' \in [sources: {<<TRUE, FALSE>>, <<FALSE, TRUE>>, <<TRUE>>, <<FALSE>>}, cursor: Nat,
                    tokens: SUBSET (Nat \ {H!NoToken}), pages: Nat, count: Nat],
           c7.kind = "list" => H!ListShows'
    PROVE  H!Inv'
<1>1. H!UpdateLooks' /\ c10' \in Seq(H!Items)
  BY HistoryUpdateKept DEF H!Inv
<1>2. H!Typed'
  BY <1>1 DEF H!Inv, H!Typed
<1>3. H!SearchReads' /\ H!SearchMissesNothing'
  BY DEF H!Inv, H!SearchReads, H!SearchMissesNothing
<1>4. H!ListShows' /\ H!DeletionLooks'
  BY HistoryElse
<1> QED
  BY <1>1, <1>2, <1>3, <1>4, HistoryKept DEF H!Inv

LEMMA HistoryFetchedUpdate ==
    ASSUME H!Inv, NChats \in Nat, c8 = "scan", c7.kind = "update",
           UNCHANGED <<c1, c2, c3, c4, c5>>, c6' \in BOOLEAN, c11' \in BOOLEAN,
           NEW page \in SUBSET H!AllChats, c10' \in H!Combined(page),
           H!End(H!UpdateStatus(c10'))
    PROVE  H!Inv'
<1>1. H!UpdateLooks' /\ c10' \in Seq(H!Items)
  <2>1. c7' = c7
    BY DEF H!End
  <2> QED
    BY <2>1, HistoryUpdateKept DEF H!Inv
<1>2. /\ c14' = [status |-> H!UpdateStatus(c10'), next |-> 0] /\ c8' = "done" /\ c7' = c7
      /\ c9' = c9 /\ c12' = c12 /\ c13' = c13
  BY DEF H!End, H!NoToken
<1>3. /\ H!UpdateStatus(c10') \in {"target_not_observed", "verified_updated", "read_back_mismatch"}
      /\ H!UpdateStatus(c10') = "verified_updated" =>
           \E i \in 1..Len(c10') : c10'[i].id = c7.chat /\ H!Requested(c10'[i])
  <2> DEFINE seen == {mdata \in H!Range(c10') : mdata.id = c7.chat}
  <2>1. H!UpdateStatus(c10') = IF seen = {} THEN "target_not_observed"
                               ELSE IF \A mdata \in seen : H!Requested(mdata)
                                    THEN "verified_updated" ELSE "read_back_mismatch"
    BY DEF H!UpdateStatus
  <2>2. \A mdata \in seen : \E i \in 1..Len(c10') : c10'[i] = mdata /\ mdata.id = c7.chat
    BY <1>1 DEF H!Range
  <2> HIDE DEF seen
  <2> QED
    BY <2>1, <2>2
<1>4. c14'.status = H!UpdateStatus(c10') /\ c14' \in [status: H!Statuses, next: Nat]
  BY <1>2, <1>3 DEF H!Statuses
<1>5. H!Typed'
  BY <1>1, <1>2, <1>4 DEF H!Inv, H!Typed
<1>6. H!GoalFits' /\ H!AbsenceIsTrue'
  BY <1>2, <1>3, <1>4 DEF H!Inv, H!GoalFits, H!AbsenceIsTrue
<1>7. H!UpdateIsTrue'
  <2> SUFFICES ASSUME c14'.status = "verified_updated", c7.chat \notin c5
               PROVE  c7.chat \in H!Alive' /\ H!Requested(H!Metadata(c7.chat))'
    BY <1>2 DEF H!UpdateIsTrue
  <2>1. PICK i \in 1..Len(c10') : c10'[i].id = c7.chat /\ H!Requested(c10'[i])
    BY <1>3, <1>4
  <2>2. DOMAIN c10' = 1..Len(c10')
    BY <1>1
  <2>3. /\ c7.chat \in H!Alive'
        /\ c10'[i].title = "new" => c3'[c7.chat] = "new"
        /\ c10'[i].pinned => c7.chat \in c2'
    BY <1>1, <1>2, <2>1, <2>2 DEF H!UpdateLooks
  <2>4. /\ H!Metadata(c7.chat)'.title = c3'[c7.chat]
        /\ H!Metadata(c7.chat)'.pinned = (c7.chat \in c2')
    BY <1>2 DEF H!Metadata
  <2> QED
    BY <1>2, <2>1, <2>3, <2>4 DEF H!Requested
<1> QED
  BY <1>1, <1>2, <1>5, <1>6, <1>7, HistoryElse, HistoryKept DEF H!Inv

LEMMA HistoryFetchedSearch ==
    ASSUME H!Inv, NChats \in Nat, Limit \in Nat \ {0}, c8 = "scan", c7.kind = "search",
           UNCHANGED <<c1, c2, c3, c4, c5>>, c6' \in BOOLEAN, c11' \in BOOLEAN,
           NEW page \in SUBSET H!AllChats, c10' \in H!Combined(page),
           c8' = "read", c13' = c13 \cup H!Ids(H!Slice(c10')), UNCHANGED <<c7, c9, c14>>,
           c12' = [todo |-> H!Slice(c10'), read |-> {}, failed |-> {}, matched |-> {}]
    PROVE  H!Inv'
<1>1. H!UpdateLooks' /\ c10' \in Seq(H!Items)
  BY HistoryUpdateKept DEF H!Inv
<1>2. c7.offset \in Nat /\ c13 = {} /\ c7' = c7 /\ c9' = c9 /\ c14' = c14
  BY HistoryGoal DEF H!Inv, H!SearchReads
<1> DEFINE slice == H!Slice(c10')
<1>3. slice \in Seq(H!Items)
  BY <1>1, <1>2, HistorySlice
<1>4. H!Ids(slice) \subseteq H!AllChats
  <2> HIDE DEF slice
  <2>1. \A i \in DOMAIN slice : slice[i] \in H!Items
    BY <1>3
  <2> QED
    BY <2>1 DEF H!Ids, H!Items
<1> HIDE DEF slice
<1>5. /\ c12' = [todo |-> slice, read |-> {}, failed |-> {}, matched |-> {}]
      /\ c13' = H!Ids(slice)
  BY <1>2 DEF slice
<1>6. /\ c12'.todo = slice /\ c12'.read = {}
      /\ c12' \in [todo: Seq(H!Items), read: SUBSET H!AllChats, failed: SUBSET H!AllChats,
                   matched: SUBSET H!AllChats]
  BY <1>3, <1>5
<1>7. H!Typed'
  BY <1>1, <1>2, <1>4, <1>5, <1>6 DEF H!Inv, H!Typed
<1>8. H!GoalFits'
  BY <1>2 DEF H!Inv, H!GoalFits
<1>9. H!SearchReads' /\ H!SearchMissesNothing'
  <2>1. H!Ids(c12.todo)' = H!Ids(slice)
    BY <1>6 DEF H!Ids
  <2> QED
    BY <1>2, <1>5, <1>6, <2>1 DEF H!SearchReads, H!SearchMissesNothing
<1> QED
  BY <1>1, <1>2, <1>7, <1>8, <1>9, HistoryElse, HistoryKept DEF H!Inv

LEMMA HistoryFetchedList ==
    ASSUME H!Inv, NChats \in Nat, MaxTarget \in Nat, Limit \in Nat \ {0}, c8 = "scan",
           c7.kind = "list", UNCHANGED <<c1, c2, c3, c4, c5>>, c6' \in BOOLEAN,
           NEW left \in BOOLEAN, c11' = left,
           NEW page \in SUBSET H!AllChats, c10' \in H!Combined(page),
           c8' = "done", c13' = c13 \cup H!Ids(H!Slice(c10')), UNCHANGED <<c7, c9, c12>>,
           c14' = [status |-> IF H!Stuck(c10', left) THEN "bounded_incomplete" ELSE "observed",
                   next |-> H!Next_(c10', left)],
           H!ListShows'
    PROVE  H!Inv'
<1>1. H!UpdateLooks' /\ c10' \in Seq(H!Items)
  BY HistoryUpdateKept DEF H!Inv
<1>2. c7.offset \in Nat /\ c7' = c7 /\ c9' = c9 /\ c12' = c12
  BY HistoryGoal DEF H!Inv
<1> DEFINE slice == H!Slice(c10')
<1>3. slice \in Seq(H!Items)
  BY <1>1, <1>2, HistorySlice
<1>4. H!Ids(slice) \subseteq H!AllChats
  <2> HIDE DEF slice
  <2>1. \A i \in DOMAIN slice : slice[i] \in H!Items
    BY <1>3
  <2> QED
    BY <2>1 DEF H!Ids, H!Items
<1>5. c13' \in SUBSET H!AllChats
  BY <1>4 DEF H!Inv, H!Typed
<1>6. H!Next_(c10', left) \in Nat
  BY <1>1, <1>2, HistoryNext
<1>7. c14' \in [status: H!Statuses, next: Nat] /\ c14'.status \in {"bounded_incomplete", "observed"}
  BY <1>6 DEF H!Statuses
<1>8. H!Typed'
  BY <1>1, <1>2, <1>5, <1>7 DEF H!Inv, H!Typed
<1>9. H!GoalFits'
  BY <1>2 DEF H!Inv, H!GoalFits
<1>10. H!AbsenceIsTrue' /\ H!UpdateIsTrue'
  BY <1>7, HistoryUnsaid
<1> QED
  BY <1>1, <1>2, <1>8, <1>9, <1>10, HistoryElse, HistoryKept DEF H!Inv

LEMMA HistoryFetchPage ==
    ASSUME H!Inv, NChats \in Nat, MaxTarget \in Nat, Limit \in Nat \ {0}, H!FetchPage
    PROVE  H!Inv'
<1>1. c8 = "scan" /\ c7.kind # "delete" /\ UNCHANGED <<c1, c2, c3, c4, c5>>
  BY DEF H!FetchPage, H!provider
<1>2. /\ H!Typed /\ H!NewestIsLatest /\ c7.kind \in {"update", "list", "search"}
      /\ c6 \in BOOLEAN /\ c11 \in BOOLEAN
  BY <1>1, HistoryGoal DEF H!Inv, H!Typed
<1>3. \/ H!FetchFails("page_unverified") /\ UNCHANGED <<c10, c11, c6>>
      \/ \E a \in H!Answers(H!PageSize) :
            LET goes == /\ a.token # 0 /\ a.page # {} /\ a.token \notin c9.tokens
                        /\ c9.count + H!Cardinality(a.page) < H!Target
                left == c11 \/ a.token # 0
            IN
            /\ c6' = (c6 \/ a.token \in c9.tokens)
            /\ \/ H!FetchFails("metadata_conflict") /\ UNCHANGED <<c10, c11>>
               \/ /\ c10' \in H!Combined(a.page)
                  /\ \/ goes /\ H!Advance(a) /\ c11' = c11
                     \/ /\ ~goes /\ c11' = left /\ Len(c9.sources) > 1
                        /\ c9' = H!Scan(Tail(c9.sources)) /\ UNCHANGED <<c7, c8, c12, c13, c14>>
                     \/ ~goes /\ c11' = left /\ Len(c9.sources) = 1 /\ H!Fetched(c10', left)
  BY DEF H!FetchPage, H!NoToken
<1>4. CASE H!FetchFails("page_unverified") /\ UNCHANGED <<c10, c11, c6>>
  BY <1>1, <1>2, <1>4, HistoryFetchFails
<1>5. ASSUME NEW a \in H!Answers(H!PageSize), c6' = (c6 \/ a.token \in c9.tokens)
      PROVE  /\ H!FetchFails("metadata_conflict") /\ UNCHANGED <<c10, c11>> => H!Inv'
             /\ c6' \in BOOLEAN /\ a.page \in SUBSET H!AllChats /\ a.token \in Nat
             /\ H!Cardinality(a.page) \in Nat
  <2>1. c6' \in BOOLEAN /\ (c6 => c6')
    BY <1>2, <1>5
  <2>2. a.page \in SUBSET H!AllChats /\ a.token \in Nat /\ H!Cardinality(a.page) \in Nat
    BY <1>2, HistoryPage DEF H!Alive
  <2> QED
    BY <1>1, <2>1, <2>2, HistoryFetchFails
<1>6. ASSUME NEW a \in H!Answers(H!PageSize), c6' = (c6 \/ a.token \in c9.tokens),
             c10' \in H!Combined(a.page), a.token # 0, a.page # {}, a.token \notin c9.tokens,
             H!Advance(a), c11' = c11
      PROVE  H!Inv'
  <2>1. /\ c9' = [c9 EXCEPT !.cursor = a.token, !.tokens = @ \cup {a.token},
                            !.pages = @ + 1, !.count = @ + H!Cardinality(a.page)]
        /\ UNCHANGED <<c7, c8, c12, c13, c14>>
    BY <1>6 DEF H!Advance
  <2>2. c9 \in [sources: {<<TRUE, FALSE>>, <<FALSE, TRUE>>, <<TRUE>>, <<FALSE>>}, cursor: Nat,
                tokens: SUBSET (Nat \ {H!NoToken}), pages: Nat, count: Nat]
    BY <1>2 DEF H!Typed
  <2>3. /\ c9' = [sources |-> c9.sources, cursor |-> a.token, tokens |-> c9.tokens \cup {a.token},
                  pages |-> c9.pages + 1, count |-> c9.count + H!Cardinality(a.page)]
        /\ c9.sources \in {<<TRUE, FALSE>>, <<FALSE, TRUE>>, <<TRUE>>, <<FALSE>>}
        /\ c9.tokens \in SUBSET (Nat \ {0}) /\ c9.pages \in Nat /\ c9.count \in Nat
    BY <2>1, <2>2 DEF H!NoToken
  <2>4. /\ a.token \in Nat /\ c9.tokens \cup {a.token} \in SUBSET (Nat \ {H!NoToken})
        /\ c9.pages + 1 \in Nat /\ c9.count + H!Cardinality(a.page) \in Nat
    BY <1>5, <1>6, <2>3 DEF H!NoToken
  <2>5. c9' \in [sources: {<<TRUE, FALSE>>, <<FALSE, TRUE>>, <<TRUE>>, <<FALSE>>}, cursor: Nat,
                 tokens: SUBSET (Nat \ {H!NoToken}), pages: Nat, count: Nat]
    BY <2>3, <2>4
  <2>6. c7.kind = "list" => H!ListShows'
    BY <1>1, <1>6, HistoryListAdvance
  <2> QED
    BY <1>1, <1>2, <1>5, <1>6, <2>1, <2>5, <2>6, HistoryFetchGoesOn
<1>7. ASSUME NEW a \in H!Answers(H!PageSize), c6' = (c6 \/ a.token \in c9.tokens),
             c10' \in H!Combined(a.page),
             ~ /\ a.token # 0 /\ a.page # {} /\ a.token \notin c9.tokens
               /\ c9.count + H!Cardinality(a.page) < H!Target,
             c11' = (c11 \/ a.token # 0), Len(c9.sources) > 1,
             c9' = H!Scan(Tail(c9.sources)), UNCHANGED <<c7, c8, c12, c13, c14>>
      PROVE  H!Inv'
  <2>1. Tail(c9.sources) \in {<<TRUE>>, <<FALSE>>}
    <3>1. ~(1 > 1)
      OBVIOUS
    <3>2. c9.sources \in {<<TRUE, FALSE>>, <<FALSE, TRUE>>, <<TRUE>>, <<FALSE>>}
      BY <1>2 DEF H!Typed
    <3>3. c9.sources # <<TRUE>> /\ c9.sources # <<FALSE>>
      BY <1>7, <3>1, HistorySources
    <3>4. c9.sources = <<TRUE, FALSE>> \/ c9.sources = <<FALSE, TRUE>>
      BY <3>2, <3>3
    <3> QED
      BY <3>4, HistorySources
  <2>2. c9' = [sources |-> Tail(c9.sources), cursor |-> 0, tokens |-> {}, pages |-> 0, count |-> 0]
    BY <1>7 DEF H!Scan, H!NoToken
  <2>3. c9' \in [sources: {<<TRUE, FALSE>>, <<FALSE, TRUE>>, <<TRUE>>, <<FALSE>>}, cursor: Nat,
                 tokens: SUBSET (Nat \ {H!NoToken}), pages: Nat, count: Nat]
    <3> DEFINE sources == Tail(c9.sources)
    <3> HIDE DEF sources
    <3>1. sources \in {<<TRUE, FALSE>>, <<FALSE, TRUE>>, <<TRUE>>, <<FALSE>>}
      BY <2>1 DEF sources
    <3>2. c9' = [sources |-> sources, cursor |-> 0, tokens |-> {}, pages |-> 0, count |-> 0]
      BY <2>2 DEF sources
    <3> QED
      BY <3>1, <3>2
  <2>4. c11' \in BOOLEAN
    BY <1>7
  <2>5. c7.kind = "list" => H!ListShows'
    BY <1>1, <1>7, HistoryListNextSource
  <2> QED
    BY <1>1, <1>5, <1>7, <2>3, <2>4, <2>5, HistoryFetchGoesOn
<1>8. ASSUME NEW a \in H!Answers(H!PageSize), c6' = (c6 \/ a.token \in c9.tokens),
             c10' \in H!Combined(a.page),
             ~ /\ a.token # 0 /\ a.page # {} /\ a.token \notin c9.tokens
               /\ c9.count + H!Cardinality(a.page) < H!Target,
             NEW left, left = (c11 \/ a.token # 0), c11' = left, Len(c9.sources) = 1,
             H!Fetched(c10', left)
      PROVE  H!Inv'
  <2>1. left \in BOOLEAN
    BY <1>8
  <2>2. CASE c7.kind = "update"
    <3>1. H!End(H!UpdateStatus(c10'))
      BY <1>8, <2>2 DEF H!Fetched
    <3> QED
      BY <1>1, <1>5, <1>8, <2>1, <2>2, <3>1, HistoryFetchedUpdate
  <2>3. CASE c7.kind = "search"
    <3>1. /\ c8' = "read" /\ c13' = c13 \cup H!Ids(H!Slice(c10')) /\ UNCHANGED <<c7, c9, c14>>
          /\ c12' = [todo |-> H!Slice(c10'), read |-> {}, failed |-> {}, matched |-> {}]
      BY <1>8, <2>3 DEF H!Fetched
    <3> QED
      BY <1>1, <1>5, <1>8, <2>1, <2>3, <3>1, HistoryFetchedSearch
  <2>4. CASE c7.kind = "list"
    <3>1. /\ c8' = "done" /\ c13' = c13 \cup H!Ids(H!Slice(c10')) /\ UNCHANGED <<c7, c9, c12>>
          /\ c14' = [status |-> IF H!Stuck(c10', left) THEN "bounded_incomplete" ELSE "observed",
                     next |-> H!Next_(c10', left)]
      BY <1>8, <2>4 DEF H!Fetched
    <3>2. c10' \in Seq(H!Items)
      BY <1>2, <1>5, <1>8, HistoryAppended
    <3>3. H!ListShows'
      BY <1>1, <1>8, <2>1, <2>4, <3>1, <3>2, HistoryListEnds
    <3> QED
      BY <1>1, <1>5, <1>8, <2>1, <2>4, <3>1, <3>3, HistoryFetchedList
  <2> QED
    BY <1>2, <2>2, <2>3, <2>4
<1>9. CASE \E a \in H!Answers(H!PageSize) :
            LET goes == /\ a.token # 0 /\ a.page # {} /\ a.token \notin c9.tokens
                        /\ c9.count + H!Cardinality(a.page) < H!Target
                left == c11 \/ a.token # 0
            IN
            /\ c6' = (c6 \/ a.token \in c9.tokens)
            /\ \/ H!FetchFails("metadata_conflict") /\ UNCHANGED <<c10, c11>>
               \/ /\ c10' \in H!Combined(a.page)
                  /\ \/ goes /\ H!Advance(a) /\ c11' = c11
                     \/ /\ ~goes /\ c11' = left /\ Len(c9.sources) > 1
                        /\ c9' = H!Scan(Tail(c9.sources)) /\ UNCHANGED <<c7, c8, c12, c13, c14>>
                     \/ ~goes /\ c11' = left /\ Len(c9.sources) = 1 /\ H!Fetched(c10', left)
  BY <1>5, <1>6, <1>7, <1>8, <1>9
<1> QED
  BY <1>3, <1>4, <1>9

LEMMA HistoryStep ==
    ASSUME H!Inv, NChats \in Nat, MaxTarget \in Nat, Limit \in Nat \ {0}, [H!Next]_(H!hvars)
    PROVE  H!Inv'
<1>1. CASE UNCHANGED H!hvars
  <2>1. /\ c1' = c1 /\ c2' = c2 /\ c3' = c3 /\ c4' = c4 /\ c5' = c5 /\ c6' = c6 /\ c7' = c7
        /\ c8' = c8 /\ c9' = c9 /\ c10' = c10 /\ c11' = c11 /\ c12' = c12 /\ c13' = c13
        /\ c14' = c14
    BY <1>1 DEF H!hvars
  <2>2. H!Typed' /\ H!DeletionLooks' /\ H!UpdateLooks'
    BY <2>1 DEF H!Inv, H!Typed, H!DeletionLooks, H!UpdateLooks, H!Alive
  <2>3. H!SearchReads' /\ H!SearchMissesNothing'
    BY <2>1 DEF H!Inv, H!SearchReads, H!SearchMissesNothing, H!Ids
  <2>4. H!ListShows'
    <3>1. /\ H!Ids(c10)' = H!Ids(c10) /\ H!Target' = H!Target
          /\ \A c \in H!AllChats : H!Rank(c)' = H!Rank(c) /\ H!Passed(c)' = H!Passed(c)
          /\ \A k : H!Front(c10, k)' <=> H!Front(c10, k)
      <4>1. H!Ids(c10)' = H!Ids(c10) /\ H!Target' = H!Target
        BY <2>1 DEF H!Ids, H!Target
      <4>2. \A c \in H!AllChats : H!Rank(c)' = H!Rank(c) /\ H!Passed(c)' = H!Passed(c)
        BY <2>1 DEF H!Rank, H!Before, H!Passed
      <4>3. \A k : H!Front(c10, k)' <=> H!Front(c10, k)
        BY <2>1 DEF H!Front, H!Before
      <4> QED
        BY <4>1, <4>2, <4>3
    <3>2. H!ScanIsFront => H!ScanIsFront'
      BY <2>1, <3>1 DEF H!ScanIsFront
    <3> QED
      BY <2>1, <3>1, <3>2 DEF H!Inv, H!ListShows
  <2> QED
    BY <2>1, <2>2, <2>3, <2>4, HistoryKept DEF H!Inv
<1>2. CASE H!Request
  BY <1>2, HistoryRequest
<1>3. CASE H!DeletePage
  BY <1>3, HistoryDeletePage
<1>4. CASE H!FetchPage
  BY <1>4, HistoryFetchPage
<1>5. CASE H!ReadContent
  BY <1>5, HistoryReadContent
<1>6. CASE H!SearchEnds
  BY <1>6, HistorySearchEnds
<1>7. CASE H!Continue
  BY <1>7, HistoryContinue
<1>8. CASE H!Land
  BY <1>8, HistoryLand
<1>9. CASE \E c \in H!AllChats : H!UserChanges(c)
  BY <1>9, HistoryUserChanges
<1> QED
  BY <1>1, <1>2, <1>3, <1>4, <1>5, <1>6, <1>7, <1>8, <1>9 DEF H!Next

LEMMA HistoryProgresses ==
    ASSUME H!Inv, [H!Next]_(H!hvars)
    PROVE  H!Progresses
<1> SUFFICES ASSUME c8 = "done", c8' = "scan"
             PROVE  c7'.offset > c7.offset
  BY DEF H!Progresses
<1>1. H!Continue
  <2>1. ~UNCHANGED H!hvars
    BY DEF H!hvars
  <2>2. ~H!Request /\ ~H!DeletePage /\ ~H!FetchPage
    BY DEF H!Request, H!DeletePage, H!FetchPage
  <2>3. ~H!ReadContent /\ ~H!SearchEnds
    BY DEF H!ReadContent, H!SearchEnds
  <2>4. ~H!Land /\ ~\E c \in H!AllChats : H!UserChanges(c)
    <3>1. c8' # c8
      OBVIOUS
    <3>2. H!Land => c8' = c8
      BY DEF H!Land
    <3>3. \A c \in H!AllChats : H!UserChanges(c) => c8' = c8
      BY DEF H!UserChanges
    <3> QED
      BY <3>1, <3>2, <3>3
  <2> QED
    BY <2>1, <2>2, <2>3, <2>4 DEF H!Next
<1>2. c7.kind = "list" /\ c14.next # 0 /\ c7' = [c7 EXCEPT !.offset = c14.next]
  BY <1>1 DEF H!Continue, H!NoToken
<1>3. c7 \in [kind: {"list"}, offset: Nat]
  BY <1>2 DEF H!Inv, H!Typed
<1>4. c14.next > c7.offset
  BY <1>2 DEF H!Inv, H!ListShows, H!NoToken
<1> QED
  BY <1>2, <1>3, <1>4

\* What a history call reports is true, for any number of chats and of the
\* user's changes, and any sizes of pages and bounds of the scan.
THEOREM HistoryIsKept == Spec => HistoryIsTrue
<1>1. Init => HistoryPart
  BY ValuesAssumption, HistoryInit DEF Init, HistoryPart
<1>2. HistoryPart /\ [Next]_vars => HistoryPart'
  <2> SUFFICES ASSUME HistoryPart, [Next]_vars, part' = "history"
               PROVE  H!Inv'
    BY DEF HistoryPart
  <2>1. part = "history" /\ [H!Next]_(H!hvars)
    BY DEF Next, vars, cells, H!hvars
  <2> QED
    BY <2>1, ValuesAssumption, HistoryStep DEF HistoryPart
<1>3. HistoryPart => (part = "history" =>
          H!AbsenceIsTrue /\ H!UpdateIsTrue /\ H!WalkShowsAll /\ H!SearchMissesNothing)
  <2> SUFFICES ASSUME HistoryPart, part = "history"
               PROVE  H!AbsenceIsTrue /\ H!UpdateIsTrue /\ H!WalkShowsAll /\ H!SearchMissesNothing
    OBVIOUS
  <2>1. H!Inv
    BY DEF HistoryPart
  <2>2. H!WalkShowsAll
    BY <2>1 DEF H!Inv, H!ListShows, H!WalkShowsAll, H!Alive
  <2> QED
    BY <2>1, <2>2 DEF H!Inv
<1>4. HistoryPart /\ [Next]_vars => [part = "history" => H!Progresses]_vars
  <2> SUFFICES ASSUME HistoryPart, [Next]_vars, part = "history"
               PROVE  H!Progresses
    OBVIOUS
  <2>1. [H!Next]_(H!hvars)
    BY DEF Next, vars, cells, H!hvars
  <2> QED
    BY <2>1, HistoryProgresses DEF HistoryPart
<1> QED
  BY <1>1, <1>2, <1>3, <1>4, PTL DEF Spec, HistoryIsTrue

-----------------------------------------------------------------------------
(* The scopes of the requests.  Of their cells, c1 is work, c2 ctx, c3     *)
(* saved, c4 at, c5 kwargs, c6 wire and c7 default.                        *)

Webs == [thinking: 0..2, companion: BOOLEAN, tool: BOOLEAN, media: BOOLEAN,
         task: BOOLEAN, attached: BOOLEAN]
Contexts == [web: Webs, timeout: Nat, once: BOOLEAN, initializing: BOOLEAN]
Places == {"enter", "generate", "call", "initialize", "send", "answer", "reset", "leave", "done"}

RequestTyped ==
    /\ c1 \in [Requests -> Q!Works]
    /\ c2 \in [Requests -> Contexts]
    /\ c3 \in [Requests -> Seq(Contexts)]
    /\ c4 \in [Requests -> Places]
    /\ c5 \in [Requests -> [retry: BOOLEAN, frames: Nat]]
    /\ c6 \in [Requests -> Seq(Webs)]
    /\ c7 = Configured

\* The context inside the workflow's scopes, and inside the request's own.
Inside(w) ==
    [web |-> Q!Selected(Q!ScopeArguments(w.kind), Q!Plain),
     timeout |-> IF w.kind = "media" THEN Configured + 1 ELSE 0,
     once |-> w.kind \in {"research", "chat", "task session", "canvas"},
     initializing |-> FALSE]
Asking(w) == [Inside(w) EXCEPT !.web = Q!Wanted(w)]
\* The context of a reconnection: without the request's own time limit.
Connecting(w) ==
    IF Inside(w).timeout # 0 THEN [Asking(w) EXCEPT !.timeout = 0, !.initializing = TRUE]
    ELSE Asking(w)

\* The context and the scopes to return to, by where the request is.
Stacked(q) ==
    /\ c4[q] \in {"enter", "done"} => c2[q] = Q!NoScope /\ c3[q] = <<>>
    /\ c4[q] \in {"generate", "leave"} => c2[q] = Inside(c1[q]) /\ c3[q] = <<Q!NoScope>>
    /\ c4[q] \in {"call", "send", "answer", "reset"} =>
          c2[q] = Asking(c1[q]) /\ c3[q] = <<Q!NoScope, Inside(c1[q])>>
    /\ c4[q] = "initialize" =>
          /\ c2[q] = Connecting(c1[q])
          /\ c3[q] = <<Q!NoScope, Inside(c1[q]), Asking(c1[q])>>

\* What it has sent: nothing before its options are fixed; never a second
\* time when the SDK may not retry.
RequestSent(q) ==
    /\ \A i \in DOMAIN c6[q] : c6[q][i] = Q!Wanted(c1[q])
    /\ c4[q] \in {"enter", "generate", "initialize"} => c6[q] = <<>>
    /\ c4[q] \in {"initialize", "call", "send", "answer"} /\ c1[q].kind # "file analysis" =>
          ~c5[q].retry
    /\ c4[q] \in {"call", "send"} => c6[q] = <<>> \/ c5[q].retry
    /\ c1[q].kind # "file analysis" => Len(c6[q]) <= 1

RequestInv == RequestTyped /\ \A q \in Requests : Stacked(q) /\ RequestSent(q)

-----------------------------------------------------------------------------
RequestKinds == {"research", "chat", "task session", "canvas", "media", "file analysis"}
RequestArguments == [thinking: 0..2, learning: {"none", "companion", "guided"},
              tool: BOOLEAN, media: BOOLEAN, task: BOOLEAN, attached: BOOLEAN]

LEMMA RequestWorksTyped ==
    ASSUME NEW w \in Q!Works
    PROVE  /\ w.kind \in RequestKinds
           /\ w.kind = "research" => w.args = Q!NoArguments
           /\ w.kind = "chat" => w.args \in Q!ChatArguments
           /\ w.kind = "task session" => w.args = [Q!NoArguments EXCEPT !.thinking = 1]
           /\ w.kind = "canvas" => w.args = [Q!NoArguments EXCEPT !.thinking = 1, !.tool = TRUE]
           /\ w.kind = "media" => \/ w.args = [Q!NoArguments EXCEPT !.media = TRUE]
                                  \/ w.args = [Q!NoArguments EXCEPT !.media = TRUE, !.thinking = 1]
           /\ w.kind = "file analysis" => w.args = [Q!NoArguments EXCEPT !.thinking = 1]
<1>1. CASE w \in [kind: {"research"}, args: {Q!NoArguments}]
  <2>1. w.kind = "research" /\ w.args = Q!NoArguments
    BY <1>1
  <2> QED
    BY <2>1 DEF RequestKinds
<1>2. CASE w \in [kind: {"chat"}, args: Q!ChatArguments]
  <2>1. w.kind = "chat" /\ w.args \in Q!ChatArguments
    BY <1>2
  <2> QED
    BY <2>1 DEF RequestKinds
<1>3. CASE w \in [kind: {"task session"}, args: {[Q!NoArguments EXCEPT !.thinking = 1]}]
  <2>1. w.kind = "task session" /\ w.args = [Q!NoArguments EXCEPT !.thinking = 1]
    BY Zenon, <1>3
  <2> QED
    BY Zenon, <2>1 DEF RequestKinds
<1>4. CASE w \in [kind: {"canvas"}, args: {[Q!NoArguments EXCEPT !.thinking = 1, !.tool = TRUE]}]
  <2>1. w.kind = "canvas" /\ w.args = [Q!NoArguments EXCEPT !.thinking = 1, !.tool = TRUE]
    BY <1>4
  <2> QED
    BY <2>1 DEF RequestKinds
<1>5. CASE w \in [kind: {"media"}, args: {[Q!NoArguments EXCEPT !.media = TRUE],
                                         [Q!NoArguments EXCEPT !.media = TRUE, !.thinking = 1]}]
  <2>1. /\ w.kind = "media"
        /\ \/ w.args = [Q!NoArguments EXCEPT !.media = TRUE]
           \/ w.args = [Q!NoArguments EXCEPT !.media = TRUE, !.thinking = 1]
    BY <1>5
  <2> QED
    BY <2>1 DEF RequestKinds
<1>6. CASE w \in [kind: {"file analysis"}, args: {[Q!NoArguments EXCEPT !.thinking = 1]}]
  <2>1. w.kind = "file analysis" /\ w.args = [Q!NoArguments EXCEPT !.thinking = 1]
    BY Zenon, <1>6
  <2> QED
    BY Zenon, <2>1 DEF RequestKinds
<1> QED
  BY Zenon, <1>1, <1>2, <1>3, <1>4, <1>5, <1>6 DEF Q!Works

LEMMA RequestPlainTyped == Q!Plain \in Webs /\ Q!NoArguments \in RequestArguments
BY DEF Webs, Q!Plain, Q!NoArguments, RequestArguments

LEMMA RequestWebsEqual ==
    ASSUME NEW r \in Webs, NEW s \in Webs,
           r.thinking = s.thinking, r.companion = s.companion, r.tool = s.tool,
           r.media = s.media, r.task = s.task, r.attached = s.attached
    PROVE  r = s
BY DEF Webs

LEMMA RequestFreshIs ==
    ASSUME NEW a \in RequestArguments
    PROVE  /\ Q!Fresh(a) \in Webs /\ Q!Fresh(a).thinking = a.thinking
           /\ Q!Fresh(a).companion = (a.learning = "companion")
           /\ Q!Fresh(a).tool = (a.learning = "guided")
           /\ Q!Fresh(a).media = FALSE /\ Q!Fresh(a).task = FALSE /\ Q!Fresh(a).attached = FALSE
<1>1. /\ a.thinking \in 0..2
      /\ (a.learning = "companion") \in BOOLEAN /\ (a.learning = "guided") \in BOOLEAN
  BY DEF RequestArguments
<1>2. \A w \in Webs, n \in 0..2, c, t \in BOOLEAN :
        [w EXCEPT !.thinking = n, !.companion = c, !.tool = t] \in Webs
  BY DEF Webs
<1>3. Q!Fresh(a) \in Webs
  BY Zenon, <1>1, <1>2, RequestPlainTyped DEF Q!Fresh
<1>4. Q!Fresh(a).thinking = a.thinking
  BY DEF Q!Fresh, Q!Plain
<1>5. Q!Fresh(a).companion = (a.learning = "companion") /\ Q!Fresh(a).tool = (a.learning = "guided")
  BY DEF Q!Fresh, Q!Plain
<1>6. Q!Fresh(a).media = FALSE /\ Q!Fresh(a).task = FALSE /\ Q!Fresh(a).attached = FALSE
  BY DEF Q!Fresh, Q!Plain
<1> QED
  BY <1>3, <1>4, <1>5, <1>6

\* What _set_web_request selects, option by option.
LEMMA RequestSelectedIs ==
    ASSUME NEW a \in RequestArguments, NEW e \in Webs, a # Q!NoArguments, NEW b \in Webs,
           b = IF ~Q!Thinks(a) /\ (a.media \/ a.task) /\ e # Q!Plain THEN e ELSE Q!Fresh(a)
    PROVE  /\ Q!Selected(a, e) \in Webs
           /\ Q!Selected(a, e).thinking = b.thinking
           /\ Q!Selected(a, e).companion = b.companion
           /\ Q!Selected(a, e).tool = (b.tool \/ a.tool)
           /\ Q!Selected(a, e).media = (a.media \/ e.media)
           /\ Q!Selected(a, e).task = (a.task \/ e.task)
           /\ Q!Selected(a, e).attached = (b.attached \/ a.attached)
<1>1. Q!Selected(a, e) = [b EXCEPT !.media = a.media \/ e.media, !.task = a.task \/ e.task,
                                 !.tool = @ \/ a.tool, !.attached = @ \/ a.attached]
  BY DEF Q!Selected
<1> QED
  BY <1>1 DEF Webs, RequestArguments

\* Arguments that think, or that find no scope around them, start afresh.
LEMMA RequestSelectedAfreshIs ==
    ASSUME NEW a \in RequestArguments, NEW e \in Webs, a # Q!NoArguments, Q!Thinks(a) \/ e = Q!Plain
    PROVE  /\ Q!Selected(a, e) \in Webs
           /\ Q!Selected(a, e).thinking = a.thinking
           /\ Q!Selected(a, e).companion = (a.learning = "companion")
           /\ Q!Selected(a, e).tool = (a.learning = "guided" \/ a.tool)
           /\ Q!Selected(a, e).media = (a.media \/ e.media)
           /\ Q!Selected(a, e).task = (a.task \/ e.task)
           /\ Q!Selected(a, e).attached = a.attached
<1>1. PICK b \in Webs : b = Q!Fresh(a)
  BY RequestFreshIs
<1>2. b = IF ~Q!Thinks(a) /\ (a.media \/ a.task) /\ e # Q!Plain THEN e ELSE Q!Fresh(a)
  BY <1>1
<1>3. /\ Q!Selected(a, e) \in Webs
      /\ Q!Selected(a, e).thinking = b.thinking
      /\ Q!Selected(a, e).companion = b.companion
      /\ Q!Selected(a, e).tool = (b.tool \/ a.tool)
      /\ Q!Selected(a, e).media = (a.media \/ e.media)
      /\ Q!Selected(a, e).task = (a.task \/ e.task)
      /\ Q!Selected(a, e).attached = (b.attached \/ a.attached)
  BY <1>2, RequestSelectedIs
<1>4. /\ b.thinking = a.thinking /\ b.companion = (a.learning = "companion")
      /\ b.tool = (a.learning = "guided") /\ b.attached = FALSE
  BY <1>1, RequestFreshIs
<1>5. a.attached \in BOOLEAN
  BY DEF RequestArguments
<1>6. Q!Selected(a, e).tool = (a.learning = "guided" \/ a.tool)
  BY <1>3, <1>4
<1>7. Q!Selected(a, e).attached = a.attached
  BY <1>3, <1>4, <1>5
<1> QED
  BY <1>3, <1>4, <1>6, <1>7

LEMMA RequestWantedIs ==
    ASSUME NEW w, NEW a \in RequestArguments, a = w.args,
           NEW s \in RequestArguments, s = Q!ScopeArguments(w.kind)
    PROVE  /\ Q!Wanted(w) \in Webs
           /\ Q!Wanted(w).thinking = IF a.thinking # 0 THEN a.thinking ELSE s.thinking
           /\ Q!Wanted(w).companion = (a.learning = "companion")
           /\ Q!Wanted(w).tool = (a.tool \/ a.learning = "guided")
           /\ Q!Wanted(w).media = a.media
           /\ Q!Wanted(w).task = (a.task \/ s.task)
           /\ Q!Wanted(w).attached = a.attached
<1>1. /\ a.thinking \in 0..2 /\ s.thinking \in 0..2 /\ a.tool \in BOOLEAN /\ a.media \in BOOLEAN
      /\ a.task \in BOOLEAN /\ s.task \in BOOLEAN /\ a.attached \in BOOLEAN
  BY DEF RequestArguments
<1> QED
  BY <1>1 DEF Q!Wanted, Webs

LEMMA RequestArgumentsTyped ==
    ASSUME NEW w \in Q!Works
    PROVE  w.args \in RequestArguments /\ Q!ScopeArguments(w.kind) \in RequestArguments
<1>1. /\ [Q!NoArguments EXCEPT !.thinking = 1] \in RequestArguments
      /\ [Q!NoArguments EXCEPT !.thinking = 2] \in RequestArguments
      /\ [Q!NoArguments EXCEPT !.thinking = 1, !.tool = TRUE] \in RequestArguments
      /\ [Q!NoArguments EXCEPT !.media = TRUE] \in RequestArguments
      /\ [Q!NoArguments EXCEPT !.media = TRUE, !.thinking = 1] \in RequestArguments
      /\ [Q!NoArguments EXCEPT !.task = TRUE] \in RequestArguments
  <2>1. \A x \in RequestArguments, n \in 0..2, m \in BOOLEAN :
          /\ [x EXCEPT !.thinking = n] \in RequestArguments
          /\ [x EXCEPT !.thinking = n, !.tool = m] \in RequestArguments
          /\ [x EXCEPT !.media = m] \in RequestArguments
          /\ [x EXCEPT !.media = m, !.thinking = n] \in RequestArguments
          /\ [x EXCEPT !.task = m] \in RequestArguments
    BY DEF RequestArguments
  <2>2. 1 \in 0..2 /\ 2 \in 0..2
    OBVIOUS
  <2> QED
    BY Zenon, <2>1, <2>2, RequestPlainTyped
<1>2. \A x \in Q!ChatArguments : x \in RequestArguments
  <2> SUFFICES ASSUME NEW x \in Q!ChatArguments  PROVE x \in RequestArguments
    OBVIOUS
  <2>1. x \in [thinking: 1..2, learning: {"none", "companion", "guided"}, tool: {FALSE},
              media: {FALSE}, task: BOOLEAN, attached: BOOLEAN]
    BY DEF Q!ChatArguments
  <2>2. /\ x.thinking \in 1..2 /\ x.tool = FALSE /\ x.media = FALSE
        /\ x.learning \in {"none", "companion", "guided"}
        /\ x.task \in BOOLEAN /\ x.attached \in BOOLEAN
    BY <2>1
  <2>3. x = [thinking |-> x.thinking, learning |-> x.learning, tool |-> x.tool,
             media |-> x.media, task |-> x.task, attached |-> x.attached]
    BY <2>1
  <2>4. x.thinking \in 0..2
    BY <2>2
  <2> QED
    BY <2>2, <2>3, <2>4 DEF RequestArguments
<1>3. w.args \in RequestArguments
  <2> HIDE DEF Q!NoArguments
  <2>1. w.kind = "chat" => w.args \in RequestArguments
    BY Zenon, <1>2, RequestWorksTyped
  <2>2. w.kind = "research" => w.args \in RequestArguments
    BY Zenon, RequestPlainTyped, RequestWorksTyped
  <2>3. w.kind \in {"task session", "file analysis"} => w.args \in RequestArguments
    BY Zenon, <1>1, RequestWorksTyped
  <2>4. w.kind = "canvas" => w.args \in RequestArguments
    BY Zenon, <1>1, RequestWorksTyped
  <2>5. w.kind = "media" => w.args \in RequestArguments
    BY Zenon, <1>1, RequestWorksTyped
  <2>6. w.kind \in RequestKinds
    BY Zenon, RequestWorksTyped
  <2> QED
    BY Zenon, <2>1, <2>2, <2>3, <2>4, <2>5, <2>6 DEF RequestKinds
<1>4. Q!ScopeArguments(w.kind) \in RequestArguments
  <2> HIDE DEF Q!NoArguments
  <2>1. w.kind = "research" => Q!ScopeArguments(w.kind) \in RequestArguments
    BY <1>1 DEF Q!ScopeArguments
  <2>2. w.kind = "task session" => Q!ScopeArguments(w.kind) \in RequestArguments
    BY Zenon, <1>1 DEF Q!ScopeArguments
  <2>3. w.kind \notin {"research", "task session"} => Q!ScopeArguments(w.kind) \in RequestArguments
    BY Zenon, RequestPlainTyped DEF Q!ScopeArguments
  <2> QED
    BY Zenon, <2>1, <2>2, <2>3
<1> QED
  BY <1>3, <1>4

\* The kinds tell the arguments apart: research alone has none of its own,
\* and only a task session has both a scope and arguments.
LEMMA RequestArgumentsByKind ==
    ASSUME NEW w \in Q!Works
    PROVE  /\ w.kind # "research" =>
                /\ w.args # Q!NoArguments
                /\ w.args.thinking # 0 \/ w.args.media
                /\ Q!ScopeArguments(w.kind) = Q!NoArguments \/ w.args.thinking # 0
           /\ w.kind = "media" => w.args.media = TRUE
           /\ w.kind # "research" => /\ Q!ScopeArguments(w.kind).thinking = 0
                                     /\ Q!ScopeArguments(w.kind).learning = "none"
                                     /\ Q!ScopeArguments(w.kind).tool = FALSE
                                     /\ Q!ScopeArguments(w.kind).media = FALSE
                                     /\ Q!ScopeArguments(w.kind).attached = FALSE
<1>1. w.kind = "chat" => w.args.thinking # 0
  <2>1. \A x \in Q!ChatArguments : x.thinking # 0
    BY DEF Q!ChatArguments
  <2> QED
    BY Zenon, <2>1, RequestWorksTyped
<1>2. w.kind \in {"task session", "file analysis", "canvas"} => w.args.thinking # 0
  <2>1. [Q!NoArguments EXCEPT !.thinking = 1].thinking = 1
    BY DEF Q!NoArguments
  <2>2. [Q!NoArguments EXCEPT !.thinking = 1, !.tool = TRUE].thinking = 1
    BY DEF Q!NoArguments
  <2>3. w.kind = "task session" \/ w.kind = "file analysis" => w.args.thinking = 1
    BY Zenon, <2>1, RequestWorksTyped
  <2>4. w.kind = "canvas" => w.args.thinking = 1
    BY Zenon, <2>2, RequestWorksTyped
  <2>5. 1 # 0
    OBVIOUS
  <2> QED
    BY Zenon, <2>3, <2>4, <2>5
<1>3. w.kind = "media" => w.args.media = TRUE
  <2>1. [Q!NoArguments EXCEPT !.media = TRUE].media = TRUE
    BY DEF Q!NoArguments
  <2>2. [Q!NoArguments EXCEPT !.media = TRUE, !.thinking = 1].media = TRUE
    BY DEF Q!NoArguments
  <2> QED
    BY Zenon, <2>1, <2>2, RequestWorksTyped
<1>4. Q!NoArguments.thinking = 0 /\ Q!NoArguments.media = FALSE
  BY DEF Q!NoArguments
<1>5. w.kind \in RequestKinds
  BY Zenon, RequestWorksTyped
<1>6. w.kind # "research" => w.args.thinking # 0 \/ w.args.media
  BY Zenon, <1>1, <1>2, <1>3, <1>5 DEF RequestKinds
<1>7. w.kind # "research" => w.args # Q!NoArguments
  BY <1>4, <1>6
<1>8. w.kind \notin {"research", "task session"} => Q!ScopeArguments(w.kind) = Q!NoArguments
  BY Zenon DEF Q!ScopeArguments
<1>9. w.kind = "task session" => Q!ScopeArguments(w.kind) = [Q!NoArguments EXCEPT !.task = TRUE]
  BY Zenon DEF Q!ScopeArguments
<1>10. w.kind # "research" => /\ Q!ScopeArguments(w.kind).thinking = 0
                             /\ Q!ScopeArguments(w.kind).learning = "none"
                             /\ Q!ScopeArguments(w.kind).tool = FALSE
                             /\ Q!ScopeArguments(w.kind).media = FALSE
                             /\ Q!ScopeArguments(w.kind).attached = FALSE
  <2>1. CASE w.kind \notin {"research", "task session"}
    <3>1. /\ Q!NoArguments.thinking = 0 /\ Q!NoArguments.learning = "none"
          /\ Q!NoArguments.tool = FALSE /\ Q!NoArguments.media = FALSE
          /\ Q!NoArguments.attached = FALSE
      BY DEF Q!NoArguments
    <3> HIDE DEF Q!NoArguments
    <3> QED
      BY Zenon, <1>8, <2>1, <3>1
  <2>2. CASE w.kind = "task session"
    BY Zenon, <1>9, <2>2 DEF Q!NoArguments
  <2> QED
    BY Zenon, <2>1, <2>2
<1> QED
  BY Zenon, <1>2, <1>3, <1>6, <1>7, <1>8, <1>10

\* The scopes and the arguments select together what the caller wants.
LEMMA RequestSelectedWanted ==
    ASSUME NEW w \in Q!Works
    PROVE  /\ Q!Selected(w.args, Q!Selected(Q!ScopeArguments(w.kind), Q!Plain)) = Q!Wanted(w)
           /\ Q!Wanted(w) \in Webs
           /\ Q!Closed(Q!Wanted(w))
           /\ Q!Selected(Q!ScopeArguments(w.kind), Q!Plain) \in Webs
<1> DEFINE a == w.args
           c == Q!ScopeArguments(w.kind)
           s == Q!Selected(c, Q!Plain)
<1>0. a \in RequestArguments /\ c \in RequestArguments
  BY RequestArgumentsTyped
<1>1. /\ Q!Wanted(w) \in Webs
      /\ Q!Wanted(w).thinking = IF a.thinking # 0 THEN a.thinking ELSE c.thinking
      /\ Q!Wanted(w).companion = (a.learning = "companion")
      /\ Q!Wanted(w).tool = (a.tool \/ a.learning = "guided")
      /\ Q!Wanted(w).media = a.media
      /\ Q!Wanted(w).task = (a.task \/ c.task)
      /\ Q!Wanted(w).attached = a.attached
  BY <1>0, RequestWantedIs
<1>2. /\ s \in Webs
      /\ c = Q!NoArguments => s = Q!Plain
      /\ c # Q!NoArguments =>
           /\ s.thinking = c.thinking /\ s.companion = (c.learning = "companion")
           /\ s.tool = (c.learning = "guided" \/ c.tool)
           /\ s.media = (c.media \/ Q!Plain.media) /\ s.task = (c.task \/ Q!Plain.task)
           /\ s.attached = c.attached
  <2>1. CASE c = Q!NoArguments
    BY <2>1, RequestPlainTyped DEF Q!Selected
  <2>2. CASE c # Q!NoArguments
    BY <1>0, <2>2, RequestPlainTyped, RequestSelectedAfreshIs
  <2> QED
    BY <2>1, <2>2
<1>3. CASE w.kind = "research"
  <2>1. a = Q!NoArguments
    BY Zenon, <1>3, RequestWorksTyped
  <2>2. c = [Q!NoArguments EXCEPT !.thinking = 2]
    BY <1>3 DEF Q!ScopeArguments
  <2>3. c # Q!NoArguments
    BY <2>2 DEF Q!NoArguments
  <2>4. Q!Selected(a, s) = s
    BY <2>1 DEF Q!Selected
  <2>a. /\ a.thinking = 0 /\ a.learning = "none" /\ a.tool = FALSE /\ a.media = FALSE
        /\ a.task = FALSE /\ a.attached = FALSE
    BY <2>1 DEF Q!NoArguments
  <2>c. /\ c.thinking = 2 /\ c.learning = "none" /\ c.tool = FALSE /\ c.media = FALSE
        /\ c.task = FALSE /\ c.attached = FALSE
    BY <2>2 DEF Q!NoArguments
  <2>p. Q!Plain.media = FALSE /\ Q!Plain.task = FALSE
    BY DEF Q!Plain
  <2>w. /\ Q!Wanted(w).thinking = 2 /\ Q!Wanted(w).companion = FALSE /\ Q!Wanted(w).tool = FALSE
        /\ Q!Wanted(w).media = FALSE /\ Q!Wanted(w).task = FALSE /\ Q!Wanted(w).attached = FALSE
    BY <1>1, <2>a, <2>c
  <2>s. /\ s.thinking = 2 /\ s.companion = FALSE /\ s.tool = FALSE
        /\ s.media = FALSE /\ s.task = FALSE /\ s.attached = FALSE
    BY <1>2, <2>3, <2>c, <2>p
  <2>5. s = Q!Wanted(w)
    <3> HIDE DEF s
    <3> QED
      BY <1>1, <1>2, <2>w, <2>s, RequestWebsEqual
  <2>6. Q!Closed(s)
    BY <1>2, <2>2, <2>3 DEF Q!Closed, Q!NoArguments
  <2> QED
    BY <1>1, <1>2, <2>4, <2>5, <2>6
<1>4. CASE w.kind # "research"
  <2>0. a # Q!NoArguments /\ (Q!Thinks(a) \/ s = Q!Plain)
    BY <1>2, <1>4, RequestArgumentsByKind DEF Q!Thinks
  <2>1. /\ Q!Selected(a, s) \in Webs
        /\ Q!Selected(a, s).thinking = a.thinking
        /\ Q!Selected(a, s).companion = (a.learning = "companion")
        /\ Q!Selected(a, s).tool = (a.learning = "guided" \/ a.tool)
        /\ Q!Selected(a, s).media = (a.media \/ s.media)
        /\ Q!Selected(a, s).task = (a.task \/ s.task)
        /\ Q!Selected(a, s).attached = a.attached
    BY <1>0, <1>2, <2>0, RequestSelectedAfreshIs
  <2>p. Q!Plain.media = FALSE /\ Q!Plain.task = FALSE /\ Q!NoArguments.task = FALSE
    BY DEF Q!Plain, Q!NoArguments
  <2>c. c.thinking = 0 /\ c.media = FALSE /\ c.task \in BOOLEAN
    BY <1>0, <1>4, RequestArgumentsByKind DEF RequestArguments
  <2>2. s.media = FALSE /\ s.task = c.task
    BY <1>2, <2>p, <2>c
  <2>3. /\ a.media \in BOOLEAN /\ a.task \in BOOLEAN /\ a.tool \in BOOLEAN /\ a.thinking \in 0..2
    BY <1>0 DEF RequestArguments
  <2>4. Q!Selected(a, s) = Q!Wanted(w)
    <3>1. /\ Q!Selected(a, s).media = a.media /\ Q!Selected(a, s).task = (a.task \/ c.task)
          /\ Q!Wanted(w).thinking = a.thinking
          /\ Q!Selected(a, s).tool = Q!Wanted(w).tool
      BY <1>1, <2>1, <2>2, <2>3, <2>c
    <3> HIDE DEF s
    <3> QED
      BY <1>1, <2>1, <3>1, RequestWebsEqual
  <2>5. a.thinking # 0 \/ a.media
    BY <1>4, RequestArgumentsByKind
  <2>6. Q!Closed(Q!Wanted(w))
    BY <1>1, <2>5 DEF Q!Closed
  <2> QED
    BY <1>1, <1>2, <2>4, <2>6
<1> QED
  BY <1>3, <1>4

\* Only the analysis of a file may be submitted again.
LEMMA RequestOnlyAnalysisRepeats ==
    ASSUME NEW w \in Q!Works, w.kind # "file analysis"
    PROVE  Inside(w).once \/ Q!Wanted(w).media
<1>1. w.kind = "media" => Q!Wanted(w).media
  BY RequestArgumentsByKind, RequestArgumentsTyped, RequestWantedIs
<1>2. w.kind \in RequestKinds
  BY Zenon, RequestWorksTyped
<1> QED
  BY Zenon, <1>1, <1>2 DEF RequestKinds, Inside

LEMMA RequestContextsEqual ==
    ASSUME NEW c \in Contexts, NEW d \in Contexts, c.web = d.web, c.timeout = d.timeout,
           c.once = d.once, c.initializing = d.initializing
    PROVE  c = d
BY DEF Contexts

LEMMA RequestContextsTyped ==
    ASSUME Configured \in Nat, NEW w \in Q!Works
    PROVE  Q!NoScope \in Contexts /\ Inside(w) \in Contexts /\ Asking(w) \in Contexts
           /\ Connecting(w) \in Contexts
<1>1. Q!NoScope \in Contexts
  BY DEF Q!NoScope, Contexts, Webs, Q!Plain
<1>2. Inside(w) \in Contexts
  BY RequestSelectedWanted DEF Inside, Contexts
<1>3. Asking(w) \in Contexts
  BY <1>2, RequestSelectedWanted DEF Asking, Contexts
<1>4. Connecting(w) \in Contexts
  BY <1>3 DEF Connecting, Contexts
<1> QED
  BY <1>1, <1>2, <1>3, <1>4

-----------------------------------------------------------------------------
\* Sequences of scopes, entered and left.
LEMMA RequestPopped ==
    ASSUME NEW set, NEW s \in Seq(set), NEW e \in set, NEW t, t = Append(s, e)
    PROVE  t[Len(t)] = e /\ SubSeq(t, 1, Len(t) - 1) = s
<1>1. /\ t \in Seq(set) /\ Len(t) = Len(s) + 1 /\ Len(s) \in Nat /\ t[Len(t)] = e
      /\ \A i \in 1..Len(s) : t[i] = s[i]
  BY AppendProperties, LenProperties
<1>2. \A i \in 1..(Len(t) - 1) : t[i] \in set
  BY <1>1, ElementOfSeq
<1>3. /\ SubSeq(t, 1, Len(t) - 1) \in Seq(set) /\ Len(SubSeq(t, 1, Len(t) - 1)) = Len(s)
      /\ \A i \in 1..Len(s) : SubSeq(t, 1, Len(t) - 1)[i] = s[i]
  <2>1. 1 \in Int /\ Len(t) - 1 \in Int
    BY <1>1
  <2>2. /\ SubSeq(t, 1, Len(t) - 1) \in Seq(set)
        /\ Len(SubSeq(t, 1, Len(t) - 1)) = IF 1 <= Len(t) - 1 THEN Len(t) - 1 - 1 + 1 ELSE 0
        /\ \A i \in 1..(Len(t) - 1 - 1 + 1) : SubSeq(t, 1, Len(t) - 1)[i] = t[1 + i - 1]
    BY <1>2, <2>1, SubSeqProperties
  <2> QED
    BY <1>1, <2>2
<1> QED
  BY <1>1, <1>3, SeqEqual

LEMMA RequestStacks ==
    ASSUME NEW set, NEW a \in set, NEW b \in set, NEW c \in set
    PROVE  /\ Append(<<>>, a) = <<a>>
           /\ Append(<<a>>, b) = <<a, b>>
           /\ Append(<<a, b>>, c) = <<a, b, c>>
           /\ <<a>>[Len(<<a>>)] = a /\ SubSeq(<<a>>, 1, Len(<<a>>) - 1) = <<>>
           /\ <<a, b>>[Len(<<a, b>>)] = b
           /\ SubSeq(<<a, b>>, 1, Len(<<a, b>>) - 1) = <<a>>
           /\ <<a, b, c>>[Len(<<a, b, c>>)] = c
           /\ SubSeq(<<a, b, c>>, 1, Len(<<a, b, c>>) - 1) = <<a, b>>
<1>0. <<>> \in Seq(set) /\ <<a>> \in Seq(set) /\ <<a, b>> \in Seq(set) /\ <<a, b, c>> \in Seq(set)
  OBVIOUS
<1>1. Append(<<>>, a) = <<a>>
  OBVIOUS
<1>2. Append(<<a>>, b) = <<a, b>>
  <2>1. /\ Append(<<a>>, b) \in Seq(set) /\ Len(Append(<<a>>, b)) = 2
        /\ Append(<<a>>, b)[1] = a /\ Append(<<a>>, b)[2] = b
    BY <1>0
  <2>2. Len(<<a, b>>) = 2 /\ <<a, b>>[1] = a /\ <<a, b>>[2] = b
    OBVIOUS
  <2>3. \A i \in 1..2 : Append(<<a>>, b)[i] = <<a, b>>[i]
    <3>1. \A i \in 1..2 : i = 1 \/ i = 2
      OBVIOUS
    <3> QED
      BY Zenon, <2>1, <2>2, <3>1
  <2> QED
    BY Zenon, <1>0, <2>1, <2>2, <2>3, SeqEqual
<1>3. Append(<<a, b>>, c) = <<a, b, c>>
  <2>1. /\ Append(<<a, b>>, c) \in Seq(set) /\ Len(Append(<<a, b>>, c)) = 3
        /\ Append(<<a, b>>, c)[1] = a /\ Append(<<a, b>>, c)[2] = b /\ Append(<<a, b>>, c)[3] = c
    BY <1>0
  <2>2. Len(<<a, b, c>>) = 3 /\ <<a, b, c>>[1] = a /\ <<a, b, c>>[2] = b /\ <<a, b, c>>[3] = c
    OBVIOUS
  <2>3. \A i \in 1..3 : Append(<<a, b>>, c)[i] = <<a, b, c>>[i]
    <3>1. \A i \in 1..3 : i = 1 \/ i = 2 \/ i = 3
      OBVIOUS
    <3> QED
      BY Zenon, <2>1, <2>2, <3>1
  <2> QED
    BY Zenon, <1>0, <2>1, <2>2, <2>3, SeqEqual
<1>4. <<a>>[Len(<<a>>)] = a /\ SubSeq(<<a>>, 1, Len(<<a>>) - 1) = <<>>
  BY <1>0, <1>1, RequestPopped
<1>5. <<a, b>>[Len(<<a, b>>)] = b /\ SubSeq(<<a, b>>, 1, Len(<<a, b>>) - 1) = <<a>>
  BY <1>0, <1>2, RequestPopped
<1>6. /\ <<a, b, c>>[Len(<<a, b, c>>)] = c
      /\ SubSeq(<<a, b, c>>, 1, Len(<<a, b, c>>) - 1) = <<a, b>>
  BY <1>0, <1>3, RequestPopped
<1> QED
  BY <1>1, <1>2, <1>3, <1>4, <1>5, <1>6

\* The stacks of a request.
LEMMA RequestScopes ==
    ASSUME Configured \in Nat, NEW w \in Q!Works
    PROVE  /\ Append(<<>>, Q!NoScope) = <<Q!NoScope>>
           /\ Append(<<Q!NoScope>>, Inside(w)) = <<Q!NoScope, Inside(w)>>
           /\ Append(<<Q!NoScope, Inside(w)>>, Asking(w)) = <<Q!NoScope, Inside(w), Asking(w)>>
           /\ <<Q!NoScope>>[Len(<<Q!NoScope>>)] = Q!NoScope
           /\ SubSeq(<<Q!NoScope>>, 1, Len(<<Q!NoScope>>) - 1) = <<>>
           /\ <<Q!NoScope, Inside(w)>>[Len(<<Q!NoScope, Inside(w)>>)] = Inside(w)
           /\ SubSeq(<<Q!NoScope, Inside(w)>>, 1, Len(<<Q!NoScope, Inside(w)>>) - 1) = <<Q!NoScope>>
           /\ <<Q!NoScope, Inside(w), Asking(w)>>[Len(<<Q!NoScope, Inside(w), Asking(w)>>)]
                = Asking(w)
           /\ SubSeq(<<Q!NoScope, Inside(w), Asking(w)>>, 1,
                     Len(<<Q!NoScope, Inside(w), Asking(w)>>) - 1)
                = <<Q!NoScope, Inside(w)>>
           /\ <<>> \in Seq(Contexts) /\ <<Q!NoScope>> \in Seq(Contexts)
           /\ <<Q!NoScope, Inside(w)>> \in Seq(Contexts)
           /\ <<Q!NoScope, Inside(w), Asking(w)>> \in Seq(Contexts)
<1>1. Q!NoScope \in Contexts /\ Inside(w) \in Contexts /\ Asking(w) \in Contexts
  BY RequestContextsTyped
<1> HIDE DEF Contexts, Q!NoScope, Inside, Asking
<1>2. /\ <<>> \in Seq(Contexts) /\ <<Q!NoScope>> \in Seq(Contexts)
      /\ <<Q!NoScope, Inside(w)>> \in Seq(Contexts)
      /\ <<Q!NoScope, Inside(w), Asking(w)>> \in Seq(Contexts)
  BY <1>1
<1> QED
  BY <1>1, <1>2, RequestStacks

-----------------------------------------------------------------------------
\* A step of request q leaves it in a new context, with new scopes to return
\* to, at a new place, with new arguments and submissions, and no other
\* request notices.
Kwargs == [retry: BOOLEAN, frames: Nat]
Becomes(q, context, scopes, place, arguments, sent) ==
    /\ c1' = c1 /\ c7' = c7
    /\ c2' = [c2 EXCEPT ![q] = context]
    /\ c3' = [c3 EXCEPT ![q] = scopes]
    /\ c4' = [c4 EXCEPT ![q] = place]
    /\ c5' = [c5 EXCEPT ![q] = arguments]
    /\ c6' = [c6 EXCEPT ![q] = sent]

LEMMA RequestSame ==
    ASSUME RequestTyped, NEW q \in Requests
    PROVE  /\ c2 = [c2 EXCEPT ![q] = c2[q]] /\ c3 = [c3 EXCEPT ![q] = c3[q]]
           /\ c4 = [c4 EXCEPT ![q] = c4[q]]
           /\ c5 = [c5 EXCEPT ![q] = c5[q]] /\ c6 = [c6 EXCEPT ![q] = c6[q]]
           /\ c1[q] \in Q!Works /\ c2[q] \in Contexts /\ c3[q] \in Seq(Contexts)
           /\ c4[q] \in Places /\ c5[q] \in Kwargs /\ c6[q] \in Seq(Webs)
BY DEF RequestTyped, Kwargs

LEMMA RequestBecoming ==
    ASSUME RequestInv, NEW q \in Requests, NEW x \in Contexts, NEW y \in Seq(Contexts),
           NEW p \in Places, NEW k \in Kwargs, NEW v \in Seq(Webs),
           Becomes(q, x, y, p, k, v),
           (c2'[q] = x /\ c3'[q] = y /\ c4'[q] = p /\ c5'[q] = k /\ c6'[q] = v
            /\ c1'[q] = c1[q]) => Stacked(q)' /\ RequestSent(q)'
    PROVE  RequestInv'
<1>0. RequestTyped
  BY DEF RequestInv
<1>1. RequestTyped'
  BY <1>0 DEF RequestTyped, Becomes, Kwargs
<1>2. /\ c2'[q] = x /\ c3'[q] = y /\ c4'[q] = p /\ c5'[q] = k /\ c6'[q] = v
      /\ c1'[q] = c1[q]
  BY <1>0 DEF RequestTyped, Becomes
<1>3. \A r \in Requests \ {q} :
        /\ c2'[r] = c2[r] /\ c3'[r] = c3[r] /\ c4'[r] = c4[r] /\ c5'[r] = c5[r]
        /\ c6'[r] = c6[r] /\ c1'[r] = c1[r]
  BY <1>0 DEF RequestTyped, Becomes
<1>4. \A r \in Requests \ {q} : Stacked(r)' /\ RequestSent(r)'
  <2> SUFFICES ASSUME NEW r \in Requests \ {q}  PROVE Stacked(r)' /\ RequestSent(r)'
    OBVIOUS
  <2>1. Stacked(r) /\ RequestSent(r)
    BY DEF RequestInv
  <2>2. Stacked(r)'
    BY Zenon, <1>3, <2>1 DEF Stacked, Inside, Asking, Connecting
  <2>3. RequestSent(r)'
    BY Zenon, <1>3, <2>1 DEF RequestSent
  <2> QED
    BY <2>2, <2>3
<1> QED
  BY <1>1, <1>2, <1>4 DEF RequestInv

LEMMA RequestEnterStep ==
    ASSUME Configured \in Nat, RequestInv, NEW q \in Requests, Q!Enter(q)
    PROVE  RequestInv'
<1>0. RequestTyped /\ Stacked(q) /\ RequestSent(q)
  BY DEF RequestInv
<1>w. c1[q] \in Q!Works
  BY <1>0, RequestSame
<1>1. c4[q] = "enter" /\ c2[q] = Q!NoScope /\ c3[q] = <<>> /\ c6[q] = <<>>
  BY Zenon, <1>0 DEF Q!Enter, Stacked, RequestSent
<1>2. Inside(c1[q]) =
        [Q!NoScope EXCEPT
           !.web = Q!Selected(Q!ScopeArguments(c1[q].kind), @),
           !.timeout = IF c1[q].kind = "media" THEN Configured + 1 ELSE @,
           !.once = c1[q].kind \in {"research", "chat", "task session", "canvas"}]
  <2>1. \A c \in Contexts, v \in Webs, n \in Nat, b \in BOOLEAN :
          [c EXCEPT !.web = v, !.timeout = n, !.once = b] \in Contexts
    BY DEF Contexts
  <2>2. Q!NoScope \in Contexts /\ Inside(c1[q]) \in Contexts
    BY <1>w, RequestContextsTyped
  <2>3. Q!NoScope.web = Q!Plain /\ Q!NoScope.timeout = 0 /\ Q!NoScope.initializing = FALSE
    BY DEF Q!NoScope
  <2> DEFINE s == Q!Selected(Q!ScopeArguments(c1[q].kind), Q!Plain)
             n == IF c1[q].kind = "media" THEN Configured + 1 ELSE 0
             o == c1[q].kind \in {"research", "chat", "task session", "canvas"}
             e == [Q!NoScope EXCEPT !.web = s, !.timeout = n, !.once = o]
  <2>4. s \in Webs /\ n \in Nat /\ o \in BOOLEAN
    BY <1>w, RequestSelectedWanted
  <2>5. /\ Inside(c1[q]).web = s /\ Inside(c1[q]).timeout = n
        /\ Inside(c1[q]).once = o /\ Inside(c1[q]).initializing = FALSE
    BY DEF Inside
  <2> HIDE DEF s, n, o
  <2>6. e \in Contexts
    BY Zenon, <2>1, <2>2, <2>4
  <2>7. e.web = s /\ e.timeout = n /\ e.once = o /\ e.initializing = FALSE
    BY <2>2, <2>3 DEF Contexts
  <2> HIDE DEF e
  <2>8. Inside(c1[q]) = e
    BY <2>2, <2>5, <2>6, <2>7, RequestContextsEqual
  <2> QED
    BY <2>3, <2>8 DEF e, s, n, o
<1>3. Becomes(q, Inside(c1[q]), <<Q!NoScope>>, "generate", c5[q], c6[q])
  <2>1. /\ c3' = [c3 EXCEPT ![q] = Append(<<>>, Q!NoScope)]
        /\ c2' = [c2 EXCEPT ![q] = Inside(c1[q])]
    BY <1>0, <1>1, <1>2 DEF Q!Enter, Q!Pushed, RequestTyped
  <2> QED
    BY <1>0, <1>w, <2>1, RequestSame, RequestScopes DEF Becomes, Q!Enter, Q!Go
<1>4. ASSUME /\ c2'[q] = Inside(c1[q]) /\ c3'[q] = <<Q!NoScope>> /\ c4'[q] = "generate"
             /\ c5'[q] = c5[q] /\ c6'[q] = c6[q] /\ c1'[q] = c1[q]
      PROVE  Stacked(q)' /\ RequestSent(q)'
  <2>1. Stacked(q)'
    BY Zenon, <1>4 DEF Stacked, Inside
  <2>2. RequestSent(q)'
    BY <1>1, <1>4 DEF RequestSent
  <2> QED
    BY <2>1, <2>2
<1>5. "generate" \in Places
  BY DEF Places
<1> QED
  BY <1>0, <1>w, <1>1, <1>3, <1>4, <1>5, RequestSame, RequestScopes,
     RequestContextsTyped, RequestBecoming

LEMMA RequestGenerateStep ==
    ASSUME Configured \in Nat, RequestInv, NEW q \in Requests, Q!Generate(q)
    PROVE  RequestInv'
<1>0. RequestTyped /\ Stacked(q) /\ RequestSent(q)
  BY DEF RequestInv
<1>w. c1[q] \in Q!Works
  BY <1>0, RequestSame
<1>1. /\ c4[q] = "generate" /\ c2[q] = Inside(c1[q]) /\ c3[q] = <<Q!NoScope>>
      /\ c6[q] = <<>>
  BY Zenon, <1>0 DEF Q!Generate, Stacked, RequestSent
<1>2. c2[q].web = Q!Selected(Q!ScopeArguments(c1[q].kind), Q!Plain)
  <2>1. Inside(c1[q]).web = Q!Selected(Q!ScopeArguments(c1[q].kind), Q!Plain)
    BY DEF Inside
  <2> QED
    BY Zenon, <1>1, <2>1
<1>3. Q!Selected(c1[q].args, c2[q].web) = Q!Wanted(c1[q])
  BY <1>w, <1>2, RequestSelectedWanted
<1>4. CASE Q!Excluded(c1[q].args, Q!Wanted(c1[q]))
  <2>1. c4' = [c4 EXCEPT ![q] = "leave"] /\ UNCHANGED <<c2, c3, c5, c1, c6, c7>>
    BY <1>3, <1>4 DEF Q!Generate, Q!Go
  <2>2. Becomes(q, c2[q], c3[q], "leave", c5[q], c6[q])
    BY <1>0, <2>1, RequestSame DEF Becomes
  <2>3. ASSUME /\ c2'[q] = c2[q] /\ c3'[q] = c3[q] /\ c4'[q] = "leave"
               /\ c5'[q] = c5[q] /\ c6'[q] = c6[q] /\ c1'[q] = c1[q]
        PROVE  Stacked(q)' /\ RequestSent(q)'
    <3>1. Stacked(q)'
      BY Zenon, <1>1, <2>3 DEF Stacked, Inside
    <3>2. RequestSent(q)'
      BY <1>1, <2>3 DEF RequestSent
    <3> QED
      BY <3>1, <3>2
  <2>4. "leave" \in Places
    BY DEF Places
  <2> QED
    BY <1>0, <2>2, <2>3, <2>4, RequestSame, RequestBecoming
<1>5. CASE ~Q!Excluded(c1[q].args, Q!Wanted(c1[q]))
  <2> DEFINE k == [c5[q] EXCEPT !.retry = ~Q!Once(q, Q!Wanted(c1[q]))]
  <2>1. /\ Q!Pushed(q, [c2[q] EXCEPT !.web = Q!Wanted(c1[q])])
        /\ c5' = [c5 EXCEPT ![q].retry = ~Q!Once(q, Q!Wanted(c1[q]))]
        /\ c4' = [c4 EXCEPT ![q] = "call"] /\ UNCHANGED <<c1, c6, c7>>
    BY <1>3, <1>5 DEF Q!Generate, Q!Go
  <2>2. [c2[q] EXCEPT !.web = Q!Wanted(c1[q])] = Asking(c1[q])
    BY <1>1 DEF Asking
  <2>3. /\ c2' = [c2 EXCEPT ![q] = Asking(c1[q])]
        /\ c3' = [c3 EXCEPT ![q] = <<Q!NoScope, Inside(c1[q])>>]
    BY <1>0, <1>w, <1>1, <2>1, <2>2, RequestScopes DEF Q!Pushed, RequestTyped
  <2>4. c5' = [c5 EXCEPT ![q] = k]
    BY <1>0, <2>1 DEF RequestTyped
  <2>o. Q!Once(q, Q!Wanted(c1[q])) \in BOOLEAN
    BY DEF Q!Once
  <2>5. k \in Kwargs /\ k.retry = ~Q!Once(q, Q!Wanted(c1[q]))
    BY <1>0, <2>o, RequestSame DEF Kwargs
  <2>6. c1[q].kind # "file analysis" => ~k.retry
    BY Zenon, <1>1, <1>w, <2>5, RequestOnlyAnalysisRepeats DEF Q!Once
  <2> HIDE DEF k
  <2>7. Becomes(q, Asking(c1[q]), <<Q!NoScope, Inside(c1[q])>>, "call", k, c6[q])
    BY <1>0, <2>1, <2>3, <2>4, RequestSame DEF Becomes
  <2>8. ASSUME /\ c2'[q] = Asking(c1[q]) /\ c3'[q] = <<Q!NoScope, Inside(c1[q])>>
               /\ c4'[q] = "call"
               /\ c5'[q] = k /\ c6'[q] = c6[q] /\ c1'[q] = c1[q]
        PROVE  Stacked(q)' /\ RequestSent(q)'
    <3>1. Stacked(q)'
      BY Zenon, <2>8 DEF Stacked, Inside, Asking
    <3>2. RequestSent(q)'
      <4>1. c1'[q].kind # "file analysis" => ~c5'[q].retry
        BY Zenon, <2>6, <2>8
      <4>2. c6'[q] = <<>> /\ c4'[q] = "call"
        BY <1>1, <2>8
      <4>3. /\ \A i \in DOMAIN c6'[q] : c6'[q][i] = Q!Wanted(c1'[q])
            /\ c1'[q].kind # "file analysis" => Len(c6'[q]) <= 1
        BY Zenon, <1>0, <2>8 DEF RequestSent
      <4> QED
        BY Zenon, <4>1, <4>2, <4>3 DEF RequestSent
    <3> QED
      BY <3>1, <3>2
  <2>9. "call" \in Places
    BY DEF Places
  <2> QED
    BY <1>0, <1>w, <2>5, <2>7, <2>8, <2>9, RequestSame, RequestScopes,
       RequestContextsTyped, RequestBecoming
<1> QED
  BY <1>4, <1>5

LEMMA RequestReconnectStep ==
    ASSUME Configured \in Nat, RequestInv, NEW q \in Requests, Q!Reconnect(q)
    PROVE  RequestInv'
<1>0. RequestTyped /\ Stacked(q) /\ RequestSent(q)
  BY DEF RequestInv
<1>w. c1[q] \in Q!Works
  BY <1>0, RequestSame
<1>1. /\ c4[q] = "call" /\ c2[q] = Asking(c1[q]) /\ c6[q] = <<>>
      /\ c3[q] = <<Q!NoScope, Inside(c1[q])>>
  BY <1>0 DEF Q!Reconnect, Stacked
<1>2. Asking(c1[q]).timeout = Inside(c1[q]).timeout
  BY DEF Asking, Inside
<1>3. Q!Pushed(q, Connecting(c1[q]))
  BY <1>1, <1>2 DEF Q!Reconnect, Connecting
<1>4. /\ c2' = [c2 EXCEPT ![q] = Connecting(c1[q])]
      /\ c3' = [c3 EXCEPT ![q] = <<Q!NoScope, Inside(c1[q]), Asking(c1[q])>>]
  BY <1>0, <1>w, <1>1, <1>3, RequestScopes DEF Q!Pushed, RequestTyped
<1>5. Becomes(q, Connecting(c1[q]), <<Q!NoScope, Inside(c1[q]), Asking(c1[q])>>,
              "initialize", c5[q], c6[q])
  BY <1>0, <1>4, RequestSame DEF Becomes, Q!Reconnect, Q!Go
<1>6. ASSUME /\ c2'[q] = Connecting(c1[q])
             /\ c3'[q] = <<Q!NoScope, Inside(c1[q]), Asking(c1[q])>>
             /\ c4'[q] = "initialize"
             /\ c5'[q] = c5[q] /\ c6'[q] = c6[q] /\ c1'[q] = c1[q]
      PROVE  Stacked(q)' /\ RequestSent(q)'
  <2>1. Stacked(q)'
    BY Zenon, <1>6 DEF Stacked, Inside, Asking, Connecting
  <2>2. RequestSent(q)'
    BY Zenon, <1>0, <1>1, <1>6 DEF RequestSent
  <2> QED
    BY <2>1, <2>2
<1>7. "initialize" \in Places
  BY DEF Places
<1> QED
  BY <1>0, <1>w, <1>5, <1>6, <1>7, RequestSame, RequestScopes,
     RequestContextsTyped, RequestBecoming

\* A reconnection gives the client its own default time limit again.
LEMMA RequestDefaultStays ==
    ASSUME Configured \in Nat, RequestInv, NEW q \in Requests, c4[q] = "initialize"
    PROVE  Q!SetsDefault(q) = c7
<1>0. c7 = Configured /\ c2[q] = Connecting(c1[q])
  BY DEF RequestInv, RequestTyped, Stacked
<1>1. CASE Inside(c1[q]).timeout # 0
  <2>1. c2[q].initializing = TRUE
    BY <1>0, <1>1 DEF Connecting, Asking, Inside
  <2> QED
    BY <2>1 DEF Q!SetsDefault
<1>2. CASE Inside(c1[q]).timeout = 0
  <2>1. c2[q].timeout = 0 /\ c2[q].initializing = FALSE
    BY Zenon, <1>0, <1>2 DEF Connecting, Asking, Inside
  <2> QED
    BY <1>0, <2>1 DEF Q!SetsDefault, Q!Timeout
<1> QED
  BY <1>1, <1>2

LEMMA RequestInitializeStep ==
    ASSUME Configured \in Nat, RequestInv, NEW q \in Requests, Q!Initialize(q)
    PROVE  RequestInv'
<1>0. RequestTyped /\ Stacked(q) /\ RequestSent(q)
  BY DEF RequestInv
<1>w. c1[q] \in Q!Works
  BY <1>0, RequestSame
<1>1. /\ c4[q] = "initialize" /\ c6[q] = <<>>
      /\ c3[q] = <<Q!NoScope, Inside(c1[q]), Asking(c1[q])>>
  BY Zenon, <1>0 DEF Q!Initialize, Stacked, RequestSent
<1>2. PICK p \in {"send", "reset"} : c4' = [c4 EXCEPT ![q] = p]
  BY DEF Q!Initialize, Q!Go
<1>3. c7' = c7
  BY <1>1, RequestDefaultStays DEF Q!Initialize
<1>4. /\ c2' = [c2 EXCEPT ![q] = Asking(c1[q])]
      /\ c3' = [c3 EXCEPT ![q] = <<Q!NoScope, Inside(c1[q])>>]
  BY <1>0, <1>w, <1>1, RequestScopes DEF Q!Initialize, RequestTyped
<1>5. Becomes(q, Asking(c1[q]), <<Q!NoScope, Inside(c1[q])>>, p, c5[q], c6[q])
  BY <1>0, <1>2, <1>3, <1>4, RequestSame DEF Becomes, Q!Initialize
<1>6. ASSUME /\ c2'[q] = Asking(c1[q])
             /\ c3'[q] = <<Q!NoScope, Inside(c1[q])>> /\ c4'[q] = p
             /\ c5'[q] = c5[q] /\ c6'[q] = c6[q] /\ c1'[q] = c1[q]
      PROVE  Stacked(q)' /\ RequestSent(q)'
  <2>1. Stacked(q)'
    BY Zenon, <1>6 DEF Stacked, Inside, Asking
  <2>2. RequestSent(q)'
    BY Zenon, <1>0, <1>1, <1>6 DEF RequestSent
  <2> QED
    BY <2>1, <2>2
<1>7. p \in Places
  BY DEF Places
<1> QED
  BY <1>0, <1>w, <1>5, <1>6, <1>7, RequestSame, RequestScopes,
     RequestContextsTyped, RequestBecoming

\* What goes out is what the caller wants: a payload whose shape the client
\* does not know is refused.
LEMMA RequestSendStep ==
    ASSUME Configured \in Nat, RequestInv, NEW q \in Requests, Q!Send(q)
    PROVE  RequestInv'
<1>0. RequestTyped /\ Stacked(q) /\ RequestSent(q)
  BY DEF RequestInv
<1>w. c1[q] \in Q!Works
  BY <1>0, RequestSame
<1>1. /\ c4[q] \in {"call", "send"} /\ c2[q] = Asking(c1[q])
      /\ c3[q] = <<Q!NoScope, Inside(c1[q])>>
      /\ UNCHANGED <<c1, c2, c3, c5, c7>>
  BY <1>0 DEF Q!Send, Stacked
<1>2. c2[q].web = Q!Wanted(c1[q])
  BY Zenon, <1>1 DEF Asking, Inside
<1>3. Q!Closed(c2[q].web) /\ Q!Wanted(c1[q]) \in Webs
  BY <1>w, <1>2, RequestSelectedWanted
<1>4. \/ c4' = [c4 EXCEPT ![q] = "reset"] /\ UNCHANGED c6
      \/ /\ c6' = [c6 EXCEPT ![q] = Append(@, Q!Wanted(c1[q]))]
         /\ c4' = [c4 EXCEPT ![q] = "answer"]
  <2>1. PICK known, consumed \in BOOLEAN :
          IF Q!Refused(q, known, consumed)
          THEN Q!Go(q, "reset") /\ UNCHANGED c6
          ELSE /\ c6' = [c6 EXCEPT ![q] = Append(@, IF known THEN c2[q].web ELSE Q!Plain)]
               /\ Q!Go(q, "answer")
    BY DEF Q!Send
  <2>2. ~Q!Refused(q, known, consumed) => known
    BY <1>3 DEF Q!Refused
  <2> QED
    BY <1>2, <2>1, <2>2 DEF Q!Go
<1>5. CASE c4' = [c4 EXCEPT ![q] = "reset"] /\ UNCHANGED c6
  <2>1. Becomes(q, c2[q], c3[q], "reset", c5[q], c6[q])
    BY <1>0, <1>1, <1>5, RequestSame DEF Becomes
  <2>2. ASSUME /\ c2'[q] = c2[q] /\ c3'[q] = c3[q] /\ c4'[q] = "reset"
               /\ c5'[q] = c5[q] /\ c6'[q] = c6[q] /\ c1'[q] = c1[q]
        PROVE  Stacked(q)' /\ RequestSent(q)'
    <3>1. Stacked(q)'
      BY Zenon, <1>1, <2>2 DEF Stacked, Inside, Asking
    <3>2. RequestSent(q)'
      BY Zenon, <1>0, <2>2 DEF RequestSent
    <3> QED
      BY <3>1, <3>2
  <2>3. "reset" \in Places
    BY DEF Places
  <2> QED
    BY <1>0, <2>1, <2>2, <2>3, RequestSame, RequestBecoming
<1>6. CASE /\ c6' = [c6 EXCEPT ![q] = Append(@, Q!Wanted(c1[q]))]
           /\ c4' = [c4 EXCEPT ![q] = "answer"]
  <2> DEFINE v == Append(c6[q], Q!Wanted(c1[q]))
  <2>0. c6[q] \in Seq(Webs)
    BY <1>0, RequestSame
  <2>1. /\ v \in Seq(Webs) /\ Len(v) = Len(c6[q]) + 1 /\ DOMAIN v = 1..Len(v)
        /\ \A i \in 1..Len(c6[q]) : v[i] = c6[q][i]
        /\ v[Len(c6[q]) + 1] = Q!Wanted(c1[q])
        /\ Len(c6[q]) \in Nat /\ DOMAIN c6[q] = 1..Len(c6[q])
    BY <1>3, <2>0, AppendProperties, LenProperties
  <2>2. c6' = [c6 EXCEPT ![q] = v]
    BY <1>0, <1>6 DEF RequestTyped
  <2> HIDE DEF v
  <2>3. \A i \in DOMAIN v : v[i] = Q!Wanted(c1[q])
    <3>1. \A i \in 1..Len(c6[q]) : c6[q][i] = Q!Wanted(c1[q])
      BY Zenon, <1>0, <2>1 DEF RequestSent
    <3>2. \A i \in 1..(Len(c6[q]) + 1) : i \in 1..Len(c6[q]) \/ i = Len(c6[q]) + 1
      BY <2>1
    <3> QED
      BY <2>1, <3>1, <3>2
  <2>4. c1[q].kind # "file analysis" => ~c5[q].retry /\ Len(v) <= 1
    <3>1. c1[q].kind # "file analysis" => ~c5[q].retry /\ c6[q] = <<>>
      BY Zenon, <1>0, <1>1 DEF RequestSent
    <3>2. Len(<<>>) + 1 <= 1
      OBVIOUS
    <3> QED
      BY Zenon, <2>1, <3>1, <3>2
  <2>5. Becomes(q, c2[q], c3[q], "answer", c5[q], v)
    BY <1>0, <1>1, <1>6, <2>2, RequestSame DEF Becomes
  <2>6. ASSUME /\ c2'[q] = c2[q] /\ c3'[q] = c3[q] /\ c4'[q] = "answer"
               /\ c5'[q] = c5[q] /\ c6'[q] = v /\ c1'[q] = c1[q]
        PROVE  Stacked(q)' /\ RequestSent(q)'
    <3>1. Stacked(q)'
      BY Zenon, <1>1, <2>6 DEF Stacked, Inside, Asking
    <3>2. \A i \in DOMAIN c6'[q] : c6'[q][i] = Q!Wanted(c1'[q])
      BY <2>3, <2>6
    <3>3. c1'[q].kind # "file analysis" => ~c5'[q].retry /\ Len(c6'[q]) <= 1
      BY Zenon, <2>4, <2>6
    <3>4. RequestSent(q)'
      BY Zenon, <2>6, <3>2, <3>3 DEF RequestSent
    <3> QED
      BY <3>1, <3>4
  <2>7. "answer" \in Places
    BY DEF Places
  <2> QED
    BY <1>0, <2>1, <2>5, <2>6, <2>7, RequestSame, RequestBecoming
<1> QED
  BY <1>4, <1>5, <1>6

\* Only a request that may be retried goes back to sending.
LEMMA RequestUncertainStep ==
    ASSUME RequestInv, NEW q \in Requests, Q!Uncertain(q)
    PROVE  RequestInv'
<1>0. RequestTyped /\ Stacked(q) /\ RequestSent(q)
  BY DEF RequestInv
<1>1. /\ c4[q] = "answer" /\ c2[q] = Asking(c1[q])
      /\ c3[q] = <<Q!NoScope, Inside(c1[q])>>
      /\ UNCHANGED <<c1, c2, c3, c5, c6, c7>>
  BY <1>0 DEF Q!Uncertain, Stacked
<1>2. PICK p \in {"send", "reset"} :
        c4' = [c4 EXCEPT ![q] = p] /\ (p = "send" => c5[q].retry)
  BY DEF Q!Uncertain, Q!Go
<1>3. Becomes(q, c2[q], c3[q], p, c5[q], c6[q])
  BY <1>0, <1>1, <1>2, RequestSame DEF Becomes
<1>4. ASSUME /\ c2'[q] = c2[q] /\ c3'[q] = c3[q] /\ c4'[q] = p
             /\ c5'[q] = c5[q] /\ c6'[q] = c6[q] /\ c1'[q] = c1[q]
      PROVE  Stacked(q)' /\ RequestSent(q)'
  <2>1. Stacked(q)'
    BY Zenon, <1>1, <1>4 DEF Stacked, Inside, Asking
  <2>2. RequestSent(q)'
    BY Zenon, <1>0, <1>1, <1>2, <1>4 DEF RequestSent
  <2> QED
    BY <2>1, <2>2
<1>5. p \in Places
  BY DEF Places
<1> QED
  BY <1>0, <1>3, <1>4, <1>5, RequestSame, RequestBecoming

LEMMA RequestFrameStep ==
    ASSUME RequestInv, NEW q \in Requests, Q!Frame(q)
    PROVE  RequestInv'
<1>0. RequestTyped /\ Stacked(q) /\ RequestSent(q)
  BY DEF RequestInv
<1>1. /\ c5' = [c5 EXCEPT ![q].frames = @ + 1]
      /\ UNCHANGED <<c1, c2, c3, c4, c6, c7>>
  BY DEF Q!Frame
<1> DEFINE k == [c5[q] EXCEPT !.frames = @ + 1]
<1>2. c5' = [c5 EXCEPT ![q] = k]
  BY <1>0, <1>1 DEF RequestTyped
<1>3. k \in Kwargs /\ k.retry = c5[q].retry
  BY <1>0, RequestSame DEF Kwargs
<1> HIDE DEF k
<1>4. Becomes(q, c2[q], c3[q], c4[q], k, c6[q])
  BY <1>0, <1>1, <1>2, RequestSame DEF Becomes
<1>5. ASSUME /\ c2'[q] = c2[q] /\ c3'[q] = c3[q] /\ c4'[q] = c4[q]
             /\ c5'[q] = k /\ c6'[q] = c6[q] /\ c1'[q] = c1[q]
      PROVE  Stacked(q)' /\ RequestSent(q)'
  <2>1. Stacked(q)'
    BY Zenon, <1>0, <1>5 DEF Stacked, Inside, Asking, Connecting
  <2>2. c5'[q].retry = c5[q].retry
    BY <1>3, <1>5
  <2>3. RequestSent(q)'
    BY Zenon, <1>0, <1>5, <2>2 DEF RequestSent
  <2> QED
    BY <2>1, <2>3
<1> QED
  BY <1>0, <1>3, <1>4, <1>5, RequestSame, RequestBecoming

LEMMA RequestPopStep ==
    ASSUME Configured \in Nat, RequestInv, NEW q \in Requests, Q!Reset(q) \/ Q!Leave(q)
    PROVE  RequestInv'
<1>0. RequestTyped /\ Stacked(q) /\ RequestSent(q)
  BY DEF RequestInv
<1>w. c1[q] \in Q!Works
  BY <1>0, RequestSame
<1>1. CASE Q!Reset(q)
  <2>1. /\ c4[q] \in {"call", "answer", "reset"} /\ c3[q] = <<Q!NoScope, Inside(c1[q])>>
        /\ c4' = [c4 EXCEPT ![q] = "leave"]
        /\ UNCHANGED <<c1, c5, c6, c7>>
    BY <1>0, <1>1 DEF Q!Reset, Q!Pop, Q!Go, Stacked
  <2>2. /\ c2' = [c2 EXCEPT ![q] = Inside(c1[q])]
        /\ c3' = [c3 EXCEPT ![q] = <<Q!NoScope>>]
    BY <1>0, <1>w, <1>1, <2>1, RequestScopes DEF Q!Reset, Q!Pop, RequestTyped
  <2>3. Becomes(q, Inside(c1[q]), <<Q!NoScope>>, "leave", c5[q], c6[q])
    BY <1>0, <2>1, <2>2, RequestSame DEF Becomes
  <2>4. ASSUME /\ c2'[q] = Inside(c1[q]) /\ c3'[q] = <<Q!NoScope>> /\ c4'[q] = "leave"
               /\ c5'[q] = c5[q] /\ c6'[q] = c6[q] /\ c1'[q] = c1[q]
        PROVE  Stacked(q)' /\ RequestSent(q)'
    <3>1. Stacked(q)'
      BY Zenon, <2>4 DEF Stacked, Inside
    <3>2. RequestSent(q)'
      BY Zenon, <1>0, <2>4 DEF RequestSent
    <3> QED
      BY <3>1, <3>2
  <2>5. "leave" \in Places
    BY DEF Places
  <2> QED
    BY <1>0, <1>w, <2>3, <2>4, <2>5, RequestSame, RequestScopes,
       RequestContextsTyped, RequestBecoming
<1>2. CASE Q!Leave(q)
  <2>1. /\ c4[q] = "leave" /\ c3[q] = <<Q!NoScope>>
        /\ c4' = [c4 EXCEPT ![q] = "done"]
        /\ UNCHANGED <<c1, c5, c6, c7>>
    BY <1>0, <1>2 DEF Q!Leave, Q!Pop, Q!Go, Stacked
  <2>2. c2' = [c2 EXCEPT ![q] = Q!NoScope] /\ c3' = [c3 EXCEPT ![q] = <<>>]
    BY <1>0, <1>w, <1>2, <2>1, RequestScopes DEF Q!Leave, Q!Pop, RequestTyped
  <2>3. Becomes(q, Q!NoScope, <<>>, "done", c5[q], c6[q])
    BY <1>0, <2>1, <2>2, RequestSame DEF Becomes
  <2>4. ASSUME /\ c2'[q] = Q!NoScope /\ c3'[q] = <<>> /\ c4'[q] = "done"
               /\ c5'[q] = c5[q] /\ c6'[q] = c6[q] /\ c1'[q] = c1[q]
        PROVE  Stacked(q)' /\ RequestSent(q)'
    <3>1. Stacked(q)'
      BY <2>4 DEF Stacked
    <3>2. RequestSent(q)'
      BY Zenon, <1>0, <2>4 DEF RequestSent
    <3> QED
      BY <3>1, <3>2
  <2>5. "done" \in Places
    BY DEF Places
  <2> QED
    BY <1>0, <1>w, <2>3, <2>4, <2>5, RequestSame, RequestScopes,
       RequestContextsTyped, RequestBecoming
<1> QED
  BY <1>1, <1>2

LEMMA RequestInit ==
    ASSUME Configured \in Nat, Q!Init  PROVE RequestInv
<1>1. RequestTyped
  <2>1. Q!NoScope \in Contexts
    BY DEF Q!NoScope, Contexts, Webs, Q!Plain
  <2>2. <<>> \in Seq(Contexts) /\ <<>> \in Seq(Webs)
    OBVIOUS
  <2>3. [retry |-> TRUE, frames |-> 0] \in [retry: BOOLEAN, frames: Nat]
    OBVIOUS
  <2> QED
    BY <2>1, <2>2, <2>3 DEF Q!Init, RequestTyped, Places
<1>2. ASSUME NEW q \in Requests  PROVE Stacked(q) /\ RequestSent(q)
  <2>1. c4[q] = "enter" /\ c2[q] = Q!NoScope /\ c3[q] = <<>> /\ c6[q] = <<>>
    BY DEF Q!Init
  <2>2. Stacked(q)
    BY <2>1 DEF Stacked
  <2>3. DOMAIN c6[q] = {} /\ Len(c6[q]) = 0
    BY <2>1
  <2>4. RequestSent(q)
    BY <2>1, <2>3 DEF RequestSent
  <2> QED
    BY <2>2, <2>4
<1> QED
  BY <1>1, <1>2 DEF RequestInv

LEMMA RequestStep ==
    ASSUME Configured \in Nat, RequestInv, [Q!Next]_(Q!qvars)  PROVE RequestInv'
<1>1. CASE Q!Next
  <2>1. PICK q \in Requests :
          \/ Q!Enter(q) \/ Q!Generate(q) \/ Q!Reconnect(q) \/ Q!Initialize(q)
          \/ Q!Send(q) \/ Q!Uncertain(q) \/ Q!Frame(q) \/ Q!Reset(q) \/ Q!Leave(q)
    BY <1>1 DEF Q!Next
  <2> QED
    BY <2>1, RequestEnterStep, RequestGenerateStep, RequestReconnectStep,
       RequestInitializeStep, RequestSendStep, RequestUncertainStep,
       RequestFrameStep, RequestPopStep
<1>2. CASE UNCHANGED Q!qvars
  <2>0. /\ c1' = c1 /\ c2' = c2 /\ c3' = c3 /\ c4' = c4 /\ c5' = c5
        /\ c6' = c6 /\ c7' = c7
    BY <1>2 DEF Q!qvars
  <2>1. RequestTyped'
    BY <2>0 DEF RequestInv, RequestTyped
  <2>2. ASSUME NEW q \in Requests  PROVE Stacked(q)' /\ RequestSent(q)'
    <3>1. Stacked(q) /\ RequestSent(q)
      BY DEF RequestInv
    <3>2. Stacked(q)'
      BY Zenon, <2>0, <3>1 DEF Stacked, Inside, Asking, Connecting
    <3>3. RequestSent(q)'
      BY Zenon, <2>0, <3>1 DEF RequestSent
    <3> QED
      BY <3>2, <3>3
  <2> QED
    BY <2>1, <2>2 DEF RequestInv
<1> QED
  BY <1>1, <1>2

LEMMA RequestMeans ==
    ASSUME RequestInv
    PROVE  Q!WireMatches /\ Q!OnceNotRepeated /\ Q!DefaultKept /\ Q!ContextRestored
BY Zenon DEF RequestInv, RequestTyped, Stacked, RequestSent, Q!WireMatches, Q!OnceNotRepeated,
       Q!DefaultKept, Q!ContextRestored

RequestPart == part = "request" => RequestInv

(* In every behaviour of the calls, however many requests run at the same  *)
(* time and whatever the client's own limit: a submission carries what its *)
(* caller asked for, only the analysis of a file is ever posted again, and *)
(* a request leaves neither selectors nor a time limit behind it           *)
(* (thinking_client.py:413, _set_web_request and the scopes around it).    *)
THEOREM RequestsAreKept == Spec => []RequestsAreScoped
<1>1. Init => RequestPart
  <2> SUFFICES ASSUME Init, part = "request"  PROVE RequestInv
    BY DEF RequestPart
  <2>1. Q!Init
    BY DEF Init
  <2> QED
    BY <2>1, ValuesAssumption, RequestInit
<1>2. RequestPart /\ [Next]_vars => RequestPart'
  <2> SUFFICES ASSUME RequestPart, [Next]_vars, part' = "request"
               PROVE  RequestInv'
    BY DEF RequestPart
  <2>1. part = "request" /\ [Q!Next]_(Q!qvars)
    BY Zenon DEF Next, vars, cells, Q!qvars
  <2>2. RequestInv
    BY <2>1 DEF RequestPart
  <2> QED
    BY <2>1, <2>2, ValuesAssumption, RequestStep
<1>3. RequestPart => RequestsAreScoped
  BY RequestMeans DEF RequestPart, RequestsAreScoped
<1> QED
  BY <1>1, <1>2, <1>3, PTL DEF Spec

=============================================================================
