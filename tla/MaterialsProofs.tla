-------------------------- MODULE MaterialsProofs --------------------------
(***************************************************************************)
(* Safety of Materials for any number of clients, sources, revisions and    *)
(* files: the streams the service layer writes, what its three readers find *)
(* in them, and what the calls answer.                                      *)
(*                                                                         *)
(* MaterialsInv has two parts.  StoresSound: the stream replays event by    *)
(* event with blobs for what it refers to and new identities, and the files *)
(* keep within their limits.  CallsSound: what each phase of a running call *)
(* knows holds of some prefix of the stream since the call began, so that   *)
(* an append by anybody else leaves it true; what it knows of the index is  *)
(* claimed only while no other client wrote it.                             *)
(*                                                                         *)
(* The projection, the decoder and the catalog fold the stream in three     *)
(* different ways.  Recounts says that the projection of a prefix is true   *)
(* to it; DecodeFacts and DocumentsFacts say the same of the other two.     *)
(***************************************************************************)
EXTENDS Materials, SequenceTheorems, FiniteSetTheorems, WellFoundedInduction, TLAPS

-----------------------------------------------------------------------------
(* Streams and their prefixes.                                             *)

Before(stream, n) == SubSeq(stream, 1, n)

\* What Append makes of a sequence.
LEMMA AppendFacts ==
  ASSUME NEW S, NEW s \in Seq(S), NEW e \in S
  PROVE  /\ Append(s, e) \in Seq(S) /\ Len(s) \in Nat
         /\ Len(Append(s, e)) = Len(s) + 1
         /\ DOMAIN s = 1 .. Len(s) /\ DOMAIN Append(s, e) = 1 .. Len(s) + 1
         /\ \A i \in 1 .. Len(s) : Append(s, e)[i] = s[i]
         /\ Append(s, e)[Len(s) + 1] = e
         /\ ToSet(Append(s, e)) = ToSet(s) \union {e}
  <1>1. /\ Append(s, e) \in Seq(S) /\ Len(s) \in Nat
        /\ Len(Append(s, e)) = Len(s) + 1
        /\ DOMAIN s = 1 .. Len(s) /\ DOMAIN Append(s, e) = 1 .. Len(s) + 1
        /\ \A i \in 1 .. Len(s) : Append(s, e)[i] = s[i]
        /\ Append(s, e)[Len(s) + 1] = e
    OBVIOUS
  <1>2. ToSet(Append(s, e)) = ToSet(s) \union {e}
    BY <1>1 DEF ToSet
  <1> QED
    BY <1>1, <1>2

\* A prefix is a sequence, its prefixes are those of the whole, and the next
\* one appends one event.
LEMMA BeforeFacts ==
  ASSUME NEW S, NEW s \in Seq(S), NEW n \in 0 .. Len(s)
  PROVE  /\ Before(s, n) \in Seq(S) /\ Len(Before(s, n)) = n
         /\ DOMAIN Before(s, n) = 1 .. n
         /\ \A i \in 1 .. n : Before(s, n)[i] = s[i]
         /\ \A m \in 0 .. n : Before(Before(s, n), m) = Before(s, m)
         /\ n < Len(s) => Before(s, n + 1) = Append(Before(s, n), s[n + 1])
  <1>0. Len(s) \in Nat /\ n \in Nat /\ s \in [1 .. Len(s) -> S]
    OBVIOUS
  <1>1. ASSUME NEW m \in 0 .. Len(s)
        PROVE  /\ Before(s, m) \in Seq(S) /\ Len(Before(s, m)) = m
               /\ \A i \in 1 .. m : Before(s, m)[i] = s[i]
    <2>1. Before(s, m) = [i \in 1 .. m |-> s[i]]
      BY <1>0 DEF Before
    <2> QED
      BY <1>0, <2>1
  <1>2. \A m \in 0 .. n : Before(Before(s, n), m) = Before(s, m)
    <2> TAKE m \in 0 .. n
    <2>1. Before(s, m) = [i \in 1 .. m |-> s[i]]
      BY <1>0 DEF Before
    <2>2. Before(Before(s, n), m) = [i \in 1 .. m |-> Before(s, n)[i]]
      BY <1>0, <1>1 DEF Before
    <2> QED
      BY <1>0, <1>1, <2>1, <2>2
  <1>3. ASSUME n < Len(s)
        PROVE  Before(s, n + 1) = Append(Before(s, n), s[n + 1])
    <2>1. n + 1 \in 0 .. Len(s) /\ s[n + 1] \in S
      BY <1>0, <1>3
    <2>2. /\ Before(s, n + 1) \in Seq(S) /\ Len(Before(s, n + 1)) = n + 1
          /\ \A i \in 1 .. n + 1 : Before(s, n + 1)[i] = s[i]
      BY <1>1, <2>1
    <2>3. /\ Append(Before(s, n), s[n + 1]) \in Seq(S)
          /\ Len(Append(Before(s, n), s[n + 1])) = n + 1
          /\ \A i \in 1 .. n : Append(Before(s, n), s[n + 1])[i] = s[i]
          /\ Append(Before(s, n), s[n + 1])[n + 1] = s[n + 1]
      BY <1>1, <2>1
    <2>4. \A i \in 1 .. n + 1 : Before(s, n + 1)[i] = Append(Before(s, n), s[n + 1])[i]
      BY <1>0, <2>2, <2>3
    <2> QED
      BY <2>2, <2>3, <2>4, SeqEqual
  <1> QED
    BY <1>0, <1>1, <1>2, <1>3

\* The longest prefix is the stream itself.
LEMMA BeforeWhole ==
  ASSUME NEW S, NEW s \in Seq(S)
  PROVE  Before(s, Len(s)) = s
  BY DEF Before

\* An append leaves the prefixes that were there.
LEMMA BeforeAppend ==
  ASSUME NEW S, NEW s \in Seq(S), NEW e \in S, NEW n \in 0 .. Len(s)
  PROVE  Before(Append(s, e), n) = Before(s, n)
  <1>1. Before(Append(s, e), n) = [i \in 1 .. n |-> Append(s, e)[i]]
    BY AppendFacts DEF Before
  <1>2. Before(s, n) = [i \in 1 .. n |-> s[i]]
    BY DEF Before
  <1> QED
    BY <1>1, <1>2, AppendFacts

\* Reading a stream event by event.
IsReplay(after, stream) ==
    after = [n \in 0 .. Len(stream) |->
                IF n = 0 THEN NoMaterials ELSE ReduceMaterial(after[n - 1], stream[n])]

\* Induction, for a set of numbers.
LEMMA SetInduction ==
  ASSUME NEW S, 0 \in S, \A n \in Nat : n \in S => n + 1 \in S
  PROVE  Nat \subseteq S
  <1> SUFFICES ASSUME Nat \ S # {} PROVE FALSE
    OBVIOUS
  <1> DEFINE R == OpToRel(<, Nat)
             T == Nat \ S
  <1>1. IsWellFoundedOn(R, Nat) /\ T \subseteq Nat /\ T # {}
    BY NatLessThanWellFounded
  <1>2. \A x, y \in Nat : y < x => <<y, x>> \in R
    BY DEF OpToRel
  <1> HIDE DEF R
  <1>3. PICK x \in T : \A y \in T : <<y, x>> \notin R
    BY <1>1, WFMin
  <1>4. x # 0 /\ x - 1 \in Nat /\ x - 1 < x
    OBVIOUS
  <1>5. x - 1 \in S
    BY <1>2, <1>3, <1>4
  <1>6. (x - 1) + 1 = x /\ (x - 1) + 1 \in S
    BY <1>4, <1>5
  <1> QED
    BY <1>6

\* The recursive function Project is defined by has a solution on every stream:
\* the replay from state to state.
LEMMA ReplayExists ==
  ASSUME NEW stream, Len(stream) \in Nat
  PROVE  \E after : IsReplay(after, stream)
  <1> DEFINE Upto(n, f) == f = [m \in 0 .. n |->
                 IF m = 0 THEN NoMaterials ELSE ReduceMaterial(f[m - 1], stream[m])]
             Good == {n \in Nat : \E f : Upto(n, f)}
  <1>1. 0 \in Good
    <2>1. Upto(0, [m \in 0 .. 0 |-> NoMaterials])
      OBVIOUS
    <2> QED
      BY <2>1
  <1>2. ASSUME NEW n \in Nat, n \in Good PROVE n + 1 \in Good
    <2>1. PICK f : Upto(n, f)
      BY <1>2
    <2> DEFINE last == ReduceMaterial(f[n], stream[n + 1])
               g == [m \in 0 .. n + 1 |-> IF m = n + 1 THEN last ELSE f[m]]
               h == [m \in 0 .. n + 1 |->
                        IF m = 0 THEN NoMaterials ELSE ReduceMaterial(g[m - 1], stream[m])]
    <2>2. ASSUME NEW m \in 0 .. n + 1 PROVE g[m] = h[m]
      <3>1. CASE m = n + 1
        <4>1. n \in 0 .. n + 1 /\ n # n + 1 /\ (n + 1) - 1 = n /\ n + 1 # 0
          OBVIOUS
        <4>2. g[n] = f[n]
          BY <4>1
        <4>3. h[n + 1] = ReduceMaterial(g[n], stream[n + 1])
          BY <4>1, <3>1
        <4> HIDE DEF h
        <4> QED
          BY <3>1, <4>2, <4>3
      <3>2. CASE m = 0
        <4>1. f[0] = NoMaterials
          BY <2>1
        <4> QED
          BY <3>2, <4>1
      <3>3. CASE m \in 1 .. n
        <4>1. f[m] = ReduceMaterial(f[m - 1], stream[m])
          BY <2>1, <3>3
        <4>2. m - 1 \in 0 .. n + 1 /\ m - 1 # n + 1 /\ m # n + 1 /\ m # 0
          BY <3>3
        <4>3. g[m - 1] = f[m - 1] /\ g[m] = f[m]
          BY <4>2
        <4>4. h[m] = ReduceMaterial(g[m - 1], stream[m])
          BY <4>2
        <4> HIDE DEF g, h
        <4> QED
          BY <4>1, <4>3, <4>4
      <3> QED
        BY <3>1, <3>2, <3>3
    <2>3. g = h
      BY <2>2
    <2>4. Upto(n + 1, g)
      BY <2>3
    <2> HIDE DEF g, Upto
    <2> QED
      BY <2>4
  <1> HIDE DEF Good
  <1>3. Len(stream) \in Good
    BY <1>1, <1>2, SetInduction
  <1> QED
    BY <1>3 DEF Good, IsReplay

\* Project is the last state of a replay.
LEMMA ProjectReplays ==
  ASSUME NEW stream, Len(stream) \in Nat
  PROVE  \E after : IsReplay(after, stream) /\ Project(stream) = after[Len(stream)]
  <1> DEFINE f == CHOOSE after : IsReplay(after, stream)
  <1>1. IsReplay(f, stream)
    BY ReplayExists
  <1>2. Project(stream) = f[Len(stream)]
    BY Zenon DEF Project, IsReplay
  <1> QED
    BY <1>1, <1>2

\* Two replays agree as far as their streams do.
LEMMA ReplaysAgree ==
  ASSUME NEW stream, NEW longer, Len(stream) \in Nat, Len(longer) \in Nat,
         Len(stream) <= Len(longer),
         \A i \in 1 .. Len(stream) : longer[i] = stream[i],
         NEW f, IsReplay(f, stream), NEW g, IsReplay(g, longer)
  PROVE  \A n \in 0 .. Len(stream) : f[n] = g[n]
  <1> DEFINE Good == {n \in Nat : n <= Len(stream) => f[n] = g[n]}
  <1>1. 0 \in Good
    BY DEF IsReplay
  <1>2. ASSUME NEW n \in Nat, n \in Good PROVE n + 1 \in Good
    <2> SUFFICES ASSUME n + 1 <= Len(stream) PROVE f[n + 1] = g[n + 1]
      OBVIOUS
    <2>1. f[n] = g[n] /\ longer[n + 1] = stream[n + 1]
      BY <1>2
    <2>2. n + 1 \in 0 .. Len(stream) /\ n + 1 \in 0 .. Len(longer)
          /\ n + 1 # 0 /\ (n + 1) - 1 = n
      OBVIOUS
    <2>3. f[n + 1] = ReduceMaterial(f[n], stream[n + 1])
      BY <2>2 DEF IsReplay
    <2>4. g[n + 1] = ReduceMaterial(g[n], longer[n + 1])
      BY <2>2 DEF IsReplay
    <2> QED
      BY <2>1, <2>3, <2>4
  <1> HIDE DEF Good
  <1>3. Nat \subseteq Good
    BY <1>1, <1>2, SetInduction
  <1> QED
    BY <1>3 DEF Good

\* The projection is computed event by event.
LEMMA ProjectFacts ==
  /\ Project(<<>>) = NoMaterials
  /\ \A S : \A s \in Seq(S), e \in S : Project(Append(s, e)) = ReduceMaterial(Project(s), e)
  <1>1. Project(<<>>) = NoMaterials
    <2>1. PICK f : IsReplay(f, <<>>) /\ Project(<<>>) = f[Len(<<>>)]
      BY ProjectReplays
    <2>2. f[0] = NoMaterials /\ Len(<<>>) = 0
      BY <2>1 DEF IsReplay
    <2> QED
      BY <2>1, <2>2
  <1>2. ASSUME NEW S, NEW s \in Seq(S), NEW e \in S
        PROVE  Project(Append(s, e)) = ReduceMaterial(Project(s), e)
    <2> DEFINE t == Append(s, e)
    <2>1. Len(s) \in Nat /\ Len(t) = Len(s) + 1 /\ t[Len(s) + 1] = e
          /\ \A i \in 1 .. Len(s) : t[i] = s[i]
      BY AppendFacts
    <2> HIDE DEF t
    <2>2. PICK f : IsReplay(f, s) /\ Project(s) = f[Len(s)]
      BY <2>1, ProjectReplays
    <2>3. Len(t) \in Nat
      BY <2>1
    <2>4. PICK g : IsReplay(g, t) /\ Project(t) = g[Len(t)]
      BY <2>3, ProjectReplays
    <2>5. f[Len(s)] = g[Len(s)]
      <3>1. Len(s) <= Len(t) /\ Len(s) \in 0 .. Len(s)
        BY <2>1
      <3> QED
        BY <2>1, <2>2, <2>3, <2>4, <3>1, ReplaysAgree
    <2>6. Len(t) \in 0 .. Len(t) /\ Len(t) # 0 /\ Len(t) - 1 = Len(s)
      BY <2>1
    <2>7. g[Len(t)] = ReduceMaterial(g[Len(s)], t[Len(t)])
      BY <2>4, <2>6 DEF IsReplay
    <2>8. t[Len(t)] = e
      BY <2>1
    <2> QED
      BY <2>2, <2>4, <2>5, <2>7, <2>8 DEF t
  <1> QED
    BY <1>1, <1>2

-----------------------------------------------------------------------------
(* The last event of a kind.                                               *)

\* The forms of an event of the stream.
LEMMA EventCases ==
  ASSUME NEW e \in Events
  PROVE  \/ e.type \in {"ingested", "selected"} /\ e.rev \in Revisions
            /\ e.rev.source \in Sources
            /\ e = [type |-> e.type, rev |-> e.rev]
         \/ e.type = "produced" /\ e.production \in Productions
         \/ e.type = "superseded_by" /\ e.predecessor \in Revisions /\ e.successor \in Revisions
  BY DEF Events, Revisions

\* A set of positions that is not empty has a last one.
LEMMA HasGreatest ==
  ASSUME NEW n \in Nat, NEW S, S \subseteq 1 .. n, S # {}
  PROVE  \E i \in S : \A j \in S : j <= i
  <1> DEFINE Good == {m \in Nat : \A T \in (SUBSET (1 .. m)) \ {{}} : \E i \in T : \A j \in T : j <= i}
  <1>1. 0 \in Good
    OBVIOUS
  <1>2. ASSUME NEW m \in Nat, m \in Good PROVE m + 1 \in Good
    <2> SUFFICES ASSUME NEW T \in (SUBSET (1 .. m + 1)) \ {{}}
                 PROVE  \E i \in T : \A j \in T : j <= i
      OBVIOUS
    <2>1. CASE m + 1 \in T
      BY <2>1
    <2>2. CASE m + 1 \notin T
      <3>1. T \in (SUBSET (1 .. m)) \ {{}}
        BY <2>2
      <3> QED
        BY <1>2, <3>1
    <2> QED
      BY <2>1, <2>2
  <1> HIDE DEF Good
  <1>3. n \in Good
    BY <1>1, <1>2, SetInduction
  <1> QED
    BY <1>3 DEF Good

\* Latest is the revision of the last event of a set, or none.
LEMMA LatestFacts ==
  ASSUME NEW s, NEW n \in Nat, NEW S, S \subseteq 1 .. n
  PROVE  /\ S = {} => Latest(s, S) = None
         /\ S # {} => \E i \in S : Latest(s, S) = s[i].rev /\ \A j \in S : j <= i
  <1>1. S = {} => Latest(s, S) = None
    BY DEF Latest
  <1>2. ASSUME S # {} PROVE \E i \in S : Latest(s, S) = s[i].rev /\ \A j \in S : j <= i
    <2> DEFINE i == CHOOSE i \in S : \A j \in S : j <= i
    <2>1. i \in S /\ \A j \in S : j <= i
      BY <1>2, HasGreatest
    <2>2. Latest(s, S) = s[i].rev
      BY <1>2 DEF Latest
    <2> HIDE DEF i
    <2> QED
      BY <2>1, <2>2
  <1> QED
    BY <1>1, <1>2

\* The last of two sets of events that agree is the same.
LEMMA LatestSame ==
  ASSUME NEW s, NEW t, NEW n \in Nat, NEW S, S \subseteq 1 .. n, \A i \in S : s[i] = t[i]
  PROVE  Latest(s, S) = Latest(t, S)
  <1>1. CASE S = {}
    BY <1>1 DEF Latest
  <1>2. CASE S # {}
    <2>1. PICK i \in S : Latest(s, S) = s[i].rev /\ \A j \in S : j <= i
      BY <1>2, LatestFacts
    <2>2. PICK k \in S : Latest(t, S) = t[k].rev /\ \A j \in S : j <= k
      BY <1>2, LatestFacts
    <2>3. i = k
      BY <2>1, <2>2
    <2> QED
      BY <2>1, <2>2, <2>3
  <1> QED
    BY <1>1, <1>2

\* The event behind all others is the latest.
LEMMA LatestAdded ==
  ASSUME NEW t, NEW n \in Nat, NEW S, S \subseteq 1 .. n
  PROVE  Latest(t, S \union {n + 1}) = t[n + 1].rev
  <1>1. S \union {n + 1} \subseteq 1 .. n + 1 /\ S \union {n + 1} # {}
    OBVIOUS
  <1> DEFINE T == S \union {n + 1}
  <1>2. PICK i \in T : Latest(t, T) = t[i].rev /\ \A j \in T : j <= i
    <2>1. n + 1 \in Nat /\ T \subseteq 1 .. n + 1 /\ T # {}
      BY <1>1
    <2> HIDE DEF T
    <2> QED
      BY <2>1, LatestFacts
  <1>3. i = n + 1
    BY <1>2
  <1> QED
    BY <1>2, <1>3

\* The events about a source, after an append.
LEMMA AboutFacts ==
  ASSUME NEW st \in Seq(Events), NEW e \in Events, NEW types, NEW x
  PROVE  /\ About(st, types, x) \subseteq 1 .. Len(st)
         /\ About(Append(st, e), types, x) =
               About(st, types, x) \union
                   (IF e.type \in types /\ e.rev.source = x THEN {Len(st) + 1} ELSE {})
  <1>1. About(st, types, x) \subseteq 1 .. Len(st)
    BY DEF About
  <1>2. /\ DOMAIN Append(st, e) = 1 .. Len(st) + 1 /\ Len(st) \in Nat
        /\ DOMAIN st = 1 .. Len(st)
        /\ \A i \in 1 .. Len(st) : Append(st, e)[i] = st[i]
        /\ Append(st, e)[Len(st) + 1] = e
    BY AppendFacts
  <1>3. ASSUME NEW i
        PROVE  i \in About(Append(st, e), types, x) <=>
                  i \in About(st, types, x) \union
                     (IF e.type \in types /\ e.rev.source = x THEN {Len(st) + 1} ELSE {})
    <2>1. CASE i \in 1 .. Len(st)
      BY <1>2, <2>1 DEF About
    <2>2. CASE i = Len(st) + 1
      BY <1>2, <2>2 DEF About
    <2>3. CASE i \notin 1 .. Len(st) + 1
      BY <1>2, <2>3 DEF About
    <2> QED
      BY <1>2, <2>1, <2>2, <2>3
  <1> QED
    BY <1>1, <1>3

\* An appended event is the current revision of its source and of no other.
LEMMA CurrentAfterAppend ==
  ASSUME NEW st \in Seq(Events), NEW e \in Events, NEW x
  PROVE  _current_revision(Append(st, e), x) =
            IF e.type \in {"ingested", "selected"} /\ e.rev.source = x THEN e.rev
            ELSE _current_revision(st, x)
  <1> DEFINE types == {"ingested", "selected"}
             S == About(st, types, x)
  <1>1. /\ S \subseteq 1 .. Len(st) /\ Len(st) \in Nat
        /\ \A i \in 1 .. Len(st) : Append(st, e)[i] = st[i]
        /\ Append(st, e)[Len(st) + 1] = e
    BY AboutFacts, AppendFacts
  <1>2. About(Append(st, e), types, x) =
           S \union (IF e.type \in types /\ e.rev.source = x THEN {Len(st) + 1} ELSE {})
    BY AboutFacts
  <1>3. /\ _current_revision(Append(st, e), x) = Latest(Append(st, e), About(Append(st, e), types, x))
        /\ _current_revision(st, x) = Latest(st, S)
    BY DEF _current_revision
  <1> HIDE DEF S, types
  <1>4. CASE e.type \in types /\ e.rev.source = x
    <2>1. Latest(Append(st, e), S \union {Len(st) + 1}) = e.rev
      BY <1>1, LatestAdded
    <2> QED
      BY <1>2, <1>3, <1>4, <2>1 DEF types
  <1>5. CASE ~(e.type \in types /\ e.rev.source = x)
    <2>1. Latest(Append(st, e), S) = Latest(st, S)
      BY <1>1, LatestSame
    <2> QED
      BY <1>2, <1>3, <1>5, <2>1 DEF types
  <1> QED
    BY <1>4, <1>5

-----------------------------------------------------------------------------
(* What the projection of a stream says of it.                             *)

RecordedIn(st, x) == {st[i].rev : i \in About(st, {"ingested"}, x)}
RevisionsOf(P) == UNION {ToSet(P.history[x]) : x \in Sources}
Edges == [predecessor : Revisions, successor : Revisions]

Recounts(P, st) ==
    /\ P = [history |-> P.history, current |-> P.current, substrates |-> P.substrates,
            productions |-> P.productions, successions |-> P.successions]
    /\ P.history \in [Sources -> Seq(Revisions)]
    /\ P.current = [x \in Sources |-> _current_revision(st, x)]
    /\ \A x \in Sources : /\ ToSet(P.history[x]) = RecordedIn(st, x)
                          /\ P.current[x] \in ToSet(P.history[x]) \union {None}
    /\ P.successions \in Seq(Edges)
    /\ ForestOf(P)

\* The revisions the stream records of a source, after an append.
LEMMA RecordedAfterAppend ==
  ASSUME NEW st \in Seq(Events), NEW e \in Events, NEW x
  PROVE  RecordedIn(Append(st, e), x) =
            RecordedIn(st, x) \union (IF e.type = "ingested" /\ e.rev.source = x THEN {e.rev} ELSE {})
  <1> DEFINE S == About(st, {"ingested"}, x)
             added == e.type = "ingested" /\ e.rev.source = x
  <1>1. /\ S \subseteq 1 .. Len(st) /\ Len(st) \in Nat
        /\ \A i \in 1 .. Len(st) : Append(st, e)[i] = st[i]
        /\ Append(st, e)[Len(st) + 1] = e
    BY AboutFacts, AppendFacts
  <1>2. About(Append(st, e), {"ingested"}, x) = S \union (IF added THEN {Len(st) + 1} ELSE {})
    BY AboutFacts
  <1> HIDE DEF S, added
  <1>3. CASE added
    <2>1. About(Append(st, e), {"ingested"}, x) = S \union {Len(st) + 1}
      BY <1>2, <1>3
    <2>2. \A i \in S : Append(st, e)[i].rev = st[i].rev
      BY <1>1
    <2>3. Append(st, e)[Len(st) + 1].rev = e.rev
      BY <1>1
    <2>4. RecordedIn(Append(st, e), x) = {st[i].rev : i \in S} \union {e.rev}
      BY <2>1, <2>2, <2>3 DEF RecordedIn
    <2> QED
      BY <1>3, <2>4 DEF RecordedIn, S, added
  <1>4. CASE ~added
    <2>1. About(Append(st, e), {"ingested"}, x) = S
      BY <1>2, <1>4
    <2>2. \A i \in S : Append(st, e)[i].rev = st[i].rev
      BY <1>1
    <2>3. RecordedIn(Append(st, e), x) = {st[i].rev : i \in S}
      BY <2>1, <2>2 DEF RecordedIn
    <2> QED
      BY <1>4, <2>3 DEF RecordedIn, S, added
  <1> QED
    BY <1>3, <1>4

\* More revisions make no cycle.
LEMMA ForestOfMore ==
  ASSUME NEW edges, NEW revs, NEW more, Forest(edges, revs), revs \subseteq more
  PROVE  Forest(edges, more)
  <1>1. ASSUME NEW cycle \in (SUBSET more) \ {{}}
        PROVE  \E x \in cycle : \A y \in cycle : [predecessor |-> x, successor |-> y] \notin edges
    <2>1. CASE cycle \subseteq revs
      BY <2>1 DEF Forest
    <2>2. ASSUME NEW x \in cycle, x \notin revs
          PROVE  \A y \in cycle : [predecessor |-> x, successor |-> y] \notin edges
      <3> SUFFICES ASSUME NEW y \in cycle, [predecessor |-> x, successor |-> y] \in edges
                   PROVE  FALSE
        OBVIOUS
      <3>1. [predecessor |-> x, successor |-> y].predecessor \in revs
        BY DEF Forest
      <3> QED
        BY <2>2, <3>1
    <2> QED
      BY <2>1, <2>2
  <1>2. /\ \A x \in edges : x.predecessor \in more /\ x.successor \in more
        /\ \A x, y \in edges : x.predecessor = y.predecessor => x = y
    BY DEF Forest
  <1> QED
    BY <1>1, <1>2 DEF Forest

\* The succession index holds every declared edge: in a forest no predecessor
\* has two successors, so none overwrites another.
LEMMA IndexFacts ==
  ASSUME NEW P, NEW revs, ToSet(P.successions) \subseteq Edges, Forest(ToSet(P.successions), revs)
  PROVE  /\ DOMAIN _index(P) = {x.predecessor : x \in ToSet(P.successions)}
         /\ \A x \in ToSet(P.successions) : _index(P)[x.predecessor] = x.successor
  <1> DEFINE edges == ToSet(P.successions)
  <1>1. DOMAIN _index(P) = {x.predecessor : x \in edges}
    BY DEF _index
  <1>2. ASSUME NEW x \in edges PROVE _index(P)[x.predecessor] = x.successor
    <2>1. _index(P)[x.predecessor] = (CHOOSE y \in edges : y.predecessor = x.predecessor).successor
      BY DEF _index
    <2>2. (CHOOSE y \in edges : y.predecessor = x.predecessor) = x
      BY DEF Forest
    <2> QED
      BY <2>1, <2>2
  <1> QED
    BY <1>1, <1>2

\* A new edge of a revision without successor, whose end does not reach it,
\* closes no cycle.
LEMMA ForestGrows ==
  ASSUME NEW P, NEW revs, revs \subseteq Revisions,
         ToSet(P.successions) \subseteq Edges, Forest(ToSet(P.successions), revs),
         NEW a \in revs, NEW b \in revs, a \notin DOMAIN _index(P), ~_reaches(_index(P), b, a)
  PROVE  Forest(ToSet(P.successions) \union {[predecessor |-> a, successor |-> b]}, revs)
  <1> DEFINE edges == ToSet(P.successions)
             new == [predecessor |-> a, successor |-> b]
             edge(x, y) == [predecessor |-> x, successor |-> y]
  <1>0. new.predecessor = a /\ new.successor = b
    OBVIOUS
  <1>1. PICK apart \in SUBSET Revisions : b \in apart /\ Closed(_index(P), apart) /\ a \notin apart
    BY DEF _reaches
  <1>2. \A x \in edges : x.predecessor # a
    BY IndexFacts
  <1>3. ASSUME NEW x, NEW y, edge(x, y) \in edges, x \in apart PROVE y \in apart
    <2>1. edge(x, y).predecessor = x /\ edge(x, y).successor = y
      OBVIOUS
    <2>2. x \in DOMAIN _index(P) /\ _index(P)[x] = y
      BY <1>3, <2>1, IndexFacts
    <2> QED
      BY <1>1, <1>3, <2>2 DEF Closed
  <1>4. ASSUME NEW cycle \in (SUBSET revs) \ {{}},
               \A x \in cycle : \E y \in cycle : edge(x, y) \in edges \union {new}
        PROVE  FALSE
    <2>1. ASSUME NEW x \in cycle, x # a
          PROVE  \E y \in cycle : edge(x, y) \in edges
      <3>1. PICK y \in cycle : edge(x, y) \in edges \union {new}
        BY <1>4
      <3>2. edge(x, y) # new
        <4>1. edge(x, y).predecessor = x
          OBVIOUS
        <4> HIDE DEF new
        <4> QED
          BY <1>0, <2>1, <4>1
      <3> QED
        BY <3>1, <3>2
    <2>2. a \in cycle
      <3>1. PICK x \in cycle : \A y \in cycle : edge(x, y) \notin edges
        BY DEF Forest
      <3> QED
        BY <2>1, <3>1
    <2>3. b \in cycle
      <3>1. PICK y \in cycle : edge(a, y) \in edges \union {new}
        BY <1>4, <2>2
      <3>2. edge(a, y).predecessor = a /\ edge(a, y).successor = y
        OBVIOUS
      <3>3. edge(a, y) \notin edges
        BY <1>2, <3>2
      <3>4. edge(a, y) = new
        BY <3>1, <3>3
      <3>5. y = b
        BY <1>0, <3>2, <3>4
      <3> QED
        BY <3>5
    <2> DEFINE rest == cycle \intersect apart
    <2>4. rest \in (SUBSET revs) \ {{}} /\ b \in rest
      BY <1>1, <2>3
    <2>5. PICK x \in rest : \A y \in rest : edge(x, y) \notin edges
      <3> HIDE DEF rest
      <3> QED
        BY <2>4 DEF Forest
    <2>6. PICK y \in cycle : edge(x, y) \in edges
      BY <1>1, <2>1
    <2>7. y \in apart
      BY <1>3, <2>6
    <2> QED
      BY <2>5, <2>6, <2>7
  <1>5. \A x \in edges \union {new} : x.predecessor \in revs /\ x.successor \in revs
    BY <1>0 DEF Forest
  <1>6. \A x, y \in edges \union {new} : x.predecessor = y.predecessor => x = y
    BY <1>0, <1>2 DEF Forest
  <1> HIDE DEF edges, new
  <1>7. \A cycle \in (SUBSET revs) \ {{}} : \E x \in cycle : \A y \in cycle :
           edge(x, y) \notin edges \union {new}
    BY <1>4
  <1>8. Forest(edges \union {new}, revs)
    BY <1>5, <1>6, <1>7 DEF Forest
  <1> QED
    BY <1>8 DEF edges, new

\* Reducing an ingestion or a selection keeps the projection true to the
\* stream.
LEMMA ReduceRevisionRecounts ==
  ASSUME NEW st \in Seq(Events), NEW e \in Events, NEW P, Recounts(P, st), Reducible(P, e),
         e.type \in {"ingested", "selected"}
  PROVE  Recounts(ReduceMaterial(P, e), Append(st, e))
  <1> DEFINE x == e.rev.source
             Q == ReduceMaterial(P, e)
             added == IF e.type = "ingested" THEN {e.rev} ELSE {}
  <1>0. e.rev \in Revisions /\ x \in Sources
    BY EventCases
  <1>1. /\ P = [history |-> P.history, current |-> P.current, substrates |-> P.substrates,
                productions |-> P.productions, successions |-> P.successions]
        /\ P.history \in [Sources -> Seq(Revisions)]
        /\ P.current = [y \in Sources |-> _current_revision(st, y)]
        /\ \A y \in Sources : /\ ToSet(P.history[y]) = RecordedIn(st, y)
                              /\ P.current[y] \in ToSet(P.history[y]) \union {None}
        /\ P.successions \in Seq(Edges)
        /\ ForestOf(P)
    BY DEF Recounts
  <1>2. PICK h \in Seq(Revisions) :
           /\ ToSet(h) = ToSet(P.history[x]) \union added
           /\ e.rev \in ToSet(h)
           /\ \E subs : Q = [history |-> [P.history EXCEPT ![x] = h],
                             current |-> [P.current EXCEPT ![x] = e.rev],
                             substrates |-> subs, productions |-> P.productions,
                             successions |-> P.successions]
    <2>1. CASE e.type = "selected"
      <3>1. Q = [P EXCEPT !.current[x] = e.rev]
        BY <2>1 DEF ReduceMaterial, reduce_source_revision_selected
      <3>2. Q = [history |-> P.history, current |-> [P.current EXCEPT ![x] = e.rev],
                 substrates |-> P.substrates, productions |-> P.productions,
                 successions |-> P.successions]
        BY <1>1, <3>1
      <3>3. P.history = [P.history EXCEPT ![x] = P.history[x]] /\ P.history[x] \in Seq(Revisions)
        BY <1>0, <1>1
      <3>4. e.rev \in ToSet(P.history[x])
        BY <2>1 DEF Reducible, Known
      <3> HIDE DEF Q, x
      <3> QED
        BY <2>1, <3>2, <3>3, <3>4
    <2>2. CASE e.type = "ingested"
      <3> DEFINE h == IF Known(P, e.rev) THEN P.history[x] ELSE Append(P.history[x], e.rev)
                 subs == P.substrates \union {NormalOf[e.rev.text]}
      <3>1. Q = [P EXCEPT !.history[x] = IF Known(P, e.rev) THEN @ ELSE Append(@, e.rev),
                          !.current[x] = e.rev, !.substrates = subs]
        BY <2>2 DEF ReduceMaterial, reduce_source_revision
      <3>2. Q = [history |-> [P.history EXCEPT ![x] = h], current |-> [P.current EXCEPT ![x] = e.rev],
                 substrates |-> subs, productions |-> P.productions,
                 successions |-> P.successions]
        BY <1>1, <3>1
      <3>3. P.history[x] \in Seq(Revisions)
        BY <1>0, <1>1
      <3>4. h \in Seq(Revisions) /\ ToSet(h) = ToSet(P.history[x]) \union {e.rev}
        BY <1>0, <3>3, AppendFacts DEF Known
      <3> HIDE DEF Q, x, h, subs
      <3> QED
        BY <2>2, <3>2, <3>4
    <2> QED
      BY <2>1, <2>2
  <1>3. PICK subs : Q = [history |-> [P.history EXCEPT ![x] = h],
                         current |-> [P.current EXCEPT ![x] = e.rev],
                         substrates |-> subs, productions |-> P.productions,
                         successions |-> P.successions]
    BY <1>2
  <1> HIDE DEF Q, x
  <1>4. /\ Q = [history |-> Q.history, current |-> Q.current, substrates |-> Q.substrates,
                productions |-> Q.productions, successions |-> Q.successions]
        /\ Q.history = [P.history EXCEPT ![x] = h] /\ Q.current = [P.current EXCEPT ![x] = e.rev]
        /\ Q.successions = P.successions
    BY <1>3
  <1>5. Q.history \in [Sources -> Seq(Revisions)]
    BY <1>0, <1>1, <1>4
  <1>6. Q.current = [y \in Sources |-> _current_revision(Append(st, e), y)]
    <2>1. ASSUME NEW y \in Sources
          PROVE  _current_revision(Append(st, e), y) = IF y = x THEN e.rev ELSE P.current[y]
      BY <1>1, CurrentAfterAppend DEF x
    <2> QED
      BY <1>0, <1>1, <1>4, <2>1
  <1>7. ASSUME NEW y \in Sources
        PROVE  /\ ToSet(Q.history[y]) = RecordedIn(Append(st, e), y)
               /\ ToSet(P.history[y]) \subseteq ToSet(Q.history[y])
               /\ Q.current[y] \in ToSet(Q.history[y]) \union {None}
    <2>1. RecordedIn(Append(st, e), y) = RecordedIn(st, y) \union (IF y = x THEN added ELSE {})
      BY RecordedAfterAppend DEF x
    <2>2. CASE y = x
      <3>1. Q.history[y] = h /\ Q.current[y] = e.rev
        BY <1>0, <1>1, <1>4, <2>2
      <3> QED
        BY <1>1, <1>2, <2>1, <2>2, <3>1
    <2>3. CASE y # x
      <3>1. Q.history[y] = P.history[y] /\ Q.current[y] = P.current[y]
        BY <1>0, <1>1, <1>4, <2>3
      <3> QED
        BY <1>1, <2>1, <2>3, <3>1
    <2> QED
      BY <2>2, <2>3
  <1>8. ForestOf(Q)
    <2>1. RevisionsOf(P) \subseteq RevisionsOf(Q)
      BY <1>7 DEF RevisionsOf
    <2>2. Forest(ToSet(Q.successions), RevisionsOf(P))
      BY <1>1, <1>4 DEF ForestOf, RevisionsOf
    <2>3. Forest(ToSet(Q.successions), RevisionsOf(Q))
      BY <2>1, <2>2, ForestOfMore
    <2> QED
      BY <2>3 DEF ForestOf, RevisionsOf
  <1>9. Recounts(Q, Append(st, e))
    BY <1>1, <1>4, <1>5, <1>6, <1>7, <1>8 DEF Recounts
  <1> QED
    BY <1>9 DEF Q

\* An event that is no revision leaves the revisions and their selection.
LEMMA OtherEventsKeep ==
  ASSUME NEW st \in Seq(Events), NEW e \in Events, e.type \notin {"ingested", "selected"}, NEW x
  PROVE  /\ _current_revision(Append(st, e), x) = _current_revision(st, x)
         /\ RecordedIn(Append(st, e), x) = RecordedIn(st, x)
  <1>1. e.type # "ingested" /\ ~(e.type \in {"ingested", "selected"} /\ e.rev.source = x)
    OBVIOUS
  <1>2. _current_revision(Append(st, e), x) = _current_revision(st, x)
    BY <1>1, CurrentAfterAppend
  <1>3. RecordedIn(Append(st, e), x) = RecordedIn(st, x)
    <2>1. RecordedIn(Append(st, e), x) =
            RecordedIn(st, x) \union (IF e.type = "ingested" /\ e.rev.source = x THEN {e.rev} ELSE {})
      BY RecordedAfterAppend
    <2> QED
      BY <1>1, <2>1
  <1> QED
    BY <1>2, <1>3

\* Reducing any event keeps the projection true to the stream; a succession
\* extends the forest because the reducer refuses a second successor and a
\* cycle.
LEMMA ReduceMaterialRecounts ==
  ASSUME NEW st \in Seq(Events), NEW e \in Events, NEW P, Recounts(P, st), Reducible(P, e)
  PROVE  Recounts(ReduceMaterial(P, e), Append(st, e))
  <1> DEFINE Q == ReduceMaterial(P, e)
  <1>1. /\ P = [history |-> P.history, current |-> P.current, substrates |-> P.substrates,
                productions |-> P.productions, successions |-> P.successions]
        /\ P.history \in [Sources -> Seq(Revisions)]
        /\ P.current = [y \in Sources |-> _current_revision(st, y)]
        /\ \A y \in Sources : /\ ToSet(P.history[y]) = RecordedIn(st, y)
                              /\ P.current[y] \in ToSet(P.history[y]) \union {None}
        /\ P.successions \in Seq(Edges)
        /\ ForestOf(P)
    BY DEF Recounts
  <1>2. CASE e.type \in {"ingested", "selected"}
    BY <1>2, ReduceRevisionRecounts
  <1>3. ASSUME e.type \notin {"ingested", "selected"}, NEW succ \in Seq(Edges), NEW subs, NEW prods,
               Q = [history |-> P.history, current |-> P.current, substrates |-> subs,
                    productions |-> prods, successions |-> succ],
               Forest(ToSet(succ), RevisionsOf(P))
        PROVE  Recounts(Q, Append(st, e))
    <2> HIDE DEF Q
    <2>1. /\ Q = [history |-> Q.history, current |-> Q.current, substrates |-> Q.substrates,
                  productions |-> Q.productions, successions |-> Q.successions]
          /\ Q.history = P.history /\ Q.current = P.current /\ Q.successions = succ
      BY <1>3
    <2>2. ForestOf(Q)
      BY <1>3, <2>1 DEF ForestOf, RevisionsOf
    <2>3. \A y : /\ _current_revision(Append(st, e), y) = _current_revision(st, y)
                 /\ RecordedIn(Append(st, e), y) = RecordedIn(st, y)
      BY <1>3, OtherEventsKeep
    <2> QED
      BY <1>1, <2>1, <2>2, <2>3 DEF Recounts
  <1>4. CASE e.type = "produced"
    <2>1. Q = [P EXCEPT !.substrates = @ \union {e.production.substrate},
                        !.productions = @ \union {e.production}]
      BY <1>4 DEF ReduceMaterial, reduce_substrate_produced
    <2>2. \E subs, prods :
             Q = [history |-> P.history, current |-> P.current, substrates |-> subs,
                  productions |-> prods, successions |-> P.successions]
      BY <1>1, <2>1
    <2>3. Forest(ToSet(P.successions), RevisionsOf(P))
      BY <1>1 DEF ForestOf, RevisionsOf
    <2> HIDE DEF Q
    <2>4. Recounts(Q, Append(st, e))
      BY <1>1, <1>3, <1>4, <2>2, <2>3
    <2> QED
      BY <2>4 DEF Q
  <1>5. CASE e.type = "superseded_by"
    <2> DEFINE a == e.predecessor
               b == e.successor
               new == [predecessor |-> a, successor |-> b]
    <2>0. a \in Revisions /\ b \in Revisions
      BY <1>5, EventCases
    <2>1. Forest(ToSet(P.successions), RevisionsOf(P))
      BY <1>1 DEF ForestOf, RevisionsOf
    <2>2. Known(P, a) /\ Known(P, b)
          /\ \/ successor_of(P, a) = b
             \/ successor_of(P, a) = None /\ ~_reaches(_index(P), b, a)
      BY <1>5 DEF Reducible, SuccessionReducible
    <2>3. Q = IF successor_of(P, a) = b THEN P ELSE [P EXCEPT !.successions = Append(@, new)]
      BY <1>5 DEF ReduceMaterial, reduce_source_superseded_by
    <2>4. CASE successor_of(P, a) = b
      <3>1. Q = [history |-> P.history, current |-> P.current, substrates |-> P.substrates,
                 productions |-> P.productions, successions |-> P.successions]
        BY <1>1, <2>3, <2>4
      <3> HIDE DEF Q
      <3>2. Recounts(Q, Append(st, e))
        BY <1>1, <1>3, <1>5, <2>1, <3>1
      <3> QED
        BY <3>2 DEF Q
    <2>5. CASE successor_of(P, a) # b
      <3>1. Q = [history |-> P.history, current |-> P.current, substrates |-> P.substrates,
                 productions |-> P.productions, successions |-> Append(P.successions, new)]
        BY <1>1, <2>3, <2>5
      <3>2. new \in Edges
        BY <2>0 DEF Edges
      <3>3. a \in RevisionsOf(P) /\ b \in RevisionsOf(P)
        BY <2>0, <2>2 DEF Known, RevisionsOf, Revisions
      <3>4. RevisionsOf(P) \subseteq Revisions /\ ToSet(P.successions) \subseteq Edges
        BY <1>1 DEF RevisionsOf, ToSet
      <3>5. a \notin DOMAIN _index(P)
        <4> SUFFICES ASSUME a \in DOMAIN _index(P) PROVE FALSE
          OBVIOUS
        <4>0. /\ DOMAIN _index(P) = {x.predecessor : x \in ToSet(P.successions)}
              /\ \A x \in ToSet(P.successions) : _index(P)[x.predecessor] = x.successor
          BY <2>1, <3>4, IndexFacts
        <4> HIDE DEF a
        <4>1. PICK y \in ToSet(P.successions) : y.predecessor = a
          BY <4>0
        <4>2. _index(P)[a] = y.successor
          BY <4>0, <4>1
        <4>3. y.successor \in Revisions
          BY <3>4, <4>1 DEF Edges
        <4> QED
          BY <2>2, <2>5, <4>2, <4>3, NoneAssumption DEF successor_of
      <3>6. ~_reaches(_index(P), b, a)
        BY <2>2, <2>5
      <3> HIDE DEF Q, new, a, b
      <3>7. Forest(ToSet(P.successions) \union {new}, RevisionsOf(P))
        BY <2>1, <3>3, <3>4, <3>5, <3>6, ForestGrows DEF new
      <3>8. /\ Append(P.successions, new) \in Seq(Edges)
            /\ ToSet(Append(P.successions, new)) = ToSet(P.successions) \union {new}
        BY <1>1, <3>2, AppendFacts
      <3>9. Recounts(Q, Append(st, e))
        BY <1>3, <1>5, <3>1, <3>7, <3>8
      <3> QED
        BY <3>9 DEF Q
    <2> QED
      BY <2>4, <2>5
  <1> QED
    BY <1>2, <1>4, <1>5, EventCases

-----------------------------------------------------------------------------
(* Streams the program wrote, and what their three readers find.           *)

Written(bs, st) == st \in Seq(Events) /\ Replayable(bs, st) /\ IdentitiesAreNew(st)

\* The projection of the empty stream.
LEMMA EmptyRecounts == Recounts(Project(<<>>), <<>>)
  <1> DEFINE P == NoMaterials
  <1>0. Project(<<>>) = P
    BY ProjectFacts
  <1>1. /\ P = [history |-> P.history, current |-> P.current, substrates |-> P.substrates,
                productions |-> P.productions, successions |-> P.successions]
        /\ P.history = [x \in Sources |-> <<>>] /\ P.current = [x \in Sources |-> None]
        /\ P.successions = <<>>
    BY DEF NoMaterials
  <1> HIDE DEF P
  <1>2. ToSet(<<>>) = {} /\ DOMAIN <<>> = {} /\ <<>> \in Seq(Edges) /\ <<>> \in Seq(Revisions)
    BY DEF ToSet
  <1>3. \A types, x : About(<<>>, types, x) = {}
    BY <1>2 DEF About
  <1>4. \A x : _current_revision(<<>>, x) = None /\ RecordedIn(<<>>, x) = {}
    BY <1>3 DEF _current_revision, Latest, RecordedIn
  <1>5. RevisionsOf(P) = {}
    BY <1>1, <1>2 DEF RevisionsOf
  <1>6. Forest({}, {})
    BY DEF Forest
  <1>7. ForestOf(P)
    BY <1>1, <1>2, <1>5, <1>6 DEF ForestOf, RevisionsOf
  <1>8. Recounts(P, <<>>)
    BY <1>1, <1>2, <1>4, <1>7 DEF Recounts
  <1> QED
    BY <1>0, <1>8

\* The projection of any prefix of a written stream is true to that prefix.
LEMMA WrittenRecounts ==
  ASSUME NEW bs, NEW st, Written(bs, st), NEW n \in 0 .. Len(st)
  PROVE  Recounts(Project(Before(st, n)), Before(st, n))
  <1> DEFINE Good == {m \in Nat : m <= Len(st) => Recounts(Project(Before(st, m)), Before(st, m))}
  <1>0. st \in Seq(Events) /\ Len(st) \in Nat /\ DOMAIN st = 1 .. Len(st)
        /\ \A i \in 1 .. Len(st) : st[i] \in Events
    BY DEF Written
  <1>1. 0 \in Good
    <2>1. Before(st, 0) = <<>>
      <3>1. Before(st, 0) \in Seq(Events) /\ Len(Before(st, 0)) = 0
        BY <1>0, BeforeFacts
      <3> QED
        BY <3>1, EmptySeq
    <2> QED
      BY <2>1, EmptyRecounts
  <1>2. ASSUME NEW m \in Nat, m \in Good PROVE m + 1 \in Good
    <2> SUFFICES ASSUME m + 1 <= Len(st)
                 PROVE  Recounts(Project(Before(st, m + 1)), Before(st, m + 1))
      OBVIOUS
    <2>1. Recounts(Project(Before(st, m)), Before(st, m))
      BY <1>0, <1>2
    <2>2. m \in 0 .. Len(st) /\ m < Len(st) /\ m + 1 \in 1 .. Len(st) /\ (m + 1) - 1 = m
      BY <1>0
    <2>3. Before(st, m) \in Seq(Events) /\ Before(st, m + 1) = Append(Before(st, m), st[m + 1])
      BY <1>0, <2>2, BeforeFacts
    <2>4. Reducible(Project(Before(st, m)), st[m + 1])
      BY <1>0, <2>2 DEF Written, Replayable, Before
    <2>5. st[m + 1] \in Events
      BY <1>0, <2>2
    <2>6. Project(Before(st, m + 1)) = ReduceMaterial(Project(Before(st, m)), st[m + 1])
      BY <2>3, <2>5, ProjectFacts
    <2>7. Recounts(ReduceMaterial(Project(Before(st, m)), st[m + 1]), Append(Before(st, m), st[m + 1]))
      BY <2>1, <2>3, <2>4, <2>5, ReduceMaterialRecounts
    <2> QED
      BY <2>3, <2>6, <2>7
  <1> HIDE DEF Good
  <1>3. Nat \subseteq Good
    BY <1>1, <1>2, SetInduction
  <1>4. n \in Nat /\ n <= Len(st)
    BY <1>0
  <1> QED
    BY <1>3, <1>4 DEF Good

\* A prefix of a written stream is one.
LEMMA PrefixWritten ==
  ASSUME NEW bs, NEW st, Written(bs, st), NEW n \in 0 .. Len(st)
  PROVE  Written(bs, Before(st, n))
  <1> DEFINE t == Before(st, n)
  <1>0. st \in Seq(Events) /\ Len(st) \in Nat /\ DOMAIN st = 1 .. Len(st)
    BY DEF Written
  <1>1. /\ t \in Seq(Events) /\ DOMAIN t = 1 .. n
        /\ \A i \in 1 .. n : t[i] = st[i]
        /\ \A m \in 0 .. n : Before(t, m) = Before(st, m)
    BY <1>0, BeforeFacts
  <1> HIDE DEF t
  <1>2. ASSUME NEW i \in 1 .. n
        PROVE  /\ Decodable(bs, t[i]) /\ Reducible(Project(Before(t, i - 1)), t[i])
               /\ IdentityIsNew(Before(t, i - 1), t[i])
    <2>1. i \in DOMAIN st /\ i - 1 \in 0 .. n
      BY <1>0
    <2>2. /\ Decodable(bs, st[i]) /\ Reducible(Project(Before(st, i - 1)), st[i])
          /\ IdentityIsNew(Before(st, i - 1), st[i])
      BY <2>1 DEF Written, Replayable, IdentitiesAreNew, Before
    <2>3. t[i] = st[i] /\ Before(t, i - 1) = Before(st, i - 1)
      BY <1>1, <2>1
    <2> QED
      BY <2>2, <2>3
  <1>3. Written(bs, t)
    BY <1>1, <1>2 DEF Written, Replayable, IdentitiesAreNew, Before
  <1> QED
    BY <1>3 DEF t

\* A valid event may follow.
LEMMA WrittenAppend ==
  ASSUME NEW bs, NEW st, Written(bs, st), NEW e \in Events,
         Decodable(bs, e), Reducible(Project(st), e), IdentityIsNew(st, e)
  PROVE  Written(bs, Append(st, e))
  <1> DEFINE t == Append(st, e)
  <1>0. st \in Seq(Events) /\ Len(st) \in Nat /\ DOMAIN st = 1 .. Len(st)
    BY DEF Written
  <1>1. /\ t \in Seq(Events) /\ DOMAIN t = 1 .. Len(st) + 1
        /\ \A i \in 1 .. Len(st) : t[i] = st[i]
        /\ t[Len(st) + 1] = e
    BY <1>0, AppendFacts
  <1>2. \A m \in 0 .. Len(st) : Before(t, m) = Before(st, m)
    BY <1>0, BeforeAppend
  <1>3. Before(t, Len(st)) = st
    BY <1>0, <1>2, BeforeWhole
  <1> HIDE DEF t
  <1>4. ASSUME NEW i \in 1 .. Len(st) + 1
        PROVE  /\ Decodable(bs, t[i]) /\ Reducible(Project(Before(t, i - 1)), t[i])
               /\ IdentityIsNew(Before(t, i - 1), t[i])
    <2>1. CASE i = Len(st) + 1
      <3>1. i - 1 = Len(st)
        BY <1>0, <2>1
      <3> QED
        BY <1>1, <1>3, <2>1, <3>1
    <2>2. CASE i \in 1 .. Len(st)
      <3>1. i \in DOMAIN st /\ i - 1 \in 0 .. Len(st)
        BY <1>0, <2>2
      <3>2. /\ Decodable(bs, st[i]) /\ Reducible(Project(Before(st, i - 1)), st[i])
            /\ IdentityIsNew(Before(st, i - 1), st[i])
        BY <3>1 DEF Written, Replayable, IdentitiesAreNew, Before
      <3> QED
        BY <1>1, <1>2, <2>2, <3>1, <3>2
    <2> QED
      BY <1>0, <2>1, <2>2
  <1>5. Written(bs, t)
    BY <1>1, <1>4 DEF Written, Replayable, IdentitiesAreNew, Before
  <1> QED
    BY <1>5 DEF t

\* Published blobs stay.
LEMMA WrittenWithMore ==
  ASSUME NEW bs, NEW more, bs \subseteq more, NEW st, Written(bs, st)
  PROVE  Written(more, st)
  <1>1. ASSUME NEW e \in Events, Decodable(bs, e) PROVE Decodable(more, e)
    <2>1. CASE e.type \in {"ingested", "selected"}
      BY <1>1, <2>1 DEF Decodable, decode_source_revision_event, get
    <2>2. CASE e.type = "produced"
      BY <1>1, <2>2 DEF Decodable, decode_substrate_produced_event, get
    <2>3. CASE e.type = "superseded_by"
      BY <1>1, <2>3 DEF Decodable
    <2> QED
      BY <2>1, <2>2, <2>3, EventCases
  <1>2. \A i \in DOMAIN st : st[i] \in Events
    BY DEF Written
  <1> QED
    BY <1>1, <1>2 DEF Written, Replayable

\* The revisions of a stream, and the current ones.
Seen(st) == UNION {RecordedIn(st, x) : x \in Sources}
CurrentOf(st) == {_current_revision(st, x) : x \in Sources} \ {None}

\* The current revision of a source was ingested.
LEMMA CurrentIsSeen ==
  ASSUME NEW bs, NEW st, Written(bs, st), NEW x \in Sources
  PROVE  _current_revision(st, x) \in RecordedIn(st, x) \union {None}
  <1>1. st \in Seq(Events) /\ Len(st) \in 0 .. Len(st) /\ Before(st, Len(st)) = st
    BY BeforeWhole DEF Written
  <1>2. Recounts(Project(st), st)
    BY <1>1, WrittenRecounts
  <1> QED
    BY <1>2 DEF Recounts

\* The revisions recorded of a source are the ingested ones that name it.
LEMMA RecordedFacts ==
  ASSUME NEW st \in Seq(Events), NEW x
  PROVE  /\ \A r \in RecordedIn(st, x) : r \in Revisions /\ r.source = x /\ r # None
         /\ \A r \in Revisions : r.source = x => (r \in RecordedIn(st, x) <=> Ingested(r) \in ToSet(st))
  <1>1. \A i \in DOMAIN st : st[i] \in Events
    OBVIOUS
  <1>2. ASSUME NEW r \in RecordedIn(st, x)
        PROVE  r \in Revisions /\ r.source = x /\ r # None /\ Ingested(r) \in ToSet(st)
    <2>1. PICK i \in DOMAIN st : st[i].type = "ingested" /\ st[i].rev.source = x /\ r = st[i].rev
      BY DEF RecordedIn, About
    <2>2. r \in Revisions /\ st[i] = Ingested(r)
      BY <1>1, <2>1, EventCases DEF Ingested
    <2> QED
      BY <2>1, <2>2, NoneAssumption DEF ToSet
  <1>3. ASSUME NEW r \in Revisions, r.source = x, Ingested(r) \in ToSet(st)
        PROVE  r \in RecordedIn(st, x)
    <2>1. PICK i \in DOMAIN st : st[i] = Ingested(r)
      BY <1>3 DEF ToSet
    <2>2. st[i].type = "ingested" /\ st[i].rev = r
      BY <2>1 DEF Ingested
    <2> QED
      BY <1>3, <2>2 DEF RecordedIn, About
  <1> QED
    BY <1>2, <1>3

\* The revisions a stream has seen are those of its ingestions.
LEMMA SeenFacts ==
  ASSUME NEW st \in Seq(Events)
  PROVE  /\ Seen(st) \subseteq Revisions
         /\ Seen(st) = {st[i].rev : i \in {j \in DOMAIN st : st[j].type = "ingested"}}
  <1>1. \A i \in DOMAIN st : st[i] \in Events
    OBVIOUS
  <1>2. ASSUME NEW i \in DOMAIN st, st[i].type = "ingested"
        PROVE  st[i].rev.source \in Sources /\ i \in About(st, {"ingested"}, st[i].rev.source)
    BY <1>1, <1>2, EventCases DEF About
  <1>3. \A x : RecordedIn(st, x) \subseteq {st[i].rev : i \in {j \in DOMAIN st : st[j].type = "ingested"}}
    BY DEF RecordedIn, About
  <1>4. {st[i].rev : i \in {j \in DOMAIN st : st[j].type = "ingested"}} \subseteq Seen(st)
    BY <1>2 DEF Seen, RecordedIn
  <1> QED
    BY <1>3, <1>4, RecordedFacts DEF Seen

\* The content catalog finds what the services and the reducers find.
LEMMA DecodeFacts ==
  ASSUME NEW bs, NEW st, Written(bs, st)
  PROVE  /\ _decode(st).seen = Seen(st)
         /\ _decode(st).current = [x \in Sources |-> _current_revision(st, x)]
  <1> DEFINE types == {"ingested", "selected"}
             first(x) == {i \in About(st, types, x) : st[i].type = "ingested" => FirstOfRevision(st, i)}
  <1>0. st \in Seq(Events) /\ Len(st) \in Nat /\ DOMAIN st = 1 .. Len(st)
    BY DEF Written
  <1>1. /\ _decode(st).seen = {st[i].rev : i \in {j \in DOMAIN st : st[j].type = "ingested"}}
        /\ _decode(st).current = [x \in Sources |-> Latest(st, first(x))]
    BY DEF _decode, DecodedFrom
  <1>2. ASSUME NEW i \in DOMAIN st, st[i].type = "ingested" PROVE FirstOfRevision(st, i)
    <2>1. st[i] \notin ToSet(Before(st, i - 1))
      BY <1>2 DEF Written, IdentitiesAreNew, IdentityIsNew, Before
    <2>2. i - 1 \in 0 .. Len(st)
      BY <1>0
    <2>3. DOMAIN Before(st, i - 1) = 1 .. i - 1 /\ \A j \in 1 .. i - 1 : Before(st, i - 1)[j] = st[j]
      BY <1>0, <2>2, BeforeFacts
    <2> QED
      BY <2>1, <2>3 DEF FirstOfRevision, ToSet
  <1>3. \A x : first(x) = About(st, types, x)
    BY <1>2 DEF About
  <1> HIDE DEF first
  <1>4. \A x : Latest(st, first(x)) = _current_revision(st, x)
    BY <1>3 DEF _current_revision
  <1> QED
    BY <1>0, <1>1, <1>4, SeenFacts

\* The rows of the catalog are the ingested revisions, and the current rows
\* those that are current in the stream.
LEMMA DocumentsFacts ==
  ASSUME NEW bs, NEW st, Written(bs, st)
  PROVE  /\ {d.rev : d \in documents(st)} = Seen(st)
         /\ {d.rev : d \in {x \in documents(st) : x.is_current}} = CurrentOf(st)
         /\ documents(st) \subseteq [rev : Revisions, is_current : BOOLEAN]
  <1> DEFINE doc(r) == [rev |-> r, is_current |-> _current_revision(st, r.source) = r]
  <1>0. st \in Seq(Events)
    BY DEF Written
  <1>1. ASSUME NEW r \in Seen(st) PROVE r \in Revisions /\ r.source \in Sources
    BY <1>0, SeenFacts DEF Revisions
  <1>2. documents(st) = {doc(r) : r \in Seen(st)}
    <2>0. _decode(st).current = [x \in Sources |-> _current_revision(st, x)]
      BY DecodeFacts
    <2>1. \A r \in Seen(st) : _decode(st).current[r.source] = _current_revision(st, r.source)
      BY <1>1, <2>0
    <2>2. documents(st) = {[rev |-> r, is_current |-> _decode(st).current[r.source] = r] : r \in Seen(st)}
      BY DecodeFacts DEF documents
    <2> QED
      BY <2>1, <2>2
  <1>3. \A r : doc(r).rev = r /\ (doc(r).is_current <=> _current_revision(st, r.source) = r)
    OBVIOUS
  <1>5. documents(st) \subseteq [rev : Revisions, is_current : BOOLEAN]
    <2>1. ASSUME NEW r \in Seen(st) PROVE doc(r) \in [rev : Revisions, is_current : BOOLEAN]
      <3>1. (_current_revision(st, r.source) = r) \in BOOLEAN
        OBVIOUS
      <3> QED
        BY <1>1, <3>1, Zenon
    <2> HIDE DEF doc
    <2> QED
      BY <1>2, <2>1
  <1> HIDE DEF doc
  <1>6. {d.rev : d \in documents(st)} = Seen(st)
    BY <1>2, <1>3
  <1>7. {d.rev : d \in {x \in documents(st) : x.is_current}} =
           {r \in Seen(st) : _current_revision(st, r.source) = r}
    <2>1. ASSUME NEW d \in documents(st), d.is_current
          PROVE  d.rev \in Seen(st) /\ _current_revision(st, d.rev.source) = d.rev
      <3>1. PICK r \in Seen(st) : d = doc(r)
        BY <1>2
      <3>2. d.rev = r
        BY <1>3, <3>1
      <3>3. _current_revision(st, r.source) = r
        BY <1>3, <2>1, <3>1, Zenon
      <3> QED
        BY <3>2, <3>3
    <2>2. ASSUME NEW r \in Seen(st), _current_revision(st, r.source) = r
          PROVE  doc(r) \in documents(st) /\ doc(r).is_current /\ doc(r).rev = r
      <3>1. doc(r).is_current
        BY <1>3, <2>2, Zenon
      <3> QED
        BY <1>2, <1>3, <3>1
    <2> QED
      BY <2>1, <2>2
  <1>8. ASSUME NEW x \in Sources, _current_revision(st, x) # None
        PROVE  _current_revision(st, x) \in Seen(st) /\ _current_revision(st, x).source = x
    BY <1>0, <1>8, CurrentIsSeen, RecordedFacts DEF Seen
  <1>9. {r \in Seen(st) : _current_revision(st, r.source) = r} = CurrentOf(st)
    <2>1. ASSUME NEW r \in Seen(st), _current_revision(st, r.source) = r PROVE r \in CurrentOf(st)
      BY <1>1, <2>1, NoneAssumption DEF CurrentOf
    <2>2. ASSUME NEW r \in CurrentOf(st) PROVE r \in Seen(st) /\ _current_revision(st, r.source) = r
      BY <1>8 DEF CurrentOf
    <2> QED
      BY <2>1, <2>2
  <1> QED
    BY <1>5, <1>6, <1>7, <1>9

-----------------------------------------------------------------------------
(* What every phase of a call knows of the stream and of the index.        *)

IngestOps == {"ingest", "file_ingest"}
Requests == [source : Sources, text : Texts, title : Titles]

\* These rows are the catalog of a moment since the call began.
CatalogSince(st, since, rows) == \E n \in since .. Len(st) : rows = documents(Before(st, n))

IngestPhase(st, k) ==
    /\ k.op \in IngestOps
    /\ k.pc = "ingest" => k.arg \in Requests
    /\ k.pc # "ingest" => k.sequence \in 0 .. Len(st)
    /\ k.pc = "unchanged" => /\ k.expected = k.sequence
                             /\ _current_revision(Before(st, k.sequence), k.arg.source) = k.arg
    /\ k.pc \in {"original", "normalized"} =>
          k.arg \in Revisions /\ k.event = Ingested(k.arg) /\ k.expected \in {None, k.sequence}

AppendPhase(st, k) ==
    /\ k.op \in IngestOps \union {"produce", "declare"}
    /\ k.sequence \in 0 .. Len(st) /\ k.event \in Events
    /\ k.op \in IngestOps => /\ k.arg \in Revisions
                             /\ k.event \in {Ingested(k.arg), Selected(k.arg)}
                             /\ k.expected \in {None, k.sequence}

ProducePhase(st, k) ==
    /\ k.op = "produce" /\ k.arg \in Productions
    /\ k.pc # "produce" => k.sequence \in 0 .. Len(st)

RebuildPhase(st, k) ==
    /\ k.op = "rebuild" /\ k.since \in 0 .. Len(st)
    /\ k.pc # "documents" => CatalogSince(st, k.since, k.docs)

AuditPhase(st, ix, k) ==
    /\ k.op \in {"rebuild", "search"} /\ k.since \in 0 .. Len(st)
    /\ k.pc # "audit" => CatalogSince(st, k.since, k.docs)
    /\ k.op = "rebuild" /\ ~k.disturbed => CatalogSince(st, k.since, ix)

\* The audit found the catalog in the index, and nobody wrote to it since.
AuditedPhase(st, ix, k) ==
    /\ k.op \in {"rebuild", "search"} /\ k.since \in 0 .. Len(st)
    /\ k.pc = "version" => k.op = "rebuild"
    /\ k.pc = "query" => k.op = "search"
    /\ CatalogSince(st, k.since, k.docs)
    /\ ~k.disturbed => ix = k.docs

ResolvePhase(st, k) ==
    /\ k.op = "search" /\ k.since \in 0 .. Len(st)
    /\ ~k.disturbed => \E n \in k.since .. Len(st) : k.rows = CurrentOf(Before(st, n))

FilePhase(t, k) ==
    /\ k.pc \in {"capture", "create"} => k.arg \in FileIds
    /\ k.pc = "create" => k.sequence \in 0 .. t
    /\ k.pc = "verified" => /\ k.op = "file_ingest"
                            /\ k.arg.source \in Sources /\ k.arg.title \in Titles
                            /\ k.arg.file.text \in Texts

CallShape(k) ==
    /\ k = [pc |-> k.pc, op |-> k.op, arg |-> k.arg, expected |-> k.expected,
            sequence |-> k.sequence, current |-> k.current, event |-> k.event, docs |-> k.docs,
            rows |-> k.rows, since |-> k.since, disturbed |-> k.disturbed]
    /\ k.disturbed \in BOOLEAN

CallSound(st, ix, t, k) ==
    /\ CallShape(k)
    /\ \/ k.pc = "idle" \/ k.pc = "reread"
       \/ k.pc \in {"ingest", "unchanged", "original", "normalized"} /\ IngestPhase(st, k)
       \/ k.pc = "append" /\ AppendPhase(st, k)
       \/ k.pc \in {"produce", "substrate", "find"} /\ ProducePhase(st, k)
       \/ k.pc = "declare" /\ k.op = "declare" /\ k.arg \in Revisions \X Revisions
       \/ k.pc \in {"documents", "validate", "write"} /\ RebuildPhase(st, k)
       \/ k.pc \in {"audit", "metadata"} /\ AuditPhase(st, ix, k)
       \/ k.pc \in {"fts", "version", "query"} /\ AuditedPhase(st, ix, k)
       \/ k.pc = "resolve" /\ ResolvePhase(st, k)
       \/ k.pc \in {"capture", "create", "lookup", "verified"} /\ FilePhase(t, k)

\* The bytes Bytes counts.
Stored(fs) == UNION {{id} \X (1 .. SizeOf[id.text]) : id \in DOMAIN fs}

FilesSound ==
    /\ files = [id \in DOMAIN files |-> files[id]]
    /\ DOMAIN files \subseteq FileIds
    /\ IsFiniteSet(DOMAIN files) /\ IsFiniteSet(Stored(files))
    /\ \A id \in DOMAIN files : files[id].captured_at \in 0 .. now
    /\ FilesWithinLimits

StoresSound ==
    /\ Written(blobs, log) /\ blobs \subseteq Texts
    /\ index \subseteq [rev : Revisions, is_current : BOOLEAN]
    /\ now \in Nat
    /\ offered = [ops |-> offered.ops, texts |-> offered.texts, events |-> offered.events]
    /\ offered.ops \subseteq Ops /\ offered.texts \subseteq Texts
    /\ FilesSound

CallsSound ==
    /\ client = [c \in Clients |-> client[c]]
    /\ \A c \in Clients : /\ CallSound(log, index, now, client[c])
                          /\ client[c].op \in offered.ops \union {None}

MaterialsInv == StoresSound /\ CallsSound

-----------------------------------------------------------------------------
(* The invariant holds at the start.                                       *)

\* An event refers to blobs of texts.
LEMMA BlobsAreTexts ==
  ASSUME NEW e \in Events
  PROVE  BlobsOf(e) \subseteq Texts
  <1>1. CASE e.type \in {"ingested", "selected"}
    <2>1. e.rev.text \in Texts /\ NormalOf[e.rev.text] # None
      BY <1>1, EventCases DEF Revisions, HasContent
    <2>2. NormalOf[e.rev.text] \in Texts
      BY <2>1, TextAssumption
    <2> QED
      BY <1>1, <2>1, <2>2 DEF BlobsOf
  <1>2. CASE e.type = "produced"
    BY <1>2, EventCases DEF BlobsOf, Productions
  <1>3. CASE e.type = "superseded_by"
    BY <1>3 DEF BlobsOf
  <1> QED
    BY <1>1, <1>2, <1>3, EventCases

\* No captured file is a sound store.
LEMMA NoFiles ==
  ASSUME files = [id \in {} |-> None], now = 0
  PROVE  FilesSound
  <1>1. DOMAIN files = {} /\ files = [id \in DOMAIN files |-> files[id]]
    OBVIOUS
  <1>2. IsFiniteSet({}) /\ Cardinality({}) = 0
    BY FS_EmptySet
  <1>3. UNION {{id} \X (1 .. SizeOf[id.text]) : id \in DOMAIN files} = {}
    BY <1>1
  <1>4. Bytes(files) = 0 /\ Stored(files) = {}
    BY <1>2, <1>3 DEF Bytes, Stored
  <1>5. FilesWithinLimits
    BY <1>1, <1>2, <1>4, LimitsAssumption DEF FilesWithinLimits
  <1> QED
    BY <1>1, <1>2, <1>4, <1>5 DEF FilesSound

\* The initial state is sound: empty stores and idle clients.
LEMMA InitSound == Init => MaterialsInv
  <1> SUFFICES ASSUME Init PROVE MaterialsInv
    OBVIOUS
  <1>1. PICK start \in Starts :
           /\ offered = [ops |-> start.ops, texts |-> start.texts, events |-> start.events]
           /\ log = start.log
           /\ blobs = UNION {BlobsOf(e) : e \in ToSet(start.log)}
    BY DEF Init
  <1>2. /\ start.ops \subseteq Ops /\ start.texts \subseteq Texts
        /\ log \in Seq(Events) /\ Replayable(blobs, log) /\ IdentitiesAreNew(log)
    BY <1>1, StartsAssumption DEF StartsAreWritten
  <1>3. blobs \subseteq Texts
    <2>1. ToSet(log) \subseteq Events
      BY <1>2 DEF ToSet
    <2> QED
      BY <1>1, <2>1, BlobsAreTexts
  <1>4. StoresSound
    <2>1. index = {} /\ now = 0 /\ files = [id \in {} |-> None]
      BY DEF Init
    <2>2. FilesSound
      BY <2>1, NoFiles
    <2> QED
      BY <1>1, <1>2, <1>3, <2>1, <2>2 DEF StoresSound, Written
  <1>5. CallsSound
    <2>1. client = [c \in Clients |-> Idle(Result("none", 0))]
      BY DEF Init
    <2>2. ASSUME NEW c \in Clients
          PROVE  client[c].pc = "idle" /\ CallShape(client[c]) /\ client[c].op = None
      BY <2>1 DEF CallShape, Idle, Begun
    <2>3. client = [c \in Clients |-> client[c]]
      BY <2>1
    <2> QED
      BY <2>2, <2>3 DEF CallsSound, CallSound
  <1> QED
    BY <1>4, <1>5 DEF MaterialsInv

-----------------------------------------------------------------------------
(* What others do keeps what a call knows.                                 *)

\* The stream as it was, or with one more event.
Grown(st, more) == more = st \/ \E e \in Events : more = Append(st, e)

\* A grown stream keeps its prefixes.
LEMMA GrownFacts ==
  ASSUME NEW st \in Seq(Events), NEW more, Grown(st, more)
  PROVE  /\ more \in Seq(Events) /\ Len(st) \in Nat /\ Len(more) \in Nat /\ Len(st) <= Len(more)
         /\ 0 .. Len(st) \subseteq 0 .. Len(more)
         /\ \A n \in 0 .. Len(st) : Before(more, n) = Before(st, n)
         /\ Len(more) = Len(st) => more = st
  <1>1. CASE more = st
    BY <1>1
  <1>2. ASSUME NEW e \in Events, more = Append(st, e)
        PROVE  /\ more \in Seq(Events) /\ Len(st) \in Nat /\ Len(more) = Len(st) + 1
               /\ \A n \in 0 .. Len(st) : Before(more, n) = Before(st, n)
    BY <1>2, AppendFacts, BeforeAppend
  <1> QED
    BY <1>1, <1>2 DEF Grown

\* A catalog of a moment stays one as the stream grows.
LEMMA CatalogKept ==
  ASSUME NEW st \in Seq(Events), NEW more, Grown(st, more), NEW since \in 0 .. Len(st), NEW rows,
         CatalogSince(st, since, rows)
  PROVE  CatalogSince(more, since, rows)
  <1>1. PICK n \in since .. Len(st) : rows = documents(Before(st, n))
    BY DEF CatalogSince
  <1>2. n \in 0 .. Len(st) /\ n \in since .. Len(more) /\ Before(more, n) = Before(st, n)
    BY GrownFacts
  <1> QED
    BY <1>1, <1>2 DEF CatalogSince

\* What a call knows of the stream, the index and the clock survives an append
\* by another client and the passing of time.
LEMMA CallKept ==
  ASSUME NEW st \in Seq(Events), NEW more, Grown(st, more), NEW ix, NEW t \in Nat,
         NEW later \in Nat, t <= later, NEW k, CallSound(st, ix, t, k)
  PROVE  CallSound(more, ix, later, k)
  <1>0. /\ Len(st) \in Nat /\ Len(more) \in Nat /\ Len(st) <= Len(more)
        /\ \A n \in 0 .. Len(st) : n \in 0 .. Len(more) /\ Before(more, n) = Before(st, n)
    BY GrownFacts
  <1>1. IngestPhase(st, k) => IngestPhase(more, k)
    BY <1>0 DEF IngestPhase
  <1>2. AppendPhase(st, k) => AppendPhase(more, k)
    BY <1>0 DEF AppendPhase
  <1>3. ProducePhase(st, k) => ProducePhase(more, k)
    BY <1>0 DEF ProducePhase
  <1>4. RebuildPhase(st, k) => RebuildPhase(more, k)
    BY <1>0, CatalogKept DEF RebuildPhase
  <1>5. AuditPhase(st, ix, k) => AuditPhase(more, ix, k)
    <2> SUFFICES ASSUME AuditPhase(st, ix, k) PROVE AuditPhase(more, ix, k)
      OBVIOUS
    <2>1. k.since \in 0 .. Len(st) /\ k.since \in 0 .. Len(more)
      BY <1>0 DEF AuditPhase
    <2>2. \A rows : CatalogSince(st, k.since, rows) => CatalogSince(more, k.since, rows)
      BY <2>1, CatalogKept
    <2> QED
      BY <2>1, <2>2 DEF AuditPhase
  <1>6. AuditedPhase(st, ix, k) => AuditedPhase(more, ix, k)
    BY <1>0, CatalogKept DEF AuditedPhase
  <1>7. ResolvePhase(st, k) => ResolvePhase(more, k)
    <2> SUFFICES ASSUME ResolvePhase(st, k) PROVE ResolvePhase(more, k)
      OBVIOUS
    <2>1. k.op = "search" /\ k.since \in 0 .. Len(st)
      BY DEF ResolvePhase
    <2>2. ASSUME ~k.disturbed
          PROVE  \E n \in k.since .. Len(more) : k.rows = CurrentOf(Before(more, n))
      <3>1. PICK n \in k.since .. Len(st) : k.rows = CurrentOf(Before(st, n))
        BY <2>2 DEF ResolvePhase
      <3>2. n \in 0 .. Len(st) /\ n \in k.since .. Len(more)
        BY <1>0, <2>1
      <3> QED
        BY <1>0, <3>1, <3>2
    <2> QED
      BY <1>0, <2>1, <2>2 DEF ResolvePhase
  <1>8. FilePhase(t, k) => FilePhase(later, k)
    BY DEF FilePhase
  <1> QED
    BY <1>1, <1>2, <1>3, <1>4, <1>5, <1>6, <1>7, <1>8 DEF CallSound

\* Another process wrote the index.
Disturbed(k) == [k EXCEPT !.disturbed = @ \/ k.op \in {"rebuild", "search"}]

\* A call whose index another client wrote is marked; what it knows of the
\* index it then no longer claims.
LEMMA CallDisturbed ==
  ASSUME NEW st, NEW ix, NEW jx, NEW t, NEW k, CallSound(st, ix, t, k)
  PROVE  CallSound(st, jx, t, Disturbed(k)) /\ Disturbed(k).op = k.op /\ Disturbed(k).pc = k.pc
  <1> DEFINE l == Disturbed(k)
  <1>1. CallShape(k)
    BY DEF CallSound
  <1>2. /\ l = [pc |-> k.pc, op |-> k.op, arg |-> k.arg, expected |-> k.expected,
                sequence |-> k.sequence, current |-> k.current, event |-> k.event,
                docs |-> k.docs, rows |-> k.rows, since |-> k.since, disturbed |-> l.disturbed]
        /\ l.disturbed \in BOOLEAN
        /\ k.op \in {"rebuild", "search"} => l.disturbed = TRUE
    <2> DEFINE flag == k.disturbed \/ k.op \in {"rebuild", "search"}
    <2>1. flag \in BOOLEAN
      OBVIOUS
    <2>2. k.op \in {"rebuild", "search"} => flag = TRUE
      OBVIOUS
    <2>3. l = [k EXCEPT !.disturbed = flag]
      BY DEF Disturbed
    <2> HIDE DEF flag, l
    <2>4. k = [pc |-> k.pc, op |-> k.op, arg |-> k.arg, expected |-> k.expected,
               sequence |-> k.sequence, current |-> k.current, event |-> k.event,
               docs |-> k.docs, rows |-> k.rows, since |-> k.since, disturbed |-> k.disturbed]
      BY <1>1 DEF CallShape
    <2> QED
      BY <2>1, <2>2, <2>3, <2>4
  <1> HIDE DEF l
  <1>3. /\ l.pc = k.pc /\ l.op = k.op /\ l.arg = k.arg /\ l.expected = k.expected
        /\ l.sequence = k.sequence /\ l.event = k.event /\ l.docs = k.docs /\ l.since = k.since
        /\ l.rows = k.rows /\ l.current = k.current
    BY <1>2
  <1>4. CallShape(l)
    BY <1>2, <1>3 DEF CallShape
  <1>5. IngestPhase(st, k) => IngestPhase(st, l)
    BY <1>3 DEF IngestPhase
  <1>6. AppendPhase(st, k) => AppendPhase(st, l)
    BY <1>3 DEF AppendPhase
  <1>7. ProducePhase(st, k) => ProducePhase(st, l)
    BY <1>3 DEF ProducePhase
  <1>8. RebuildPhase(st, k) => RebuildPhase(st, l)
    BY <1>3 DEF RebuildPhase
  <1>9. AuditPhase(st, ix, k) => AuditPhase(st, jx, l)
    BY <1>2, <1>3 DEF AuditPhase
  <1>10. AuditedPhase(st, ix, k) => AuditedPhase(st, jx, l)
    BY <1>2, <1>3 DEF AuditedPhase
  <1>11. ResolvePhase(st, k) => ResolvePhase(st, l)
    BY <1>2, <1>3 DEF ResolvePhase
  <1>12. FilePhase(t, k) => FilePhase(t, l)
    BY <1>3 DEF FilePhase
  <1>13. CallSound(st, jx, t, l)
    BY <1>3, <1>4, <1>5, <1>6, <1>7, <1>8, <1>9, <1>10, <1>11, <1>12 DEF CallSound
  <1> QED
    BY <1>3, <1>13 DEF l

-----------------------------------------------------------------------------
(* Steps that move one call and leave the stores.                          *)

Sound(k) == CallSound(log, index, now, k) /\ k.op \in offered.ops \union {None}

\* A call that has begun.
LEMMA BegunFacts ==
  ASSUME NEW pc, NEW op, NEW arg, NEW expected, NEW since, NEW k,
         k = Begun(pc, op, arg, expected, since)
  PROVE  /\ CallShape(k) /\ k.pc = pc /\ k.op = op /\ k.arg = arg /\ k.expected = expected
         /\ k.since = since /\ k.sequence = 0
  BY DEF CallShape, Begun

\* An idle client, whatever its answer, knows nothing that could be false.
LEMMA IdleFacts ==
  ASSUME NEW a
  PROVE  Idle(a).pc = "idle" /\ Idle(a).op = None /\ Idle(a).arg = a /\ Sound(Idle(a))
  <1>1. Idle(a) = Begun("idle", None, a, None, 0)
    BY DEF Idle
  <1>2. CallShape(Idle(a)) /\ Idle(a).pc = "idle" /\ Idle(a).op = None /\ Idle(a).arg = a
    BY <1>1, BegunFacts
  <1> QED
    BY <1>2 DEF Sound, CallSound

\* Return ends the call of one client.
LEMMA ReturnMoves ==
  ASSUME NEW c, NEW status, NEW sequence, Return(c, status, sequence)
  PROVE  Becomes(c, Idle(Result(status, sequence)))
  BY DEF Return, Becomes

\* Answer ends the call of one client.
LEMMA AnswerMoves ==
  ASSUME NEW c, NEW status, NEW sequence, Answer(c, status, sequence)
  PROVE  Becomes(c, Idle(
            IF client[c].op \in IngestOps
            THEN [status |-> status, sequence |-> sequence,
                  rev |-> client[c].arg, expected |-> client[c].expected]
            ELSE Result(status, sequence)))
  BY DEF Answer, Becomes, IngestOps

\* A call that is not idle is in a phase and knows what the phase knows.
LEMMA CallForm ==
  ASSUME CallsSound, NEW c \in Clients
  PROVE  /\ CallShape(client[c]) /\ CallSound(log, index, now, client[c])
         /\ client[c].op \in offered.ops \union {None}
         /\ client = [d \in Clients |-> client[d]]
         /\ Sound(client[c])
  BY DEF CallsSound, CallSound, Sound

\* A step that leaves the stores leaves them sound.
LEMMA StoresKept ==
  ASSUME StoresSound, UNCHANGED stores
  PROVE  StoresSound'
  BY DEF StoresSound, FilesSound, FilesWithinLimits, Bytes, Stored, stores

\* A step of one client that appends at most one event keeps what every other
\* call knows.
LEMMA CallsKept ==
  ASSUME StoresSound, CallsSound, NEW c \in Clients, NEW k, Becomes(c, k),
         Grown(log, log'), index' = index, now' \in Nat, now <= now', offered' = offered,
         CallSound(log', index', now', k), k.op \in offered.ops \union {None}
  PROVE  CallsSound'
  <1>1. client' = [d \in Clients |-> IF d = c THEN k ELSE client[d]]
    BY CallForm DEF Becomes
  <1>2. ASSUME NEW d \in Clients
        PROVE  /\ CallSound(log', index', now', client'[d])
               /\ client'[d].op \in offered'.ops \union {None}
    <2>1. CASE d = c
      BY <1>1, <2>1
    <2>2. CASE d # c
      <3>1. client'[d] = client[d] /\ CallSound(log, index, now, client[d])
            /\ client[d].op \in offered.ops \union {None}
        BY <1>1, <2>2, CallForm
      <3>2. log \in Seq(Events) /\ now \in Nat
        BY DEF StoresSound, Written
      <3>3. CallSound(log', index, now', client[d])
        BY <3>1, <3>2, CallKept
      <3> QED
        BY <3>1, <3>3
    <2> QED
      BY <2>1, <2>2
  <1>3. client' = [d \in Clients |-> client'[d]]
    BY <1>1
  <1> QED
    BY <1>2, <1>3 DEF CallsSound

\* A step of one client that leaves the stores.
LEMMA QuietStep ==
  ASSUME MaterialsInv, NEW c \in Clients, UNCHANGED stores, NEW k, Becomes(c, k), Sound(k)
  PROVE  MaterialsInv'
  <1>1. StoresSound /\ CallsSound
    BY DEF MaterialsInv
  <1>2. StoresSound'
    BY <1>1, StoresKept
  <1>3. log' = log /\ index' = index /\ now' = now /\ offered' = offered
    BY DEF stores
  <1>4. now \in Nat /\ now <= now' /\ Grown(log, log')
    BY <1>1, <1>3 DEF StoresSound, Grown
  <1>5. CallSound(log', index', now', k) /\ k.op \in offered.ops \union {None}
    BY <1>3 DEF Sound
  <1>6. CallsSound'
    BY <1>1, <1>3, <1>4, <1>5, CallsKept
  <1> QED
    BY <1>2, <1>6 DEF MaterialsInv

\* The history of every source holds revisions.
LEMMA NamedRevisions ==
  ASSUME StoresSound
  PROVE  \A x \in Sources : ToSet(Project(log).history[x]) \subseteq Revisions
  <1>1. log \in Seq(Events) /\ Written(blobs, log)
    BY DEF StoresSound, Written
  <1>2. Recounts(Project(log), log)
    <2>1. Len(log) \in 0 .. Len(log) /\ Before(log, Len(log)) = log
      BY <1>1, BeforeWhole
    <2> QED
      BY <1>1, <2>1, WrittenRecounts
  <1>3. Project(log).history \in [Sources -> Seq(Revisions)]
    BY <1>2 DEF Recounts
  <1> QED
    BY <1>3 DEF ToSet

\* The arguments each operation is called with.
LEMMA ArgumentsFacts ==
  ASSUME StoresSound, NEW op \in Ops, NEW arg \in Arguments(op)
  PROVE  /\ op = "ingest" => arg \in Requests
         /\ op = "produce" => arg \in Productions
         /\ op = "declare" => arg \in Revisions \X Revisions
         /\ op = "capture" => arg \in FileIds
         /\ op = "file_ingest" => /\ arg.source \in Sources /\ arg.title \in Titles
                                  /\ arg.file.text \in Texts
  <1> DEFINE named == UNION {ToSet(Project(log).history[x]) : x \in Sources}
             captured == [session : Sessions, text : offered.texts]
  <1>1. offered.texts \subseteq Texts
    BY DEF StoresSound
  <1>2. named \subseteq Revisions /\ captured \subseteq FileIds
    BY <1>1, NamedRevisions DEF FileIds
  <1>3. op = "ingest" => arg \in [source : Sources, text : offered.texts, title : Titles]
    BY Zenon DEF Arguments
  <1>4. op = "produce" => arg \in [source : Sources, original : offered.texts,
                                   substrate : offered.texts, converter : Converters]
    BY DEF Arguments
  <1>5. op = "declare" => arg \in named \X named
    BY DEF Arguments
  <1>6. op = "capture" => arg \in captured
    BY DEF Arguments
  <1>7. op = "file_ingest" => arg \in [file : captured, by : Sessions, source : Sources,
                                       title : Titles]
    BY DEF Arguments
  <1> HIDE DEF named, captured
  <1>8. op = "ingest" => arg \in Requests
    BY <1>1, <1>3 DEF Requests
  <1>9. op = "produce" => arg \in Productions
    BY <1>1, <1>4 DEF Productions
  <1>10. op = "declare" => arg \in Revisions \X Revisions
    BY <1>2, <1>5
  <1>11. op = "file_ingest" => arg.source \in Sources /\ arg.title \in Titles /\ arg.file.text \in Texts
    BY <1>2, <1>7 DEF FileIds
  <1> QED
    BY <1>2, <1>6, <1>8, <1>9, <1>10, <1>11

\* A call begins.
LEMMA CallStep ==
  ASSUME MaterialsInv, NEW c \in Clients, call(c)
  PROVE  MaterialsInv'
  <1>1. StoresSound /\ CallsSound /\ UNCHANGED stores
    BY DEF MaterialsInv, call
  <1>0. PICK op \in offered.ops :
           \E arg \in Arguments(op), expected \in Expectations(op) :
              Becomes(c, Begun(First[op], op, arg, expected,
                             IF op \in {"rebuild", "search"} THEN Len(log) ELSE 0))
    BY DEF call, Becomes
  <1>2. PICK arg \in Arguments(op), expected \in Expectations(op) :
           Becomes(c, Begun(First[op], op, arg, expected,
                          IF op \in {"rebuild", "search"} THEN Len(log) ELSE 0))
    BY <1>0
  <1>3. PICK since : since = IF op \in {"rebuild", "search"} THEN Len(log) ELSE 0
    OBVIOUS
  <1>4. PICK k : k = Begun(First[op], op, arg, expected, since)
    OBVIOUS
  <1>5. /\ CallShape(k) /\ k.pc = First[op] /\ k.op = op /\ k.arg = arg /\ k.since = since
    BY <1>4, BegunFacts
  <1>6. op \in Ops /\ Len(log) \in Nat /\ Len(log) \in 0 .. Len(log)
    BY <1>1 DEF StoresSound, Written
  <1>7. /\ op = "ingest" => arg \in Requests
        /\ op = "produce" => arg \in Productions
        /\ op = "declare" => arg \in Revisions \X Revisions
        /\ op = "capture" => arg \in FileIds
        /\ op = "file_ingest" => /\ arg.source \in Sources /\ arg.title \in Titles
                                 /\ arg.file.text \in Texts
    BY <1>1, <1>6, ArgumentsFacts
  <1>8. CallSound(log, index, now, k)
    <2>1. CASE op = "ingest"
      <3>1. k.pc = "ingest" /\ IngestPhase(log, k)
        BY <1>5, <1>7, <2>1 DEF First, IngestPhase, IngestOps
      <3> QED
        BY <1>5, <3>1 DEF CallSound
    <2>2. CASE op = "produce"
      <3>1. k.pc = "produce" /\ ProducePhase(log, k)
        BY <1>5, <1>7, <2>2 DEF First, ProducePhase
      <3> QED
        BY <1>5, <3>1 DEF CallSound
    <2>3. CASE op = "declare"
      <3>1. k.pc = "declare" /\ k.op = "declare"
        BY <1>5, <2>3 DEF First
      <3> QED
        BY <1>5, <1>7, <2>3, <3>1 DEF CallSound
    <2>4. CASE op = "rebuild"
      <3>1. k.pc = "documents" /\ k.since = Len(log)
        BY <1>3, <1>5, <2>4 DEF First
      <3>2. RebuildPhase(log, k)
        BY <1>5, <1>6, <2>4, <3>1 DEF RebuildPhase
      <3> QED
        BY <1>5, <3>1, <3>2 DEF CallSound
    <2>5. CASE op = "search"
      <3>1. k.pc = "audit" /\ k.since = Len(log)
        BY <1>3, <1>5, <2>5 DEF First
      <3>2. AuditPhase(log, index, k)
        BY <1>5, <1>6, <2>5, <3>1 DEF AuditPhase
      <3> QED
        BY <1>5, <3>1, <3>2 DEF CallSound
    <2>6. CASE op \in {"capture", "lookup", "file_ingest"}
      <3>1. k.pc = First[op] /\ First["capture"] = "capture" /\ First["lookup"] = "lookup"
            /\ First["file_ingest"] = "verified"
        BY <1>5 DEF First
      <3>2. FilePhase(now, k)
        BY <1>5, <1>7, <2>6, <3>1 DEF FilePhase
      <3> QED
        BY <1>5, <2>6, <3>1, <3>2 DEF CallSound
    <2> QED
      BY <1>6, <2>1, <2>2, <2>3, <2>4, <2>5, <2>6 DEF Ops
  <1>9. Becomes(c, k) /\ Sound(k)
    BY <1>2, <1>3, <1>4, <1>5, <1>8 DEF Sound
  <1> QED
    BY <1>1, <1>9, QuietStep

\* A call that answers is idle, whatever it answers.
LEMMA AnsweredStep ==
  ASSUME MaterialsInv, NEW c \in Clients, UNCHANGED stores, NEW a, Becomes(c, Idle(a))
  PROVE  MaterialsInv'
  <1>1. Sound(Idle(a))
    BY IdleFacts
  <1> QED
    BY <1>1, QuietStep

\* A call ends and leaves the stores.
LEMMA ReturnStep ==
  ASSUME MaterialsInv, NEW c \in Clients, UNCHANGED stores,
         NEW status, NEW sequence,
         Return(c, status, sequence) \/ Answer(c, status, sequence)
  PROVE  MaterialsInv'
  <1>1. PICK a : Becomes(c, Idle(a))
    BY ReturnMoves, AnswerMoves
  <1> QED
    BY <1>1, AnsweredStep

\* The fields of a call after a step that leaves op, expected and since.
Changed(k, pc, arg, sequence, current, event, docs, rows, disturbed) ==
    [pc |-> pc, op |-> k.op, arg |-> arg, expected |-> k.expected, sequence |-> sequence,
     current |-> current, event |-> event, docs |-> docs, rows |-> rows, since |-> k.since,
     disturbed |-> disturbed]

\* A call with some of its fields replaced.
LEMMA ChangedFacts ==
  ASSUME NEW k, NEW pc, NEW arg, NEW sequence, NEW current, NEW event, NEW docs, NEW rows,
         NEW disturbed \in BOOLEAN, NEW l,
         l = Changed(k, pc, arg, sequence, current, event, docs, rows, disturbed)
  PROVE  /\ CallShape(l) /\ l.pc = pc /\ l.op = k.op /\ l.arg = arg /\ l.expected = k.expected
         /\ l.sequence = sequence /\ l.current = current /\ l.event = event /\ l.docs = docs
         /\ l.rows = rows /\ l.since = k.since /\ (l.disturbed <=> disturbed)
  BY DEF Changed, CallShape

\* The steps of a call as such changes: to its next phase, and with one more field.
InPhase(k, pc) == [k EXCEPT !.pc = pc]
WithSequence(k, pc, sequence) == [k EXCEPT !.pc = pc, !.sequence = sequence]
WithEvent(k, pc, event) == [k EXCEPT !.pc = pc, !.event = event]
WithCatalog(k, pc, docs) == [k EXCEPT !.pc = pc, !.docs = docs]
WithRows(k, pc, rows) == [k EXCEPT !.pc = pc, !.rows = rows]
WithArgument(k, pc, arg) == [k EXCEPT !.pc = pc, !.arg = arg]
WithSequenceEvent(k, pc, sequence, event) ==
    [k EXCEPT !.pc = pc, !.sequence = sequence, !.event = event]
WithDecision(k, pc, sequence, event, current) ==
    [k EXCEPT !.pc = pc, !.sequence = sequence, !.event = event, !.current = current]

\* InPhase replaces the program counter.
LEMMA PhaseChanged ==
  ASSUME NEW k, CallShape(k), NEW pc
  PROVE  InPhase(k, pc) =
           Changed(k, pc, k.arg, k.sequence, k.current, k.event, k.docs, k.rows, k.disturbed)
  <1>1. k = [pc |-> k.pc, op |-> k.op, arg |-> k.arg, expected |-> k.expected,
             sequence |-> k.sequence, current |-> k.current, event |-> k.event, docs |-> k.docs,
             rows |-> k.rows, since |-> k.since, disturbed |-> k.disturbed]
    BY DEF CallShape
  <1> QED
    BY <1>1 DEF Changed, InPhase

\* A call that moved to another phase kept everything else.
LEMMA InPhaseFacts ==
  ASSUME NEW k, CallShape(k), NEW pc, NEW l, l = InPhase(k, pc)
  PROVE  /\ CallShape(l) /\ l.pc = pc
         /\ l.op = k.op /\ l.arg = k.arg /\ l.expected = k.expected /\ l.sequence = k.sequence
         /\ l.current = k.current /\ l.event = k.event /\ l.docs = k.docs /\ l.rows = k.rows
         /\ l.since = k.since /\ (l.disturbed <=> k.disturbed)
  <1>1. k.disturbed \in BOOLEAN
    BY DEF CallShape
  <1> QED
    BY <1>1, PhaseChanged, ChangedFacts

\* WithSequence as a replacement of fields.
LEMMA SequenceChanged ==
  ASSUME NEW k, CallShape(k), NEW pc, NEW sequence
  PROVE  WithSequence(k, pc, sequence) =
           Changed(k, pc, k.arg, sequence, k.current, k.event, k.docs, k.rows, k.disturbed)
  <1>1. PICK l : l = InPhase(k, pc)
    OBVIOUS
  <1>2. l = Changed(k, pc, k.arg, k.sequence, k.current, k.event, k.docs, k.rows, k.disturbed)
    BY <1>1, PhaseChanged
  <1>3. [l EXCEPT !.sequence = sequence] =
           Changed(k, pc, k.arg, sequence, k.current, k.event, k.docs, k.rows, k.disturbed)
    BY <1>2 DEF Changed
  <1> QED
    BY <1>1, <1>3 DEF InPhase, WithSequence

\* WithEvent as a replacement of fields.
LEMMA EventChanged ==
  ASSUME NEW k, CallShape(k), NEW pc, NEW event
  PROVE  WithEvent(k, pc, event) =
           Changed(k, pc, k.arg, k.sequence, k.current, event, k.docs, k.rows, k.disturbed)
  <1>1. PICK l : l = InPhase(k, pc)
    OBVIOUS
  <1>2. l = Changed(k, pc, k.arg, k.sequence, k.current, k.event, k.docs, k.rows, k.disturbed)
    BY <1>1, PhaseChanged
  <1>3. [l EXCEPT !.event = event] =
           Changed(k, pc, k.arg, k.sequence, k.current, event, k.docs, k.rows, k.disturbed)
    BY <1>2 DEF Changed
  <1> QED
    BY <1>1, <1>3 DEF InPhase, WithEvent

\* WithCatalog as a replacement of fields.
LEMMA CatalogChanged ==
  ASSUME NEW k, CallShape(k), NEW pc, NEW docs
  PROVE  WithCatalog(k, pc, docs) =
           Changed(k, pc, k.arg, k.sequence, k.current, k.event, docs, k.rows, k.disturbed)
  <1>1. PICK l : l = InPhase(k, pc)
    OBVIOUS
  <1>2. l = Changed(k, pc, k.arg, k.sequence, k.current, k.event, k.docs, k.rows, k.disturbed)
    BY <1>1, PhaseChanged
  <1>3. [l EXCEPT !.docs = docs] =
           Changed(k, pc, k.arg, k.sequence, k.current, k.event, docs, k.rows, k.disturbed)
    BY <1>2 DEF Changed
  <1> QED
    BY <1>1, <1>3 DEF InPhase, WithCatalog

\* WithRows as a replacement of fields.
LEMMA RowsChanged ==
  ASSUME NEW k, CallShape(k), NEW pc, NEW rows
  PROVE  WithRows(k, pc, rows) =
           Changed(k, pc, k.arg, k.sequence, k.current, k.event, k.docs, rows, k.disturbed)
  <1>1. PICK l : l = InPhase(k, pc)
    OBVIOUS
  <1>2. l = Changed(k, pc, k.arg, k.sequence, k.current, k.event, k.docs, k.rows, k.disturbed)
    BY <1>1, PhaseChanged
  <1>3. [l EXCEPT !.rows = rows] =
           Changed(k, pc, k.arg, k.sequence, k.current, k.event, k.docs, rows, k.disturbed)
    BY <1>2 DEF Changed
  <1> QED
    BY <1>1, <1>3 DEF InPhase, WithRows

\* WithArgument as a replacement of fields.
LEMMA ArgumentChanged ==
  ASSUME NEW k, CallShape(k), NEW pc, NEW arg
  PROVE  WithArgument(k, pc, arg) =
           Changed(k, pc, arg, k.sequence, k.current, k.event, k.docs, k.rows, k.disturbed)
  <1>1. PICK l : l = InPhase(k, pc)
    OBVIOUS
  <1>2. l = Changed(k, pc, k.arg, k.sequence, k.current, k.event, k.docs, k.rows, k.disturbed)
    BY <1>1, PhaseChanged
  <1>3. [l EXCEPT !.arg = arg] =
           Changed(k, pc, arg, k.sequence, k.current, k.event, k.docs, k.rows, k.disturbed)
    BY <1>2 DEF Changed
  <1> QED
    BY <1>1, <1>3 DEF InPhase, WithArgument

\* WithSequenceEvent as a replacement of fields.
LEMMA SequenceEventChanged ==
  ASSUME NEW k, CallShape(k), NEW pc, NEW sequence, NEW event
  PROVE  WithSequenceEvent(k, pc, sequence, event) =
           Changed(k, pc, k.arg, sequence, k.current, event, k.docs, k.rows, k.disturbed)
  <1>1. PICK l : l = WithSequence(k, pc, sequence)
    OBVIOUS
  <1>2. l = Changed(k, pc, k.arg, sequence, k.current, k.event, k.docs, k.rows, k.disturbed)
    BY <1>1, SequenceChanged
  <1>3. [l EXCEPT !.event = event] =
           Changed(k, pc, k.arg, sequence, k.current, event, k.docs, k.rows, k.disturbed)
    BY <1>2 DEF Changed
  <1> QED
    BY <1>1, <1>3 DEF WithSequence, WithSequenceEvent

\* WithDecision as a replacement of fields.
LEMMA DecisionChanged ==
  ASSUME NEW k, CallShape(k), NEW pc, NEW sequence, NEW event, NEW current
  PROVE  WithDecision(k, pc, sequence, event, current) =
           Changed(k, pc, k.arg, sequence, current, event, k.docs, k.rows, k.disturbed)
  <1>1. PICK l : l = WithSequenceEvent(k, pc, sequence, event)
    OBVIOUS
  <1>2. l = Changed(k, pc, k.arg, sequence, k.current, event, k.docs, k.rows, k.disturbed)
    BY <1>1, SequenceEventChanged
  <1>3. [l EXCEPT !.current = current] =
           Changed(k, pc, k.arg, sequence, current, event, k.docs, k.rows, k.disturbed)
    BY <1>2 DEF Changed
  <1> QED
    BY <1>1, <1>3 DEF WithSequenceEvent, WithDecision

-----------------------------------------------------------------------------
(* The writers: ingestion, production, successions.                        *)

\* A request with content makes a revision, and events of it.
LEMMA EventsOfRequests ==
  ASSUME NEW arg \in Requests, HasContent(arg.text)
  PROVE  arg \in Revisions /\ Ingested(arg) \in Events /\ Selected(arg) \in Events
         /\ arg.source \in Sources
  <1>1. arg \in Revisions
    BY DEF Requests, Revisions
  <1> QED
    BY <1>1 DEF Events, Ingested, Selected, Requests

\* ingest decides from one read of the stream what it will append, or that
\* nothing changed.
LEMMA IngestStep ==
  ASSUME MaterialsInv, NEW c \in Clients, ingest(c)
  PROVE  MaterialsInv'
  <1>1. StoresSound /\ CallsSound /\ UNCHANGED stores
    BY DEF MaterialsInv, ingest
  <1>2. PICK k : k = client[c]
    OBVIOUS
  <1>3. k.pc = "ingest" /\ CallShape(k) /\ CallSound(log, index, now, k)
        /\ k.op \in offered.ops \union {None}
    BY <1>1, <1>2, CallForm DEF ingest
  <1>4. k.op \in IngestOps /\ k.arg \in Requests
    BY <1>3 DEF CallSound, IngestPhase
  <1>5. log \in Seq(Events) /\ Len(log) \in 0 .. Len(log) /\ Before(log, Len(log)) = log
    BY <1>1, BeforeWhole DEF StoresSound, Written
  <1>6. ASSUME NEW pc, NEW event, k.expected \in {None, Len(log)}, HasContent(k.arg.text),
               Becomes(c, WithDecision(k, pc, Len(log), event,
                                       _current_revision(log, k.arg.source))),
               \/ /\ pc = "unchanged" /\ k.expected # None
                  /\ _current_revision(log, k.arg.source) = k.arg
               \/ pc = "append" /\ event = Selected(k.arg)
               \/ pc = "original" /\ event = Ingested(k.arg)
        PROVE  MaterialsInv'
    <2>1. PICK l : l = Changed(k, pc, k.arg, Len(log), _current_revision(log, k.arg.source),
                               event, k.docs, k.rows, k.disturbed)
      OBVIOUS
    <2>2. Becomes(c, l)
      <3>1. l = WithDecision(k, pc, Len(log), event, _current_revision(log, k.arg.source))
        BY <1>3, <2>1, DecisionChanged
      <3> QED
        BY <1>6, <3>1
    <2>3. k.disturbed \in BOOLEAN
      BY <1>3 DEF CallShape
    <2>4. CallShape(l) /\ l.pc = pc /\ l.op = k.op /\ l.arg = k.arg /\ l.expected = k.expected
          /\ l.sequence = Len(log) /\ l.event = event
      BY <2>1, <2>3, ChangedFacts
    <2>5. k.arg \in Revisions /\ Ingested(k.arg) \in Events /\ Selected(k.arg) \in Events
      BY <1>4, <1>6, EventsOfRequests
    <2>6. CASE pc = "unchanged"
      <3>0. l.expected = l.sequence /\ _current_revision(Before(log, l.sequence), l.arg.source) = l.arg
        BY <1>5, <1>6, <2>4, <2>6
      <3>1. IngestPhase(log, l)
        BY <1>4, <1>5, <2>4, <2>6, <3>0 DEF IngestPhase
      <3> QED
        BY <1>1, <1>3, <2>2, <2>4, <2>6, <3>1, QuietStep DEF Sound, CallSound
    <2>7. CASE pc = "append"
      <3>1. AppendPhase(log, l)
        BY <1>4, <1>5, <1>6, <2>4, <2>5, <2>7 DEF AppendPhase
      <3> QED
        BY <1>1, <1>3, <2>2, <2>4, <2>7, <3>1, QuietStep DEF Sound, CallSound
    <2>8. CASE pc = "original"
      <3>1. IngestPhase(log, l)
        BY <1>4, <1>5, <1>6, <2>4, <2>5, <2>8 DEF IngestPhase
      <3> QED
        BY <1>1, <1>3, <2>2, <2>4, <2>8, <3>1, QuietStep DEF Sound, CallSound
    <2> QED
      BY <1>6, <2>6, <2>7, <2>8
  <1>7. CASE \E status, sequence : Return(c, status, sequence) \/ Answer(c, status, sequence)
    BY <1>1, <1>7, ReturnStep
  <1>8. CASE k.expected \in {None, Len(log)} /\ HasContent(k.arg.text)
    <2> DEFINE current == _current_revision(log, k.arg.source)
               at(pc, e) == WithDecision(k, pc, Len(log), e, current)
    <2>1. CASE current = k.arg /\ k.expected = None
      <3>1. Answer(c, "idempotent", Len(log)) \/ Return(c, "invalid", Len(log))
            \/ Return(c, "retry", Len(log))
        BY <1>2, <1>8, <2>1 DEF ingest
      <3> QED
        BY <1>7, <3>1
    <2>2. CASE current = k.arg /\ k.expected # None
      <3>1. Becomes(c, at("unchanged", None))
        BY <1>2, <1>8, <2>2 DEF ingest, WithDecision
      <3> QED
        BY <1>6, <1>8, <2>2, <3>1
    <2>3. CASE current # k.arg /\ _find_matching_revision(log, k.arg)
      <3>1. Becomes(c, at("append", Selected(k.arg)))
        BY <1>2, <1>8, <2>3 DEF ingest, _find_matching_revision, WithDecision
      <3> QED
        BY <1>6, <1>8, <2>3, <3>1
    <2>4. CASE current # k.arg /\ ~_find_matching_revision(log, k.arg)
      <3>1. Becomes(c, at("original", Ingested(k.arg)))
        BY <1>2, <1>8, <2>4 DEF ingest, _find_matching_revision, WithDecision
      <3> QED
        BY <1>6, <1>8, <2>4, <3>1
    <2> QED
      BY <2>1, <2>2, <2>3, <2>4
  <1> QED
    BY <1>2, <1>7, <1>8 DEF ingest

\* The revision is already current: the call is answered with the sequence it
\* read.
LEMMA UnchangedStep ==
  ASSUME MaterialsInv, NEW c \in Clients, unchanged(c)
  PROVE  MaterialsInv'
  <1>1. UNCHANGED stores
    BY DEF unchanged
  <1>2. \E status, sequence : Return(c, status, sequence) \/ Answer(c, status, sequence)
    BY DEF unchanged
  <1> QED
    BY <1>1, <1>2, ReturnStep

\* Objects are only added.
LEMMA BlobsAdded ==
  ASSUME StoresSound, NEW texts \in SUBSET Texts, blobs' = put(blobs, texts),
         UNCHANGED <<log, index, files, now, offered>>
  PROVE  StoresSound'
  <1>1. blobs' = blobs \union texts /\ blobs' \subseteq Texts
    BY DEF StoresSound, put
  <1>2. Written(blobs', log)
    BY <1>1, WrittenWithMore DEF StoresSound
  <1> QED
    BY <1>1, <1>2 DEF StoresSound, FilesSound, FilesWithinLimits, Bytes, Stored

\* A step of one client that adds blobs.
LEMMA BlobsStep ==
  ASSUME MaterialsInv, NEW c \in Clients, NEW texts \in SUBSET Texts, blobs' = put(blobs, texts),
         UNCHANGED <<log, index, files, now, offered>>, NEW l, Becomes(c, l), Sound(l)
  PROVE  MaterialsInv'
  <1>1. StoresSound /\ CallsSound
    BY DEF MaterialsInv
  <1>2. StoresSound'
    BY <1>1, BlobsAdded
  <1>3. now \in Nat /\ now' \in Nat /\ now <= now' /\ Grown(log, log')
    BY <1>1 DEF StoresSound, Grown
  <1>4. CallSound(log', index', now', l) /\ l.op \in offered.ops \union {None}
    BY DEF Sound
  <1>5. CallsSound'
    BY <1>1, <1>3, <1>4, CallsKept
  <1> QED
    BY <1>2, <1>5 DEF MaterialsInv

\* _write_expected_blob stores a text before the event that refers to it.
LEMMA WriteExpectedBlobStep ==
  ASSUME MaterialsInv, NEW c \in Clients, _write_expected_blob(c)
  PROVE  MaterialsInv'
  <1>1. StoresSound /\ CallsSound /\ UNCHANGED <<log, index, files, now, offered>>
    BY DEF MaterialsInv, _write_expected_blob
  <1>2. PICK k : k = client[c]
    OBVIOUS
  <1>3. k.pc \in {"original", "normalized"} /\ CallShape(k) /\ CallSound(log, index, now, k)
        /\ k.op \in offered.ops \union {None}
    BY <1>1, <1>2, CallForm DEF _write_expected_blob
  <1>4. /\ k.op \in IngestOps /\ k.sequence \in 0 .. Len(log) /\ k.arg \in Revisions
        /\ k.event = Ingested(k.arg) /\ k.expected \in {None, k.sequence}
    BY <1>3 DEF CallSound, IngestPhase
  <1>5. PICK texts : /\ texts \subseteq {k.arg.text, NormalOf[k.arg.text]}
                     /\ blobs' = put(blobs, texts)
    BY <1>2 DEF _write_expected_blob
  <1>6. texts \in SUBSET Texts
    <2>1. k.arg.text \in Texts /\ NormalOf[k.arg.text] # None
      BY <1>4 DEF Revisions, HasContent
    <2>2. NormalOf[k.arg.text] \in Texts
      BY <2>1, TextAssumption
    <2> QED
      BY <1>5, <2>1, <2>2
  <1>7. PICK pc : /\ Becomes(c, InPhase(k, pc))
                  /\ pc = IF k.pc = "original" THEN "normalized" ELSE "append"
    BY <1>2 DEF _write_expected_blob, Goto, InPhase
  <1>8. PICK l : l = InPhase(k, pc)
    OBVIOUS
  <1>9. CallShape(l) /\ l.pc = pc /\ l.op = k.op /\ l.arg = k.arg /\ l.expected = k.expected
        /\ l.sequence = k.sequence /\ l.event = k.event
    BY <1>3, <1>8, InPhaseFacts
  <1>10. CASE pc = "normalized"
    <2>1. IngestPhase(log, l)
      BY <1>4, <1>9, <1>10 DEF IngestPhase
    <2> QED
      BY <1>1, <1>3, <1>5, <1>6, <1>7, <1>8, <1>9, <1>10, <2>1, BlobsStep DEF Sound, CallSound
  <1>11. CASE pc = "append"
    <2>1. k.event \in Events
      BY <1>4 DEF Events, Ingested
    <2>2. AppendPhase(log, l)
      BY <1>4, <1>9, <1>11, <2>1 DEF AppendPhase
    <2> QED
      BY <1>1, <1>3, <1>5, <1>6, <1>7, <1>8, <1>9, <1>11, <2>2, BlobsStep DEF Sound, CallSound
  <1> QED
    BY <1>7, <1>10, <1>11

\* produce reads the stream and prepares its event.
LEMMA ProduceStep ==
  ASSUME MaterialsInv, NEW c \in Clients, produce(c)
  PROVE  MaterialsInv'
  <1>1. StoresSound /\ CallsSound /\ UNCHANGED stores
    BY DEF MaterialsInv, produce
  <1>2. PICK k : k = client[c]
    OBVIOUS
  <1>3. k.pc = "produce" /\ CallShape(k) /\ CallSound(log, index, now, k)
        /\ k.op \in offered.ops \union {None}
    BY <1>1, <1>2, CallForm DEF produce
  <1>4. k.op = "produce" /\ k.arg \in Productions
    BY <1>3 DEF CallSound, ProducePhase
  <1>5. CASE Return(c, "failed", Len(log))
    BY <1>1, <1>5, ReturnStep
  <1>6. CASE Becomes(c, WithSequence(k, "substrate", Len(log)))
    <2>1. PICK l : l = WithSequence(k, "substrate", Len(log))
      OBVIOUS
    <2>2. CallShape(l) /\ l.pc = "substrate" /\ l.op = k.op /\ l.arg = k.arg /\ l.sequence = Len(log)
      BY <1>3, <2>1, SequenceChanged, ChangedFacts DEF CallShape
    <2>3. Len(log) \in 0 .. Len(log)
      BY <1>1 DEF StoresSound, Written
    <2>4. ProducePhase(log, l)
      BY <1>4, <2>2, <2>3 DEF ProducePhase
    <2> QED
      BY <1>1, <1>3, <1>6, <2>1, <2>2, <2>4, QuietStep DEF Sound, CallSound
  <1> QED
    BY <1>2, <1>5, <1>6 DEF produce, WithSequence

\* The substrate of a production is stored before its event.
LEMMA PutSubstrateStep ==
  ASSUME MaterialsInv, NEW c \in Clients, put_substrate(c)
  PROVE  MaterialsInv'
  <1>1. StoresSound /\ CallsSound /\ UNCHANGED <<log, index, files, now, offered>>
    BY DEF MaterialsInv, put_substrate
  <1>2. PICK k : k = client[c]
    OBVIOUS
  <1>3. k.pc = "substrate" /\ CallShape(k) /\ CallSound(log, index, now, k)
        /\ k.op \in offered.ops \union {None}
    BY <1>1, <1>2, CallForm DEF put_substrate
  <1>4. k.op = "produce" /\ k.arg \in Productions /\ k.sequence \in 0 .. Len(log)
    BY <1>3 DEF CallSound, ProducePhase
  <1>5. blobs' = put(blobs, {k.arg.substrate}) /\ {k.arg.substrate} \in SUBSET Texts
    BY <1>2, <1>4 DEF put_substrate, Productions
  <1>6. PICK l : l = InPhase(k, "find")
    OBVIOUS
  <1>7. Becomes(c, l)
    BY <1>2, <1>6 DEF put_substrate, Goto, InPhase
  <1>8. CallShape(l) /\ l.pc = "find" /\ l.op = k.op /\ l.arg = k.arg /\ l.sequence = k.sequence
    BY <1>3, <1>6, InPhaseFacts
  <1>9. ProducePhase(log, l)
    BY <1>4, <1>8 DEF ProducePhase
  <1> QED
    BY <1>1, <1>3, <1>5, <1>7, <1>8, <1>9, BlobsStep DEF Sound, CallSound

\* find_production decides whether the production is appended.
LEMMA FindProductionStep ==
  ASSUME MaterialsInv, NEW c \in Clients, find_production(c)
  PROVE  MaterialsInv'
  <1>1. StoresSound /\ CallsSound /\ UNCHANGED stores
    BY DEF MaterialsInv, find_production
  <1>2. PICK k : k = client[c]
    OBVIOUS
  <1>3. k.pc = "find" /\ CallShape(k) /\ CallSound(log, index, now, k)
        /\ k.op \in offered.ops \union {None}
    BY <1>1, <1>2, CallForm DEF find_production
  <1>4. k.op = "produce" /\ k.arg \in Productions /\ k.sequence \in 0 .. Len(log)
    BY <1>3 DEF CallSound, ProducePhase
  <1>5. CASE \E status, sequence : Return(c, status, sequence)
    BY <1>1, <1>5, ReturnStep
  <1>6. CASE Becomes(c, WithEvent(k, "append", Produced(k.arg)))
    <2>1. PICK l : l = WithEvent(k, "append", Produced(k.arg))
      OBVIOUS
    <2>2. CallShape(l) /\ l.pc = "append" /\ l.op = k.op /\ l.sequence = k.sequence
          /\ l.event = Produced(k.arg)
      BY <1>3, <2>1, EventChanged, ChangedFacts DEF CallShape
    <2>3. Produced(k.arg) \in Events
      BY <1>4 DEF Events, Produced
    <2>4. AppendPhase(log, l)
      BY <1>4, <2>2, <2>3 DEF AppendPhase, IngestOps
    <2> QED
      BY <1>1, <1>3, <1>6, <2>1, <2>2, <2>4, QuietStep DEF Sound, CallSound
  <1> QED
    BY <1>2, <1>5, <1>6 DEF find_production, WithEvent

\* declare validates a succession against the projection it read.
LEMMA DeclareStep ==
  ASSUME MaterialsInv, NEW c \in Clients, declare(c)
  PROVE  MaterialsInv'
  <1>1. StoresSound /\ CallsSound /\ UNCHANGED stores
    BY DEF MaterialsInv, declare
  <1>2. PICK k : k = client[c]
    OBVIOUS
  <1>3. k.pc = "declare" /\ CallShape(k) /\ CallSound(log, index, now, k)
        /\ k.op \in offered.ops \union {None}
    BY <1>1, <1>2, CallForm DEF declare
  <1>4. k.op = "declare" /\ k.arg \in Revisions \X Revisions
    BY <1>3 DEF CallSound
  <1>5. PICK event : event = Succeeded(k.arg[1], k.arg[2])
    OBVIOUS
  <1>6. event \in Events
    BY <1>4, <1>5 DEF Events, Succeeded
  <1>7. PICK l : l = WithSequenceEvent(k, "append", Len(log), event)
    OBVIOUS
  <1>8. Becomes(c, l)
    BY <1>2, <1>5, <1>7 DEF declare, WithSequenceEvent
  <1>9. CallShape(l) /\ l.pc = "append" /\ l.op = k.op /\ l.sequence = Len(log) /\ l.event = event
    BY <1>3, <1>7, SequenceEventChanged, ChangedFacts DEF CallShape
  <1>10. Len(log) \in 0 .. Len(log)
    BY <1>1 DEF StoresSound, Written
  <1>11. AppendPhase(log, l)
    BY <1>4, <1>6, <1>9, <1>10 DEF AppendPhase, IngestOps
  <1> QED
    BY <1>1, <1>3, <1>8, <1>9, <1>11, QuietStep DEF Sound, CallSound

\* The append checks the event against the stream it appends to.
LEMMA AppendStep ==
  ASSUME MaterialsInv, NEW c \in Clients, append(c)
  PROVE  MaterialsInv'
  <1>1. StoresSound /\ CallsSound /\ UNCHANGED <<blobs, index, files, now, offered>>
    BY DEF MaterialsInv, append
  <1>2. PICK k : k = client[c]
    OBVIOUS
  <1>3. k.pc = "append" /\ CallShape(k) /\ CallSound(log, index, now, k)
        /\ k.op \in offered.ops \union {None}
    BY <1>1, <1>2, CallForm DEF append
  <1>4. k.event \in Events
    BY <1>3 DEF CallSound, AppendPhase
  <1>5. CASE Goto(c, "reread") /\ UNCHANGED log
    <2>1. PICK l : l = InPhase(k, "reread")
      OBVIOUS
    <2>2. Becomes(c, l)
      BY <1>2, <1>5, <2>1 DEF Goto, InPhase
    <2>3. CallShape(l) /\ l.pc = "reread" /\ l.op = k.op
      BY <1>3, <2>1, InPhaseFacts
    <2> QED
      BY <1>1, <1>3, <1>5, <2>2, <2>3, QuietStep DEF Sound, CallSound, stores
  <1>6. CASE Return(c, "rejected", Len(log)) /\ UNCHANGED log
    BY <1>1, <1>6, ReturnStep DEF stores
  <1>7. CASE /\ Decodable(blobs, k.event) /\ IdentityIsNew(log, k.event)
             /\ Reducible(Project(log), k.event)
             /\ log' = Append(log, k.event) /\ Answer(c, "emitted", k.sequence + 1)
    <2>1. Written(blobs, log) /\ log \in Seq(Events) /\ now \in Nat
      BY <1>1 DEF StoresSound, Written
    <2>2. Written(blobs', log')
      BY <1>1, <1>4, <1>7, <2>1, WrittenAppend
    <2>3. StoresSound'
      BY <1>1, <2>2 DEF StoresSound, FilesSound, FilesWithinLimits, Bytes, Stored
    <2>4. Grown(log, log')
      BY <1>4, <1>7 DEF Grown
    <2>5. PICK a : Becomes(c, Idle(a))
      BY <1>7, AnswerMoves
    <2>6. CallSound(log', index', now', Idle(a)) /\ Idle(a).op \in offered.ops \union {None}
      BY IdleFacts DEF Sound, CallSound
    <2>7. CallsSound'
      BY <1>1, <2>1, <2>4, <2>5, <2>6, CallsKept
    <2> QED
      BY <2>3, <2>7 DEF MaterialsInv
  <1> QED
    BY <1>2, <1>5, <1>6, <1>7 DEF append

\* A lost append is answered from the stream read again.
LEMMA RereadStep ==
  ASSUME MaterialsInv, NEW c \in Clients, reread(c)
  PROVE  MaterialsInv'
  <1>1. UNCHANGED stores
    BY DEF reread
  <1>2. \E status, sequence : Return(c, status, sequence) \/ Answer(c, status, sequence)
    BY DEF reread
  <1> QED
    BY <1>1, <1>2, ReturnStep

-----------------------------------------------------------------------------
(* The lexical index.                                                      *)

\* The catalog of the whole stream is one of a moment since any earlier one.
LEMMA CatalogNow ==
  ASSUME StoresSound, NEW since \in 0 .. Len(log)
  PROVE  CatalogSince(log, since, documents(log))
  <1>1. log \in Seq(Events) /\ Len(log) \in Nat /\ Before(log, Len(log)) = log
    BY BeforeWhole DEF StoresSound, Written
  <1>2. Len(log) \in since .. Len(log)
    BY <1>1
  <1> QED
    BY <1>1, <1>2 DEF CatalogSince

\* A catalog of a moment has rows, and its current rows are those current at
\* that moment.
LEMMA CatalogFacts ==
  ASSUME StoresSound, NEW since \in 0 .. Len(log), NEW rows, CatalogSince(log, since, rows)
  PROVE  /\ rows \subseteq [rev : Revisions, is_current : BOOLEAN]
         /\ \E n \in since .. Len(log) :
               {d.rev : d \in {x \in rows : x.is_current}} = CurrentOf(Before(log, n))
  <1>1. PICK n \in since .. Len(log) : rows = documents(Before(log, n))
    BY DEF CatalogSince
  <1>2. Written(blobs, log) /\ Len(log) \in Nat
    BY DEF StoresSound, Written
  <1>3. n \in 0 .. Len(log)
    BY <1>2
  <1>4. Written(blobs, Before(log, n))
    BY <1>2, <1>3, PrefixWritten
  <1>5. /\ documents(Before(log, n)) \subseteq [rev : Revisions, is_current : BOOLEAN]
        /\ {d.rev : d \in {x \in documents(Before(log, n)) : x.is_current}} =
              CurrentOf(Before(log, n))
    BY <1>4, DocumentsFacts
  <1> QED
    BY <1>1, <1>5

\* A call that fails leaves the stores.
LEMMA FailStep ==
  ASSUME MaterialsInv, NEW c \in Clients, UNCHANGED stores, Fail(c)
  PROVE  MaterialsInv'
  BY AnsweredStep DEF Fail

\* rebuild reads the catalog.
LEMMA ReadDocumentsStep ==
  ASSUME MaterialsInv, NEW c \in Clients, read_documents(c)
  PROVE  MaterialsInv'
  <1>1. StoresSound /\ CallsSound /\ UNCHANGED stores
    BY DEF MaterialsInv, read_documents
  <1>2. PICK k : k = client[c]
    OBVIOUS
  <1>3. k.pc = "documents" /\ CallShape(k) /\ CallSound(log, index, now, k)
        /\ k.op \in offered.ops \union {None}
    BY <1>1, <1>2, CallForm DEF read_documents
  <1>4. k.op = "rebuild" /\ k.since \in 0 .. Len(log)
    BY <1>3 DEF CallSound, RebuildPhase
  <1>5. PICK l : l = WithCatalog(k, "validate", documents(log))
    OBVIOUS
  <1>6. Becomes(c, l)
    BY <1>2, <1>5 DEF read_documents, WithCatalog
  <1>7. CallShape(l) /\ l.pc = "validate" /\ l.op = k.op /\ l.since = k.since
        /\ l.docs = documents(log)
    BY <1>3, <1>5, CatalogChanged, ChangedFacts DEF CallShape
  <1>8. RebuildPhase(log, l)
    BY <1>1, <1>4, <1>7, CatalogNow DEF RebuildPhase
  <1> QED
    BY <1>1, <1>3, <1>6, <1>7, <1>8, QuietStep DEF Sound, CallSound

\* rebuild validates the batch it will write.
LEMMA ValidateBatchStep ==
  ASSUME MaterialsInv, NEW c \in Clients, validate_batch(c)
  PROVE  MaterialsInv'
  <1>1. StoresSound /\ CallsSound /\ UNCHANGED stores
    BY DEF MaterialsInv, validate_batch
  <1>2. PICK k : k = client[c]
    OBVIOUS
  <1>3. k.pc = "validate" /\ CallShape(k) /\ CallSound(log, index, now, k)
        /\ k.op \in offered.ops \union {None}
    BY <1>1, <1>2, CallForm DEF validate_batch
  <1>4. k.op = "rebuild" /\ k.since \in 0 .. Len(log) /\ CatalogSince(log, k.since, k.docs)
    BY <1>3 DEF CallSound, RebuildPhase
  <1>5. CASE Fail(c)
    BY <1>1, <1>5, FailStep
  <1>6. CASE Goto(c, "write")
    <2>1. PICK l : l = InPhase(k, "write")
      OBVIOUS
    <2>2. Becomes(c, l)
      BY <1>2, <1>6, <2>1 DEF Goto, InPhase
    <2>3. CallShape(l) /\ l.pc = "write" /\ l.op = k.op /\ l.since = k.since /\ l.docs = k.docs
      BY <1>3, <2>1, InPhaseFacts
    <2>4. RebuildPhase(log, l)
      BY <1>4, <2>3 DEF RebuildPhase
    <2> QED
      BY <1>1, <1>3, <2>2, <2>3, <2>4, QuietStep DEF Sound, CallSound
  <1> QED
    BY <1>5, <1>6 DEF validate_batch

\* The rebuild writes the catalog it validated; other calls may notice.
LEMMA WriteBatchStep ==
  ASSUME MaterialsInv, NEW c \in Clients, write_batch(c)
  PROVE  MaterialsInv'
  <1>1. StoresSound /\ CallsSound /\ UNCHANGED <<log, blobs, files, now, offered>>
    BY DEF MaterialsInv, write_batch
  <1>2. PICK k : k = client[c]
    OBVIOUS
  <1>3. k.pc = "write" /\ CallShape(k) /\ CallSound(log, index, now, k)
        /\ k.op \in offered.ops \union {None}
    BY <1>1, <1>2, CallForm DEF write_batch
  <1>4. k.op = "rebuild" /\ k.since \in 0 .. Len(log) /\ CatalogSince(log, k.since, k.docs)
    BY <1>3 DEF CallSound, RebuildPhase
  <1>5. index' = k.docs /\ index' \subseteq [rev : Revisions, is_current : BOOLEAN]
    BY <1>1, <1>2, <1>4, CatalogFacts DEF write_batch
  <1>6. StoresSound'
    BY <1>1, <1>5 DEF StoresSound, FilesSound, FilesWithinLimits, Bytes, Stored
  <1>7. client' = [d \in Clients |-> IF d = c THEN InPhase(k, "audit") ELSE Disturbed(client[d])]
    BY <1>2 DEF write_batch, InPhase, Disturbed
  <1>8. PICK l : l = InPhase(k, "audit")
    OBVIOUS
  <1>9. CallShape(l) /\ l.pc = "audit" /\ l.op = k.op /\ l.since = k.since
    BY <1>3, <1>8, InPhaseFacts
  <1>10. AuditPhase(log, index', l)
    BY <1>4, <1>5, <1>9 DEF AuditPhase
  <1>11. CallSound(log, index', now, l)
    BY <1>9, <1>10 DEF CallSound
  <1>12. ASSUME NEW d \in Clients
         PROVE  CallSound(log', index', now', client'[d])
                /\ client'[d].op \in offered'.ops \union {None}
    <2>1. CASE d = c
      <3>1. client'[d] = l
        BY <1>7, <1>8, <2>1
      <3> QED
        BY <1>1, <1>3, <1>9, <1>11, <3>1
    <2>2. CASE d # c
      <3>1. client'[d] = Disturbed(client[d])
        BY <1>7, <2>2
      <3>2. CallSound(log, index, now, client[d]) /\ client[d].op \in offered.ops \union {None}
        BY <1>1, CallForm
      <3>3. CallSound(log, index', now, Disturbed(client[d]))
            /\ Disturbed(client[d]).op = client[d].op
        BY <3>2, CallDisturbed
      <3> QED
        BY <1>1, <3>1, <3>2, <3>3
    <2> QED
      BY <2>1, <2>2
  <1>13. client' = [d \in Clients |-> client'[d]]
    BY <1>7
  <1>14. CallsSound'
    BY <1>12, <1>13 DEF CallsSound
  <1> QED
    BY <1>6, <1>14 DEF MaterialsInv

\* The audit reads the catalog.
LEMMA AuditCatalogStep ==
  ASSUME MaterialsInv, NEW c \in Clients, audit_catalog(c)
  PROVE  MaterialsInv'
  <1>1. StoresSound /\ CallsSound /\ UNCHANGED stores
    BY DEF MaterialsInv, audit_catalog
  <1>2. PICK k : k = client[c]
    OBVIOUS
  <1>3. k.pc = "audit" /\ CallShape(k) /\ CallSound(log, index, now, k)
        /\ k.op \in offered.ops \union {None}
    BY <1>1, <1>2, CallForm DEF audit_catalog
  <1>4. /\ k.op \in {"rebuild", "search"} /\ k.since \in 0 .. Len(log)
        /\ k.op = "rebuild" /\ ~k.disturbed => CatalogSince(log, k.since, index)
    BY <1>3 DEF CallSound, AuditPhase
  <1>5. PICK l : l = WithCatalog(k, "metadata", documents(log))
    OBVIOUS
  <1>6. Becomes(c, l)
    BY <1>2, <1>5 DEF audit_catalog, WithCatalog
  <1>7. CallShape(l) /\ l.pc = "metadata" /\ l.op = k.op /\ l.since = k.since
        /\ l.docs = documents(log) /\ (l.disturbed <=> k.disturbed)
    BY <1>3, <1>5, CatalogChanged, ChangedFacts DEF CallShape
  <1>8. AuditPhase(log, index, l)
    BY <1>1, <1>4, <1>7, CatalogNow DEF AuditPhase
  <1> QED
    BY <1>1, <1>3, <1>6, <1>7, <1>8, QuietStep DEF Sound, CallSound

\* The audit compares the catalog with the rows of the index.
LEMMA AuditMetadataStep ==
  ASSUME MaterialsInv, NEW c \in Clients, audit_metadata(c)
  PROVE  MaterialsInv'
  <1>1. StoresSound /\ CallsSound /\ UNCHANGED stores
    BY DEF MaterialsInv, audit_metadata
  <1>2. PICK k : k = client[c]
    OBVIOUS
  <1>3. k.pc = "metadata" /\ CallShape(k) /\ CallSound(log, index, now, k)
        /\ k.op \in offered.ops \union {None}
    BY <1>1, <1>2, CallForm DEF audit_metadata
  <1>4. /\ k.op \in {"rebuild", "search"} /\ k.since \in 0 .. Len(log)
        /\ CatalogSince(log, k.since, k.docs)
    BY <1>3 DEF CallSound, AuditPhase
  <1>5. CASE Fail(c)
    BY <1>1, <1>5, FailStep
  <1>6. CASE index = k.docs
    <2>1. PICK flag \in BOOLEAN : flag = (k.disturbed /\ k.op = "rebuild")
      OBVIOUS
    <2>2. PICK m : m = InPhase(k, "fts")
      OBVIOUS
    <2>3. CallShape(m) /\ m.pc = "fts" /\ m.op = k.op /\ m.since = k.since /\ m.docs = k.docs
          /\ (m.disturbed <=> k.disturbed)
      BY <1>3, <2>2, InPhaseFacts
    <2>4. PICK l : l = [m EXCEPT !.disturbed = flag]
      OBVIOUS
    <2>5. l = Changed(m, m.pc, m.arg, m.sequence, m.current, m.event, m.docs, m.rows, flag)
      <3>1. m = [pc |-> m.pc, op |-> m.op, arg |-> m.arg, expected |-> m.expected,
                 sequence |-> m.sequence, current |-> m.current, event |-> m.event,
                 docs |-> m.docs, rows |-> m.rows, since |-> m.since, disturbed |-> m.disturbed]
        BY <2>3 DEF CallShape
      <3> QED
        BY <2>4, <3>1 DEF Changed
    <2>6. CallShape(l) /\ l.pc = "fts" /\ l.op = k.op /\ l.since = k.since /\ l.docs = k.docs
      BY <2>3, <2>5, ChangedFacts
    <2>7. AuditedPhase(log, index, l)
      BY <1>4, <1>6, <2>6 DEF AuditedPhase
    <2>8. Becomes(c, [InPhase(k, "fts") EXCEPT !.disturbed = k.disturbed /\ k.op = "rebuild"])
      BY <1>2, <1>6 DEF audit_metadata, InPhase
    <2>9. Becomes(c, l)
      BY <2>1, <2>2, <2>4, <2>8
    <2> QED
      BY <1>1, <1>3, <2>6, <2>7, <2>9, QuietStep DEF Sound, CallSound
  <1> QED
    BY <1>2, <1>5, <1>6 DEF audit_metadata

\* The audit compares the full-text table with the rows.
LEMMA AuditFtsStep ==
  ASSUME MaterialsInv, NEW c \in Clients, audit_fts(c)
  PROVE  MaterialsInv'
  <1>1. StoresSound /\ CallsSound /\ UNCHANGED stores
    BY DEF MaterialsInv, audit_fts
  <1>2. PICK k : k = client[c]
    OBVIOUS
  <1>3. k.pc = "fts" /\ CallShape(k) /\ CallSound(log, index, now, k)
        /\ k.op \in offered.ops \union {None}
    BY <1>1, <1>2, CallForm DEF audit_fts
  <1>4. /\ k.op \in {"rebuild", "search"} /\ k.since \in 0 .. Len(log)
        /\ CatalogSince(log, k.since, k.docs) /\ (~k.disturbed => index = k.docs)
    BY <1>3 DEF CallSound, AuditedPhase
  <1>5. CASE Fail(c)
    BY <1>1, <1>5, FailStep
  <1>6. ASSUME NEW pc, Goto(c, pc), pc = IF k.op = "rebuild" THEN "version" ELSE "query"
        PROVE  MaterialsInv'
    <2>1. PICK l : l = InPhase(k, pc)
      OBVIOUS
    <2>2. Becomes(c, l)
      BY <1>2, <1>6, <2>1 DEF Goto, InPhase
    <2>3. CallShape(l) /\ l.pc = pc /\ l.op = k.op /\ l.since = k.since /\ l.docs = k.docs
          /\ (l.disturbed <=> k.disturbed)
      BY <1>3, <2>1, InPhaseFacts
    <2>4. AuditedPhase(log, index, l)
      BY <1>4, <1>6, <2>3 DEF AuditedPhase
    <2>5. CallSound(log, index, now, l)
      BY <1>6, <2>3, <2>4 DEF CallSound
    <2> QED
      BY <1>1, <1>3, <2>2, <2>3, <2>5, QuietStep DEF Sound
  <1> QED
    BY <1>2, <1>5, <1>6 DEF audit_fts

\* search queries the rows the audit passed.
LEMMA QueryStep ==
  ASSUME MaterialsInv, NEW c \in Clients, query(c)
  PROVE  MaterialsInv'
  <1>1. StoresSound /\ CallsSound /\ UNCHANGED stores
    BY DEF MaterialsInv, query
  <1>2. PICK k : k = client[c]
    OBVIOUS
  <1>3. k.pc = "query" /\ CallShape(k) /\ CallSound(log, index, now, k)
        /\ k.op \in offered.ops \union {None}
    BY <1>1, <1>2, CallForm DEF query
  <1>4. /\ k.op = "search" /\ k.since \in 0 .. Len(log)
        /\ CatalogSince(log, k.since, k.docs) /\ (~k.disturbed => index = k.docs)
    BY <1>3 DEF CallSound, AuditedPhase
  <1>5. PICK rows : rows = {d.rev : d \in {x \in index : x.is_current}}
    OBVIOUS
  <1>6. PICK l : l = WithRows(k, "resolve", rows)
    OBVIOUS
  <1>7. Becomes(c, l)
    BY <1>2, <1>5, <1>6 DEF query, WithRows
  <1>8. CallShape(l) /\ l.pc = "resolve" /\ l.op = k.op /\ l.since = k.since /\ l.rows = rows
        /\ (l.disturbed <=> k.disturbed)
    BY <1>3, <1>6, RowsChanged, ChangedFacts DEF CallShape
  <1>9. ASSUME ~k.disturbed
        PROVE  \E n \in k.since .. Len(log) : rows = CurrentOf(Before(log, n))
    BY <1>1, <1>4, <1>5, <1>9, CatalogFacts
  <1>10. ResolvePhase(log, l)
    BY <1>4, <1>8, <1>9 DEF ResolvePhase
  <1> QED
    BY <1>1, <1>3, <1>7, <1>8, <1>10, QuietStep DEF Sound, CallSound

\* A receipt and the evidence end their calls.
LEMMA IndexedStep ==
  ASSUME MaterialsInv, NEW c \in Clients, current_index_version(c)
  PROVE  MaterialsInv'
  <1>1. UNCHANGED stores /\ \E a : Becomes(c, Idle(a))
    BY DEF current_index_version
  <1> QED
    BY <1>1, AnsweredStep

\* search resolves the rows against the stream.
LEMMA ResolveStep ==
  ASSUME MaterialsInv, NEW c \in Clients, resolve(c)
  PROVE  MaterialsInv'
  <1>1. UNCHANGED stores /\ \E a : Becomes(c, Idle(a))
    BY DEF resolve, Fail
  <1> QED
    BY <1>1, AnsweredStep

-----------------------------------------------------------------------------
(* Host files.                                                             *)

\* capture reads the clock, within the limits of the store.
LEMMA CaptureStep ==
  ASSUME MaterialsInv, NEW c \in Clients, capture(c)
  PROVE  MaterialsInv'
  <1>1. StoresSound /\ CallsSound /\ UNCHANGED stores
    BY DEF MaterialsInv, capture
  <1>2. PICK k : k = client[c]
    OBVIOUS
  <1>3. k.pc = "capture" /\ CallShape(k) /\ CallSound(log, index, now, k)
        /\ k.op \in offered.ops \union {None}
    BY <1>1, <1>2, CallForm DEF capture
  <1>4. k.arg \in FileIds
    BY <1>3 DEF CallSound, FilePhase
  <1>5. CASE \E status, sequence : Return(c, status, sequence)
    BY <1>1, <1>5, ReturnStep
  <1>6. CASE Becomes(c, WithSequence(k, "create", now))
    <2>1. PICK l : l = WithSequence(k, "create", now)
      OBVIOUS
    <2>2. CallShape(l) /\ l.pc = "create" /\ l.op = k.op /\ l.arg = k.arg /\ l.sequence = now
      BY <1>3, <2>1, SequenceChanged, ChangedFacts DEF CallShape
    <2>3. now \in 0 .. now
      BY <1>1 DEF StoresSound
    <2>4. FilePhase(now, l)
      BY <1>4, <2>2, <2>3 DEF FilePhase
    <2> QED
      BY <1>1, <1>3, <1>6, <2>1, <2>2, <2>4, QuietStep DEF Sound, CallSound
  <1> QED
    BY <1>2, <1>5, <1>6 DEF capture, WithSequence

\* A file more counts with its bytes.
LEMMA FileAdded ==
  ASSUME FilesSound, now \in Nat, NEW id \in FileIds, id \notin DOMAIN files,
         WithinLimits(SizeOf[id.text]), NEW at \in 0 .. now,
         files' = [x \in DOMAIN files \union {id} |->
                      IF x = id THEN HostFileSnapshot(at) ELSE files[x]],
         now' = now
  PROVE  FilesSound'
  <1>1. /\ DOMAIN files' = {id} \union DOMAIN files
        /\ files'[id] = HostFileSnapshot(at)
        /\ \A x \in DOMAIN files : files'[x] = files[x]
        /\ files' = [x \in DOMAIN files' |-> files'[x]]
    OBVIOUS
  <1>2. files'[id].captured_at = at
    BY <1>1 DEF HostFileSnapshot
  <1>3. IsFiniteSet(DOMAIN files') /\ Cardinality(DOMAIN files') = Cardinality(DOMAIN files) + 1
    BY <1>1, FS_AddElement DEF FilesSound
  <1>4. SizeOf[id.text] \in Nat
    BY LimitsAssumption DEF FileIds
  <1> DEFINE own == {id} \X (1 .. SizeOf[id.text])
  <1>5. IsFiniteSet(own) /\ Cardinality(own) = SizeOf[id.text]
    <2>1. PICK one : one = {id}
      OBVIOUS
    <2>2. IsFiniteSet(one) /\ Cardinality(one) = 1
      BY <2>1, FS_Singleton
    <2>3. PICK n \in Nat : n = SizeOf[id.text]
      BY <1>4
    <2>4. IsFiniteSet(1 .. n) /\ Cardinality(1 .. n) = IF 1 > n THEN 0 ELSE n - 1 + 1
      BY FS_Interval
    <2>5. PICK part : part = 1 .. n
      OBVIOUS
    <2>6. IsFiniteSet(part) /\ Cardinality(part) = n
      BY <2>4, <2>5
    <2>7. IsFiniteSet(one \X part) /\ Cardinality(one \X part) = Cardinality(one) * Cardinality(part)
      BY <2>2, <2>6, FS_Product
    <2>8. 1 * n = n
      OBVIOUS
    <2> QED
      BY <2>1, <2>2, <2>3, <2>5, <2>6, <2>7, <2>8
  <1>6. Stored(files') = Stored(files) \union own
    BY <1>1 DEF Stored
  <1>7. Stored(files) \cap own = {}
    BY DEF Stored
  <1> HIDE DEF own
  <1>8. IsFiniteSet(Stored(files')) /\ Cardinality(Stored(files')) =
           Cardinality(Stored(files)) + SizeOf[id.text]
    <2>1. IsFiniteSet(Stored(files)) /\ Cardinality(Stored(files)) \in Nat
      BY FS_CardinalityType DEF FilesSound
    <2>2. IsFiniteSet(Stored(files) \union own) /\ Cardinality(Stored(files) \union own) =
             Cardinality(Stored(files)) + Cardinality(own) - Cardinality(Stored(files) \cap own)
      BY <1>5, <2>1, FS_Union
    <2>3. Cardinality(Stored(files) \cap own) = 0
      BY <1>7, FS_EmptySet
    <2>4. \A m, n \in Nat : m + n - 0 = m + n
      OBVIOUS
    <2>5. Cardinality(Stored(files) \union own) = Cardinality(Stored(files)) + SizeOf[id.text]
      BY <1>4, <1>5, <2>1, <2>2, <2>3, <2>4
    <2> QED
      BY <1>6, <2>2, <2>5, Zenon
  <1>9. Bytes(files') = Cardinality(Stored(files')) /\ Bytes(files) = Cardinality(Stored(files))
    BY DEF Bytes, Stored
  <1>10. Cardinality(DOMAIN files) \in Nat
    BY FS_CardinalityType DEF FilesSound
  <1>11. FilesWithinLimits'
    BY <1>3, <1>8, <1>9, <1>10, LimitsAssumption DEF FilesWithinLimits, WithinLimits
  <1>12. DOMAIN files' \subseteq FileIds
    BY <1>1 DEF FilesSound
  <1>13. \A x \in DOMAIN files' : files'[x].captured_at \in 0 .. now'
    BY <1>1, <1>2 DEF FilesSound
  <1> QED
    BY <1>1, <1>3, <1>8, <1>11, <1>12, <1>13 DEF FilesSound

\* create stores the file unless another client did.
LEMMA CreateStep ==
  ASSUME MaterialsInv, NEW c \in Clients, create(c)
  PROVE  MaterialsInv'
  <1>1. StoresSound /\ CallsSound /\ UNCHANGED <<log, blobs, index, now, offered>>
    BY DEF MaterialsInv, create
  <1>2. PICK k : k = client[c]
    OBVIOUS
  <1>3. k.pc = "create" /\ CallSound(log, index, now, k)
    BY <1>1, <1>2, CallForm DEF create
  <1>4. k.arg \in FileIds /\ k.sequence \in 0 .. now /\ now \in Nat
    BY <1>1, <1>3 DEF CallSound, FilePhase, StoresSound
  <1>5. CASE UNCHANGED files /\ \E status, sequence : Return(c, status, sequence)
    BY <1>1, <1>5, ReturnStep DEF stores
  <1>6. CASE /\ k.arg \notin DOMAIN files /\ WithinLimits(SizeOf[k.arg.text])
             /\ files' = [x \in DOMAIN files \union {k.arg} |->
                             IF x = k.arg THEN HostFileSnapshot(k.sequence) ELSE files[x]]
             /\ Return(c, "captured", 0)
    <2>1. FilesSound'
      BY <1>1, <1>4, <1>6, FileAdded DEF StoresSound
    <2>2. StoresSound'
      BY <1>1, <2>1 DEF StoresSound
    <2>3. PICK a : Becomes(c, Idle(a))
      BY <1>6, ReturnMoves
    <2>4. CallSound(log', index', now', Idle(a)) /\ Idle(a).op \in offered.ops \union {None}
      BY IdleFacts DEF Sound, CallSound
    <2>5. now' \in Nat /\ now <= now' /\ Grown(log, log')
      BY <1>1, <1>4 DEF Grown
    <2>6. CallsSound'
      BY <1>1, <2>3, <2>4, <2>5, CallsKept
    <2> QED
      BY <2>2, <2>6 DEF MaterialsInv
  <1> QED
    BY <1>2, <1>5, <1>6 DEF create

\* lookup finds the file of an identity.
LEMMA LookupStep ==
  ASSUME MaterialsInv, NEW c \in Clients, lookup(c)
  PROVE  MaterialsInv'
  <1>1. UNCHANGED stores /\ \E status : Return(c, status, 0)
    BY DEF lookup
  <1> QED
    BY <1>1, ReturnStep

\* A verified file becomes a request of ingestion.
LEMMA IngestFileStep ==
  ASSUME MaterialsInv, NEW c \in Clients, ingest_file(c)
  PROVE  MaterialsInv'
  <1>1. StoresSound /\ CallsSound /\ UNCHANGED stores
    BY DEF MaterialsInv, ingest_file
  <1>2. PICK k : k = client[c]
    OBVIOUS
  <1>3. k.pc = "verified" /\ CallShape(k) /\ CallSound(log, index, now, k)
        /\ k.op \in offered.ops \union {None}
    BY <1>1, <1>2, CallForm DEF ingest_file
  <1>4. k.op = "file_ingest" /\ k.arg.source \in Sources /\ k.arg.title \in Titles
        /\ k.arg.file.text \in Texts
    BY <1>3 DEF CallSound, FilePhase
  <1>5. CASE Return(c, "refused", 0)
    BY <1>1, <1>5, ReturnStep
  <1>6. PICK arg : arg = [source |-> k.arg.source, text |-> k.arg.file.text, title |-> k.arg.title]
    OBVIOUS
  <1>7. CASE Becomes(c, WithArgument(k, "ingest", arg))
    <2>1. PICK l : l = WithArgument(k, "ingest", arg)
      OBVIOUS
    <2>2. CallShape(l) /\ l.pc = "ingest" /\ l.op = k.op /\ l.arg = arg
      BY <1>3, <2>1, ArgumentChanged, ChangedFacts DEF CallShape
    <2>3. arg \in Requests
      BY <1>4, <1>6 DEF Requests
    <2>4. IngestPhase(log, l)
      BY <1>4, <2>2, <2>3 DEF IngestPhase, IngestOps
    <2> QED
      BY <1>1, <1>3, <1>7, <2>1, <2>2, <2>4, QuietStep DEF Sound, CallSound
  <1>8. Return(c, "refused", 0) \/ Becomes(c, WithArgument(k, "ingest", arg))
    BY <1>2, <1>6 DEF ingest_file, WithArgument
  <1> QED
    BY <1>5, <1>7, <1>8

\* A crash ends the call and leaves the stores.
LEMMA CrashStep ==
  ASSUME MaterialsInv, NEW c \in Clients, crash(c)
  PROVE  MaterialsInv'
  BY ReturnStep DEF crash

\* Time passes.
LEMMA TickStep ==
  ASSUME MaterialsInv, tick
  PROVE  MaterialsInv'
  <1>1. StoresSound /\ CallsSound /\ UNCHANGED <<log, blobs, index, files, client, offered>>
    BY DEF MaterialsInv, tick
  <1>2. now \in Nat /\ now' = now + 1 /\ log \in Seq(Events)
    BY <1>1 DEF StoresSound, Written, tick
  <1>3. StoresSound'
    BY <1>1, <1>2 DEF StoresSound, FilesSound, FilesWithinLimits, Bytes, Stored
  <1>4. ASSUME NEW d \in Clients
        PROVE  CallSound(log', index', now', client'[d])
               /\ client'[d].op \in offered'.ops \union {None}
    <2>1. CallSound(log, index, now, client[d]) /\ client[d].op \in offered.ops \union {None}
      BY <1>1, CallForm
    <2>2. Grown(log, log') /\ now' \in Nat /\ now <= now'
      BY <1>1, <1>2 DEF Grown
    <2>3. CallSound(log', index, now', client[d])
      BY <1>2, <2>1, <2>2, CallKept
    <2> QED
      BY <1>1, <2>1, <2>3
  <1> QED
    BY <1>1, <1>3, <1>4 DEF MaterialsInv, CallsSound

-----------------------------------------------------------------------------
(* The invariant, and what it says of the sources.                         *)

\* Every step keeps the invariant.
LEMMA NextSound ==
  ASSUME MaterialsInv, [Next]_vars
  PROVE  MaterialsInv'
  <1>1. CASE tick
    BY <1>1, TickStep
  <1>2. ASSUME NEW c \in Clients, Step(c) PROVE MaterialsInv'
    <2>1. CASE call(c)
      BY <2>1, CallStep
    <2>2. CASE ingest(c) \/ unchanged(c) \/ _write_expected_blob(c)
      BY <2>2, IngestStep, UnchangedStep, WriteExpectedBlobStep
    <2>3. CASE produce(c) \/ put_substrate(c) \/ find_production(c) \/ declare(c)
      BY <2>3, ProduceStep, PutSubstrateStep, FindProductionStep, DeclareStep
    <2>4. CASE append(c) \/ reread(c)
      BY <2>4, AppendStep, RereadStep
    <2>5. CASE read_documents(c) \/ validate_batch(c) \/ write_batch(c) \/ audit_catalog(c)
      BY <2>5, ReadDocumentsStep, ValidateBatchStep, WriteBatchStep, AuditCatalogStep
    <2>6. CASE audit_metadata(c) \/ audit_fts(c) \/ current_index_version(c)
      BY <2>6, AuditMetadataStep, AuditFtsStep, IndexedStep
    <2>7. CASE query(c) \/ resolve(c)
      BY <2>7, QueryStep, ResolveStep
    <2>8. CASE capture(c) \/ create(c) \/ lookup(c) \/ ingest_file(c) \/ crash(c)
      BY <2>8, CaptureStep, CreateStep, LookupStep, IngestFileStep, CrashStep
    <2> QED
      BY <1>2, <2>1, <2>2, <2>3, <2>4, <2>5, <2>6, <2>7, <2>8, Zenon DEF Step
  <1>3. CASE UNCHANGED vars
    <2>1. StoresSound /\ CallsSound
      BY DEF MaterialsInv
    <2>2. StoresSound'
      BY <1>3, <2>1, StoresKept DEF vars, stores
    <2>3. CallsSound'
      BY <1>3, <2>1 DEF CallsSound, vars
    <2> QED
      BY <2>2, <2>3 DEF MaterialsInv
  <1> QED
    BY <1>1, <1>2, <1>3 DEF Next

\* The stores and what every call knows of them, in every state.
THEOREM MaterialsHold == Spec => []MaterialsInv
  <1>1. Init => MaterialsInv
    BY InitSound
  <1>2. MaterialsInv /\ [Next]_vars => MaterialsInv'
    BY NextSound
  <1> QED
    BY <1>1, <1>2, PTL DEF Spec

\* The lineage of a source marks its current revision and no other.
LEMMA EligibleFacts ==
  ASSUME NEW P, NEW s \in Sources, P.history \in [Sources -> Seq(Revisions)],
         P.current[s] \in ToSet(P.history[s]) \union {None}
  PROVE  eligible_revision_ids(P, s) = {P.current[s]} \ {None}
  <1> DEFINE lineage == source_lineage(P, s)
             entry(i) == [rev |-> P.history[s][i], current |-> P.current[s] = P.history[s][i],
                          successor |-> successor_of(P, P.history[s][i])]
  <1>1. lineage = [i \in DOMAIN P.history[s] |-> entry(i)]
    BY DEF source_lineage
  <1>2. \A i \in DOMAIN P.history[s] : P.history[s][i] \in Revisions
    OBVIOUS
  <1>3. \A i : /\ entry(i).rev = P.history[s][i]
               /\ entry(i).current <=> P.current[s] = P.history[s][i]
    OBVIOUS
  <1>4. eligible_revision_ids(P, s) = {x.rev : x \in {y \in ToSet(lineage) : y.current}}
    BY DEF eligible_revision_ids
  <1> HIDE DEF entry
  <1>5. ToSet(lineage) = {entry(i) : i \in DOMAIN P.history[s]}
    BY <1>1 DEF ToSet
  <1> HIDE DEF lineage
  <1>6. ASSUME NEW r \in eligible_revision_ids(P, s) PROVE r = P.current[s] /\ r # None
    <2>1. PICK x \in ToSet(lineage) : x.current /\ r = x.rev
      BY <1>4
    <2>2. PICK i \in DOMAIN P.history[s] : x = entry(i)
      BY <1>5
    <2>3. r = P.history[s][i] /\ P.current[s] = P.history[s][i]
      <3>1. entry(i).current /\ r = entry(i).rev
        BY <2>1, <2>2, Zenon
      <3> QED
        BY <1>3, <3>1
    <2> QED
      BY <1>2, <2>3, NoneAssumption
  <1>7. ASSUME P.current[s] # None PROVE P.current[s] \in eligible_revision_ids(P, s)
    <2>1. PICK i \in DOMAIN P.history[s] : P.current[s] = P.history[s][i]
      BY <1>7 DEF ToSet
    <2>2. entry(i).current /\ entry(i).rev = P.current[s] /\ entry(i) \in ToSet(lineage)
      BY <1>3, <1>5, <2>1
    <2> QED
      BY <1>4, <2>2
  <1> QED
    BY <1>6, <1>7

\* The invariant says of the sources what SourcesAreSound does.
LEMMA SoundSources ==
  ASSUME MaterialsInv
  PROVE  SourcesAreSound
  <1>1. StoresSound /\ CallsSound /\ Written(blobs, log)
    BY DEF MaterialsInv, StoresSound
  <1>2. TypeOK
    BY <1>1 DEF TypeOK, StoresSound, FilesSound, CallsSound, Written
  <1>3. CommittedIsReplayable /\ FilesWithinLimits
    BY <1>1 DEF CommittedIsReplayable, Written, StoresSound, FilesSound
  <1>4. Recounts(Project(log), log)
    <2>1. Len(log) \in 0 .. Len(log) /\ Before(log, Len(log)) = log
      BY <1>1, BeforeWhole DEF Written
    <2> QED
      BY <1>1, <2>1, WrittenRecounts
  <1>5. ReadersAgree
    <2> SUFFICES ASSUME NEW s \in Sources
                 PROVE  /\ Project(log).current[s] = _current_revision(log, s)
                        /\ Project(log).current[s] = _decode(log).current[s]
                        /\ eligible_revision_ids(Project(log), s) = {Project(log).current[s]} \ {None}
      BY DEF ReadersAgree
    <2>1. Project(log).current[s] = _current_revision(log, s)
      BY <1>4 DEF Recounts
    <2>2. _decode(log).current[s] = _current_revision(log, s)
      BY <1>1, DecodeFacts
    <2>3. eligible_revision_ids(Project(log), s) = {Project(log).current[s]} \ {None}
      BY <1>4, EligibleFacts DEF Recounts
    <2> QED
      BY <2>1, <2>2, <2>3
  <1>6. SuccessionsAreForest
    BY <1>4 DEF Recounts, SuccessionsAreForest
  <1> QED
    BY <1>2, <1>3, <1>5, <1>6 DEF SourcesAreSound

\* Whatever calls race, fail or die between their writes: every committed event
\* replays from the published blobs, the readers of the stream agree on the
\* current revisions, the successions are a forest and the host files stay
\* within their limits.
THEOREM SourcesHold == Spec => []SourcesAreSound
  <1>1. MaterialsInv => SourcesAreSound
    BY SoundSources
  <1> QED
    BY <1>1, MaterialsHold, PTL

-----------------------------------------------------------------------------
(* What the answers say.                                                   *)

\* Each kind of answer, as the step that gives it leaves the stream.
IngestTells(a) ==
    a.status \in {"emitted", "idempotent"} /\ "rev" \in DOMAIN a =>
       /\ _current_revision(SubSeq(log', 1, a.sequence), a.rev.source) = a.rev
       /\ a.expected # None =>
             a.sequence = a.expected + (IF a.status = "emitted" THEN 1 ELSE 0)

SearchTells(a) ==
    a.status = "evidence" =>
       /\ a.rows \subseteq _decode(log).seen
       /\ ~a.disturbed => \E n \in a.sequence .. Len(log) : a.rows = CurrentAt(n)

RebuildTells(a) ==
    /\ a.status = "failed" /\ "op" \in DOMAIN a /\ a.op = "rebuild" =>
          a.sequence < Len(log) \/ a.disturbed
    /\ a.status = "indexed" /\ ~a.disturbed => a.index_version = a.catalog

Tells(a) == IngestTells(a) /\ SearchTells(a) /\ RebuildTells(a)

\* An answer given by this step, if any, is true.
Told(c) == Answered(c) => Tells(client'[c].arg)

\* A step that moves one call answers truly if that call's answer is true.
LEMMA BecomesTells ==
  ASSUME CallsSound, NEW c \in Clients, NEW l, Becomes(c, l),
         client[c].pc # "idle" /\ l.pc = "idle" => Tells(l.arg)
  PROVE  \A d \in Clients : Told(d)
  <1>1. client' = [d \in Clients |-> IF d = c THEN l ELSE client[d]]
    BY CallForm DEF Becomes
  <1> SUFFICES ASSUME NEW d \in Clients, Answered(d) PROVE Tells(client'[d].arg)
    BY DEF Told
  <1>2. client[d].pc # "idle" /\ client'[d].pc = "idle"
    BY DEF Answered
  <1>3. CASE d = c
    <2>1. client'[d] = l
      BY <1>1, <1>3
    <2>2. Tells(l.arg)
      BY <1>2, <1>3, <2>1
    <2> QED
      BY <2>1, <2>2
  <1>4. CASE d # c
    BY <1>1, <1>2, <1>4
  <1> QED
    BY <1>3, <1>4

\* An answer that is neither evidence nor an index tells nothing of the stores.
LEMMA ResultTells ==
  ASSUME NEW status, NEW sequence, status \notin {"evidence", "indexed"}
  PROVE  Tells(Result(status, sequence))
  <1>1. PICK a : a = Result(status, sequence)
    OBVIOUS
  <1>2. a.status = status /\ "rev" \notin DOMAIN a /\ "op" \notin DOMAIN a
    BY <1>1 DEF Result
  <1> QED
    BY <1>1, <1>2 DEF Tells, IngestTells, SearchTells, RebuildTells

\* A call that returns such an answer.
LEMMA ReturnTells ==
  ASSUME CallsSound, NEW c \in Clients, NEW status, NEW sequence, Return(c, status, sequence),
         status \notin {"evidence", "indexed"}
  PROVE  \A d \in Clients : Told(d)
  <1>1. PICK a : a = Result(status, sequence)
    OBVIOUS
  <1>2. Becomes(c, Idle(a)) /\ Tells(a)
    BY <1>1, ReturnMoves, ResultTells
  <1>3. Idle(a).arg = a
    BY IdleFacts
  <1> QED
    BY <1>2, <1>3, BecomesTells

\* An answer of a writer is true if what it says of the requested revision is.
LEMMA AnswerTells ==
  ASSUME CallsSound, NEW c \in Clients, NEW status \in {"emitted", "idempotent"}, NEW sequence,
         Answer(c, status, sequence),
         client[c].op \in IngestOps =>
            /\ _current_revision(SubSeq(log', 1, sequence), client[c].arg.source) = client[c].arg
            /\ client[c].expected # None =>
                  sequence = client[c].expected + (IF status = "emitted" THEN 1 ELSE 0)
  PROVE  \A d \in Clients : Told(d)
  <1>1. PICK a : a = IF client[c].op \in IngestOps
                     THEN [status |-> status, sequence |-> sequence,
                           rev |-> client[c].arg, expected |-> client[c].expected]
                     ELSE Result(status, sequence)
    OBVIOUS
  <1>2. Becomes(c, Idle(a))
    BY <1>1, AnswerMoves
  <1>3. Tells(a)
    <2>1. CASE client[c].op \in IngestOps
      <3>1. a = [status |-> status, sequence |-> sequence,
                 rev |-> client[c].arg, expected |-> client[c].expected]
        BY <1>1, <2>1
      <3>2. /\ a.status = status /\ a.sequence = sequence /\ a.rev = client[c].arg
            /\ a.expected = client[c].expected /\ "op" \notin DOMAIN a
        BY <3>1
      <3>3. IngestTells(a)
        BY <2>1, <3>2 DEF IngestTells
      <3> QED
        BY <3>2, <3>3 DEF Tells, SearchTells, RebuildTells
    <2>2. CASE client[c].op \notin IngestOps
      BY <1>1, <2>2, ResultTells
    <2> QED
      BY <2>1, <2>2
  <1>4. Idle(a).arg = a
    BY IdleFacts
  <1> QED
    BY <1>2, <1>3, <1>4, BecomesTells

\* The program counter of a call that moved on.
LEMMA PhasePcs ==
  ASSUME NEW k, CallShape(k)
  PROVE  /\ \A pc : InPhase(k, pc).pc = pc
         /\ \A pc, sequence : WithSequence(k, pc, sequence).pc = pc
         /\ \A pc, event : WithEvent(k, pc, event).pc = pc
         /\ \A pc, docs : WithCatalog(k, pc, docs).pc = pc
         /\ \A pc, rows : WithRows(k, pc, rows).pc = pc
         /\ \A pc, arg : WithArgument(k, pc, arg).pc = pc
         /\ \A pc, sequence, event : WithSequenceEvent(k, pc, sequence, event).pc = pc
         /\ \A pc, sequence, event, current :
               WithDecision(k, pc, sequence, event, current).pc = pc
  <1>1. \A pc : InPhase(k, pc).pc = pc
    BY PhaseChanged DEF Changed
  <1>2. \A pc, sequence : WithSequence(k, pc, sequence).pc = pc
    BY SequenceChanged DEF Changed
  <1>3. \A pc, event : WithEvent(k, pc, event).pc = pc
    BY EventChanged DEF Changed
  <1>4. \A pc, docs : WithCatalog(k, pc, docs).pc = pc
    BY CatalogChanged DEF Changed
  <1>5. \A pc, rows : WithRows(k, pc, rows).pc = pc
    BY RowsChanged DEF Changed
  <1>6. \A pc, arg : WithArgument(k, pc, arg).pc = pc
    BY ArgumentChanged DEF Changed
  <1>7. \A pc, sequence, event : WithSequenceEvent(k, pc, sequence, event).pc = pc
    BY SequenceEventChanged DEF Changed
  <1>8. \A pc, sequence, event, current : WithDecision(k, pc, sequence, event, current).pc = pc
    BY DecisionChanged DEF Changed
  <1> QED
    BY <1>1, <1>2, <1>3, <1>4, <1>5, <1>6, <1>7, <1>8

\* A step that answers nobody.
LEMMA QuietTells ==
  ASSUME CallsSound, NEW c \in Clients, NEW l, Becomes(c, l), l.pc # "idle"
  PROVE  \A d \in Clients : Told(d)
  BY BecomesTells

\* The answers of ingestion.
LEMMA IngestStepTells ==
  ASSUME MaterialsInv, NEW c \in Clients, ingest(c)
  PROVE  \A d \in Clients : Told(d)
  <1>1. StoresSound /\ CallsSound /\ UNCHANGED stores
    BY DEF MaterialsInv, ingest
  <1>2. PICK k : k = client[c]
    OBVIOUS
  <1>3. CallShape(k)
    BY <1>1, <1>2, CallForm
  <1>4. SubSeq(log', 1, Len(log)) = log
    BY <1>1, BeforeWhole DEF StoresSound, Written, stores, Before
  <1>5. CASE Return(c, "retry", Len(log)) \/ Return(c, "invalid", Len(log))
    BY <1>1, <1>5, ReturnTells
  <1>6. CASE /\ _current_revision(log, k.arg.source) = k.arg /\ k.expected = None
             /\ Answer(c, "idempotent", Len(log))
    BY <1>1, <1>2, <1>4, <1>6, AnswerTells
  <1>7. ASSUME NEW pc \in {"unchanged", "append", "original"}, NEW event,
               Becomes(c, WithDecision(k, pc, Len(log), event, _current_revision(log, k.arg.source)))
        PROVE  \A d \in Clients : Told(d)
    <2>1. WithDecision(k, pc, Len(log), event, _current_revision(log, k.arg.source)).pc = pc
      BY <1>3, PhasePcs
    <2> QED
      BY <1>1, <1>7, <2>1, QuietTells
  <1> DEFINE current == _current_revision(log, k.arg.source)
             at(pc, e) == WithDecision(k, pc, Len(log), e, current)
  <1>8. \/ Return(c, "retry", Len(log)) \/ Return(c, "invalid", Len(log))
        \/ current = k.arg /\ k.expected = None /\ Answer(c, "idempotent", Len(log))
        \/ Becomes(c, at("unchanged", None)) \/ Becomes(c, at("append", Selected(k.arg)))
        \/ Becomes(c, at("original", Ingested(k.arg)))
    <2>1. CASE current = k.arg /\ k.expected = None
      BY <1>2, <2>1 DEF ingest, WithDecision
    <2>2. CASE current = k.arg /\ k.expected # None
      BY <1>2, <2>2 DEF ingest, WithDecision
    <2>3. CASE current # k.arg /\ _find_matching_revision(log, k.arg)
      BY <1>2, <2>3 DEF ingest, WithDecision, _find_matching_revision
    <2>4. CASE current # k.arg /\ ~_find_matching_revision(log, k.arg)
      BY <1>2, <2>4 DEF ingest, WithDecision, _find_matching_revision
    <2> QED
      BY <2>1, <2>2, <2>3, <2>4
  <1> QED
    BY <1>5, <1>6, <1>7, <1>8

\* The unchanged revision is current at the sequence the answer names.
LEMMA UnchangedStepTells ==
  ASSUME MaterialsInv, NEW c \in Clients, unchanged(c)
  PROVE  \A d \in Clients : Told(d)
  <1>1. StoresSound /\ CallsSound /\ UNCHANGED stores
    BY DEF MaterialsInv, unchanged
  <1>2. PICK k : k = client[c]
    OBVIOUS
  <1>3. k.pc = "unchanged" /\ CallSound(log, index, now, k)
    BY <1>1, <1>2, CallForm DEF unchanged
  <1>4. k.expected = k.sequence /\ _current_revision(Before(log, k.sequence), k.arg.source) = k.arg
        /\ k.sequence \in 0 .. Len(log)
    BY <1>3 DEF CallSound, IngestPhase
  <1>5. CASE Return(c, "retry", Len(log))
    BY <1>1, <1>5, ReturnTells
  <1>6. CASE Answer(c, "idempotent", k.sequence)
    <2>1. log' = log /\ k.sequence + 0 = k.sequence
      BY <1>1, <1>4 DEF stores, StoresSound, Written
    <2> QED
      BY <1>1, <1>2, <1>4, <1>6, <2>1, AnswerTells DEF Before
  <1> QED
    BY <1>2, <1>5, <1>6 DEF unchanged

\* The answer of an append names the revision current at the event it wrote; a
\* position the caller expected is the one just before.
LEMMA AppendStepTells ==
  ASSUME MaterialsInv, NEW c \in Clients, append(c)
  PROVE  \A d \in Clients : Told(d)
  <1>1. StoresSound /\ CallsSound
    BY DEF MaterialsInv
  <1>2. PICK k : k = client[c]
    OBVIOUS
  <1>3. k.pc = "append" /\ CallShape(k) /\ CallSound(log, index, now, k)
    BY <1>1, <1>2, CallForm DEF append
  <1>4. /\ k.sequence \in 0 .. Len(log) /\ k.event \in Events
        /\ k.op \in IngestOps => /\ k.arg \in Revisions
                                 /\ k.event \in {Ingested(k.arg), Selected(k.arg)}
                                 /\ k.expected \in {None, k.sequence}
    BY <1>3 DEF CallSound, AppendPhase
  <1>5. CASE Goto(c, "reread")
    <2>1. InPhase(k, "reread").pc = "reread"
      BY <1>3, PhasePcs
    <2>2. Becomes(c, InPhase(k, "reread"))
      BY <1>2, <1>5 DEF Goto, InPhase
    <2> QED
      BY <1>1, <2>1, <2>2, QuietTells
  <1>6. CASE Return(c, "rejected", Len(log))
    BY <1>1, <1>6, ReturnTells
  <1>7. CASE /\ Len(log) = k.sequence /\ log' = Append(log, k.event)
             /\ Answer(c, "emitted", k.sequence + 1)
    <2>1. log \in Seq(Events) /\ Len(log) \in Nat
      BY <1>1 DEF StoresSound, Written
    <2>2. log' \in Seq(Events) /\ Len(log') = k.sequence + 1
      BY <1>4, <1>7, <2>1, AppendFacts
    <2>3. SubSeq(log', 1, k.sequence + 1) = log'
      BY <2>2, BeforeWhole DEF Before
    <2>4. ASSUME k.op \in IngestOps PROVE _current_revision(log', k.arg.source) = k.arg
      <3>1. k.event.type \in {"ingested", "selected"} /\ k.event.rev = k.arg
        BY <1>4, <2>4 DEF Ingested, Selected
      <3> QED
        BY <1>4, <1>7, <2>1, <3>1, CurrentAfterAppend
    <2>5. k.op \in IngestOps /\ k.expected # None => k.sequence + 1 = k.expected + 1
      BY <1>4
    <2> QED
      BY <1>1, <1>2, <1>7, <2>3, <2>4, <2>5, AnswerTells
  <1> QED
    BY <1>2, <1>5, <1>6, <1>7 DEF append

\* The answer read again after a lost append holds at the sequence it names.
LEMMA RereadStepTells ==
  ASSUME MaterialsInv, NEW c \in Clients, reread(c)
  PROVE  \A d \in Clients : Told(d)
  <1>1. StoresSound /\ CallsSound /\ UNCHANGED stores
    BY DEF MaterialsInv, reread
  <1>2. PICK k : k = client[c]
    OBVIOUS
  <1>3. CASE Return(c, "retry", Len(log))
    BY <1>1, <1>3, ReturnTells
  <1>4. CASE /\ k.expected = None /\ Answer(c, "idempotent", Len(log))
             /\ \/ k.op \in IngestOps /\ _current_revision(log, k.arg.source) = k.arg
                \/ k.op = "produce"
    <2>1. SubSeq(log', 1, Len(log)) = log
      BY <1>1, BeforeWhole DEF StoresSound, Written, stores, Before
    <2>2. k.op = "produce" => k.op \notin IngestOps
      BY DEF IngestOps
    <2> QED
      BY <1>1, <1>2, <1>4, <2>1, <2>2, AnswerTells
  <1> QED
    BY <1>2, <1>3, <1>4 DEF reread, IngestOps

\* The answers of the index: a failure, a receipt, evidence.
LEMMA FailTells ==
  ASSUME CallsSound, NEW c \in Clients, Fail(c),
         client[c].op = "rebuild" => client[c].since < Len(log) \/ client[c].disturbed
  PROVE  \A d \in Clients : Told(d)
  <1>1. PICK a : a = [status |-> "failed", sequence |-> client[c].since,
                      op |-> client[c].op, disturbed |-> client[c].disturbed]
    OBVIOUS
  <1>2. Becomes(c, Idle(a))
    BY <1>1 DEF Fail
  <1>3. /\ a.status = "failed" /\ a.sequence = client[c].since /\ a.op = client[c].op
        /\ (a.disturbed = client[c].disturbed)
    BY <1>1
  <1>4. RebuildTells(a)
    BY <1>3 DEF RebuildTells
  <1>5. Tells(a)
    BY <1>3, <1>4 DEF Tells, IngestTells, SearchTells
  <1>6. Idle(a).arg = a
    BY IdleFacts
  <1> QED
    BY <1>2, <1>5, <1>6, BecomesTells

\* A catalog of a moment since the last event is the catalog.
LEMMA CatalogLast ==
  ASSUME StoresSound, NEW since \in 0 .. Len(log), ~(since < Len(log)), NEW rows,
         CatalogSince(log, since, rows)
  PROVE  rows = documents(log)
  <1>1. log \in Seq(Events) /\ Len(log) \in Nat /\ Before(log, Len(log)) = log
    BY BeforeWhole DEF StoresSound, Written
  <1>2. PICK n \in since .. Len(log) : rows = documents(Before(log, n))
    BY DEF CatalogSince
  <1>3. n = Len(log)
    BY <1>1
  <1> QED
    BY <1>1, <1>2, <1>3

\* A rebuild fails its validation only if the stream moved since it began.
LEMMA ValidateBatchStepTells ==
  ASSUME MaterialsInv, NEW c \in Clients, validate_batch(c)
  PROVE  \A d \in Clients : Told(d)
  <1>1. StoresSound /\ CallsSound
    BY DEF MaterialsInv
  <1>2. PICK k : k = client[c]
    OBVIOUS
  <1>3. k.pc = "validate" /\ CallShape(k) /\ CallSound(log, index, now, k)
    BY <1>1, <1>2, CallForm DEF validate_batch
  <1>4. k.since \in 0 .. Len(log) /\ CatalogSince(log, k.since, k.docs)
    BY <1>3 DEF CallSound, RebuildPhase
  <1>5. CASE Becomes(c, InPhase(k, "write"))
    <2>1. InPhase(k, "write").pc = "write"
      BY <1>3, PhasePcs
    <2> QED
      BY <1>1, <1>5, <2>1, QuietTells
  <1>6. CASE documents(log) # k.docs /\ Fail(c)
    <2>1. k.since < Len(log)
      BY <1>1, <1>4, <1>6, CatalogLast
    <2> QED
      BY <1>1, <1>2, <1>6, <2>1, FailTells
  <1> QED
    BY <1>2, <1>5, <1>6 DEF validate_batch, Goto, InPhase

\* A rebuild fails the audit of the rows only if the stream or the index moved
\* since it began.
LEMMA AuditMetadataStepTells ==
  ASSUME MaterialsInv, NEW c \in Clients, audit_metadata(c)
  PROVE  \A d \in Clients : Told(d)
  <1>1. StoresSound /\ CallsSound
    BY DEF MaterialsInv
  <1>2. PICK k : k = client[c]
    OBVIOUS
  <1>3. k.pc = "metadata" /\ CallShape(k) /\ CallSound(log, index, now, k)
    BY <1>1, <1>2, CallForm DEF audit_metadata
  <1>4. /\ k.since \in 0 .. Len(log) /\ CatalogSince(log, k.since, k.docs)
        /\ k.op = "rebuild" /\ ~k.disturbed => CatalogSince(log, k.since, index)
    BY <1>3 DEF CallSound, AuditPhase
  <1>5. CASE index = k.docs
    <2>1. PICK flag : flag = (k.disturbed /\ k.op = "rebuild")
      OBVIOUS
    <2>2. PICK m : m = InPhase(k, "fts")
      OBVIOUS
    <2>3. CallShape(m) /\ m.pc = "fts" /\ (m.disturbed <=> k.disturbed)
      BY <1>3, <2>2, InPhaseFacts
    <2>4. PICK l : l = [m EXCEPT !.disturbed = flag]
      OBVIOUS
    <2>5. l.pc = m.pc
      <3>1. m = [pc |-> m.pc, op |-> m.op, arg |-> m.arg, expected |-> m.expected,
                 sequence |-> m.sequence, current |-> m.current, event |-> m.event,
                 docs |-> m.docs, rows |-> m.rows, since |-> m.since, disturbed |-> m.disturbed]
        BY <2>3 DEF CallShape
      <3> QED
        BY <2>4, <3>1
    <2>6. Becomes(c, [InPhase(k, "fts") EXCEPT !.disturbed = k.disturbed /\ k.op = "rebuild"])
      BY <1>2, <1>5 DEF audit_metadata, InPhase
    <2>7. Becomes(c, l)
      BY <2>1, <2>2, <2>4, <2>6
    <2> QED
      BY <1>1, <2>3, <2>5, <2>7, QuietTells
  <1>6. CASE index # k.docs /\ Fail(c)
    <2>1. k.op = "rebuild" /\ ~k.disturbed => k.since < Len(log)
      <3> SUFFICES ASSUME k.op = "rebuild", ~k.disturbed, ~(k.since < Len(log)) PROVE FALSE
        OBVIOUS
      <3>1. index = documents(log)
        BY <1>1, <1>4, CatalogLast
      <3>2. k.docs = documents(log)
        BY <1>1, <1>4, CatalogLast
      <3> QED
        BY <1>6, <3>1, <3>2
    <2> QED
      BY <1>1, <1>2, <1>6, <2>1, FailTells
  <1> QED
    BY <1>2, <1>5, <1>6 DEF audit_metadata

\* The same for the full-text table, whose rows are those of the index.
LEMMA AuditFtsStepTells ==
  ASSUME MaterialsInv, NEW c \in Clients, audit_fts(c)
  PROVE  \A d \in Clients : Told(d)
  <1>1. StoresSound /\ CallsSound
    BY DEF MaterialsInv
  <1>2. PICK k : k = client[c]
    OBVIOUS
  <1>3. k.pc = "fts" /\ CallShape(k) /\ CallSound(log, index, now, k)
    BY <1>1, <1>2, CallForm DEF audit_fts
  <1>4. ~k.disturbed => index = k.docs
    BY <1>3 DEF CallSound, AuditedPhase
  <1>5. ASSUME NEW pc \in {"version", "query"}, Becomes(c, InPhase(k, pc))
        PROVE  \A d \in Clients : Told(d)
    <2>1. InPhase(k, pc).pc = pc
      BY <1>3, PhasePcs
    <2> QED
      BY <1>1, <1>5, <2>1, QuietTells
  <1>6. CASE {d.rev : d \in index} # {d.rev : d \in k.docs} /\ Fail(c)
    <2>1. k.disturbed
      BY <1>4, <1>6
    <2> QED
      BY <1>1, <1>2, <1>6, <2>1, FailTells
  <1>7. \/ {d.rev : d \in index} # {d.rev : d \in k.docs} /\ Fail(c)
        \/ Becomes(c, InPhase(k, "version")) \/ Becomes(c, InPhase(k, "query"))
    BY <1>2 DEF audit_fts, Goto, InPhase
  <1> QED
    BY <1>5, <1>6, <1>7

\* A rebuild that succeeds leaves the catalog of a moment since it began,
\* unless another client wrote the index meanwhile.
LEMMA IndexedStepTells ==
  ASSUME MaterialsInv, NEW c \in Clients, current_index_version(c)
  PROVE  \A d \in Clients : Told(d)
  <1>1. StoresSound /\ CallsSound
    BY DEF MaterialsInv
  <1>2. PICK k : k = client[c]
    OBVIOUS
  <1>3. k.pc = "version" /\ CallSound(log, index, now, k)
    BY <1>1, <1>2, CallForm DEF current_index_version
  <1>4. ~k.disturbed => index = k.docs
    BY <1>3 DEF CallSound, AuditedPhase
  <1>5. PICK a : a = [status |-> "indexed", sequence |-> k.since, index_version |-> index,
                      catalog |-> k.docs, disturbed |-> k.disturbed]
    OBVIOUS
  <1>6. Becomes(c, Idle(a))
    BY <1>2, <1>5 DEF current_index_version
  <1>7. /\ a.status = "indexed" /\ a.index_version = index /\ a.catalog = k.docs
        /\ (a.disturbed = k.disturbed)
    BY <1>5
  <1>8. RebuildTells(a)
    BY <1>4, <1>7 DEF RebuildTells
  <1>9. Tells(a)
    BY <1>7, <1>8 DEF Tells, IngestTells, SearchTells
  <1>10. Idle(a).arg = a
    BY IdleFacts
  <1> QED
    BY <1>1, <1>6, <1>9, <1>10, BecomesTells

\* The current revisions at a sequence are those of the prefix.
LEMMA CurrentAtFacts ==
  ASSUME StoresSound, NEW n \in 0 .. Len(log)
  PROVE  CurrentAt(n) = CurrentOf(Before(log, n))
  <1>1. Written(blobs, log)
    BY DEF StoresSound
  <1>2. Written(blobs, Before(log, n))
    BY <1>1, PrefixWritten
  <1>3. _decode(Before(log, n)).current = [x \in Sources |-> _current_revision(Before(log, n), x)]
    BY <1>2, DecodeFacts
  <1> QED
    BY <1>3 DEF CurrentAt, CurrentOf, Before

\* The evidence of a search is current at a moment since it began.
LEMMA ResolveStepTells ==
  ASSUME MaterialsInv, NEW c \in Clients, resolve(c)
  PROVE  \A d \in Clients : Told(d)
  <1>1. StoresSound /\ CallsSound /\ Written(blobs, log) /\ Len(log) \in Nat
    BY DEF MaterialsInv, StoresSound, Written
  <1>2. PICK k : k = client[c]
    OBVIOUS
  <1>3. k.pc = "resolve" /\ CallSound(log, index, now, k)
    BY <1>1, <1>2, CallForm DEF resolve
  <1>4. /\ k.op = "search" /\ k.since \in 0 .. Len(log)
        /\ ~k.disturbed => \E n \in k.since .. Len(log) : k.rows = CurrentOf(Before(log, n))
    BY <1>3 DEF CallSound, ResolvePhase
  <1>5. CASE Fail(c)
    BY <1>1, <1>2, <1>4, <1>5, FailTells
  <1>6. PICK a : a = [status |-> "evidence", sequence |-> k.since, rows |-> k.rows,
                      disturbed |-> k.disturbed]
    OBVIOUS
  <1>7. CASE k.rows \subseteq {d.rev : d \in documents(log)} /\ Becomes(c, Idle(a))
    <2>1. /\ a.status = "evidence" /\ a.sequence = k.since /\ a.rows = k.rows
          /\ (a.disturbed = k.disturbed) /\ "op" \notin DOMAIN a
      BY <1>6
    <2>2. a.rows \subseteq _decode(log).seen
      BY <1>1, <1>7, <2>1, DocumentsFacts, DecodeFacts
    <2>3. ASSUME ~a.disturbed PROVE \E n \in a.sequence .. Len(log) : a.rows = CurrentAt(n)
      <3>1. PICK n \in k.since .. Len(log) : k.rows = CurrentOf(Before(log, n))
        BY <1>4, <2>1, <2>3
      <3>2. n \in 0 .. Len(log)
        BY <1>1, <1>4
      <3>3. k.rows = CurrentAt(n)
        BY <1>1, <3>1, <3>2, CurrentAtFacts
      <3> QED
        BY <2>1, <3>3
    <2>4. SearchTells(a)
      BY <2>2, <2>3 DEF SearchTells
    <2>5. Tells(a)
      BY <2>1, <2>4 DEF Tells, IngestTells, RebuildTells
    <2>6. Idle(a).arg = a
      BY IdleFacts
    <2> QED
      BY <1>1, <1>7, <2>5, <2>6, BecomesTells
  <1> QED
    BY <1>2, <1>5, <1>6, <1>7 DEF resolve

\* Steps that answer nothing about revisions or the index.
LEMMA WriteBatchStepTells ==
  ASSUME MaterialsInv, NEW c \in Clients, write_batch(c)
  PROVE  \A d \in Clients : Told(d)
  <1>1. CallsSound
    BY DEF MaterialsInv
  <1>2. PICK k : k = client[c]
    OBVIOUS
  <1>3. client' = [d \in Clients |-> IF d = c THEN InPhase(k, "audit") ELSE Disturbed(client[d])]
    BY <1>2 DEF write_batch, InPhase, Disturbed
  <1>4. InPhase(k, "audit").pc = "audit"
    BY <1>1, <1>2, CallForm, PhasePcs
  <1> SUFFICES ASSUME NEW d \in Clients PROVE Told(d)
    OBVIOUS
  <1>5. CASE d = c
    BY <1>3, <1>4, <1>5 DEF Told, Answered
  <1>6. CASE d # c
    <2>1. Disturbed(client[d]).pc = client[d].pc
      BY <1>1, CallForm, CallDisturbed
    <2>2. client'[d] = Disturbed(client[d])
      BY <1>3, <1>6
    <2>3. client'[d].pc = client[d].pc
      BY <2>1, <2>2
    <2> QED
      BY <2>3 DEF Told, Answered
  <1> QED
    BY <1>5, <1>6

\* The remaining steps answer nothing a property speaks of.
LEMMA OtherStepsTell ==
  ASSUME MaterialsInv, NEW c \in Clients,
         \/ call(c) \/ _write_expected_blob(c)
         \/ produce(c) \/ put_substrate(c) \/ find_production(c) \/ declare(c)
         \/ read_documents(c) \/ audit_catalog(c) \/ query(c)
         \/ capture(c) \/ create(c) \/ lookup(c) \/ ingest_file(c) \/ crash(c)
  PROVE  \A d \in Clients : Told(d)
  <1>1. CallsSound
    BY DEF MaterialsInv
  <1>2. PICK k : k = client[c]
    OBVIOUS
  <1>3. CallShape(k)
    BY <1>1, <1>2, CallForm
  <1>4. CASE call(c)
    <2>1. k.pc = "idle" /\ \E l : Becomes(c, l)
      BY <1>2, <1>4 DEF call
    <2> QED
      BY <1>1, <1>2, <2>1, BecomesTells
  <1>5. CASE _write_expected_blob(c)
    <2>1. PICK pc \in {"normalized", "append"} : Becomes(c, InPhase(k, pc))
      BY <1>2, <1>5 DEF _write_expected_blob, Goto, InPhase
    <2>2. InPhase(k, pc).pc = pc
      BY <1>3, PhasePcs
    <2> QED
      BY <1>1, <2>1, <2>2, QuietTells
  <1>6. CASE produce(c)
    <2>1. Return(c, "failed", Len(log)) \/ Becomes(c, WithSequence(k, "substrate", Len(log)))
      BY <1>2, <1>6 DEF produce, WithSequence
    <2>2. WithSequence(k, "substrate", Len(log)).pc = "substrate"
      BY <1>3, PhasePcs
    <2> QED
      BY <1>1, <2>1, <2>2, QuietTells, ReturnTells
  <1>7. CASE put_substrate(c)
    <2>1. Becomes(c, InPhase(k, "find"))
      BY <1>2, <1>7 DEF put_substrate, Goto, InPhase
    <2>2. InPhase(k, "find").pc = "find"
      BY <1>3, PhasePcs
    <2> QED
      BY <1>1, <2>1, <2>2, QuietTells
  <1>8. CASE find_production(c)
    <2>1. PICK status, sequence :
             /\ status \in {"failed", "idempotent"}
             /\ Return(c, status, sequence) \/ Becomes(c, WithEvent(k, "append", Produced(k.arg)))
      BY <1>2, <1>8 DEF find_production, WithEvent
    <2>2. WithEvent(k, "append", Produced(k.arg)).pc = "append"
      BY <1>3, PhasePcs
    <2> QED
      BY <1>1, <2>1, <2>2, QuietTells, ReturnTells
  <1>9. CASE declare(c)
    <2>1. PICK event : Becomes(c, WithSequenceEvent(k, "append", Len(log), event))
      BY <1>2, <1>9 DEF declare, WithSequenceEvent
    <2>2. WithSequenceEvent(k, "append", Len(log), event).pc = "append"
      BY <1>3, PhasePcs
    <2> QED
      BY <1>1, <2>1, <2>2, QuietTells
  <1>10. CASE read_documents(c) \/ audit_catalog(c)
    <2>1. PICK pc \in {"validate", "metadata"} : Becomes(c, WithCatalog(k, pc, documents(log)))
      BY <1>2, <1>10 DEF read_documents, audit_catalog, WithCatalog
    <2>2. WithCatalog(k, pc, documents(log)).pc = pc
      BY <1>3, PhasePcs
    <2> QED
      BY <1>1, <2>1, <2>2, QuietTells
  <1>11. CASE query(c)
    <2>1. PICK rows : Becomes(c, WithRows(k, "resolve", rows))
      BY <1>2, <1>11 DEF query, WithRows
    <2>2. WithRows(k, "resolve", rows).pc = "resolve"
      BY <1>3, PhasePcs
    <2> QED
      BY <1>1, <2>1, <2>2, QuietTells
  <1>12. CASE capture(c)
    <2>1. PICK status \in {"expired", "captured", "limit"} :
             Return(c, status, 0) \/ Becomes(c, WithSequence(k, "create", now))
      BY <1>2, <1>12 DEF capture, WithSequence
    <2>2. WithSequence(k, "create", now).pc = "create"
      BY <1>3, PhasePcs
    <2> QED
      BY <1>1, <2>1, <2>2, QuietTells, ReturnTells
  <1>13. CASE create(c) \/ lookup(c) \/ crash(c)
    <2>1. PICK status \in {"captured", "collision", "limit", "content", "refused", "none"} :
             Return(c, status, 0)
      BY <1>13 DEF create, lookup, crash
    <2> QED
      BY <1>1, <2>1, ReturnTells
  <1>14. CASE ingest_file(c)
    <2>1. PICK arg : Return(c, "refused", 0) \/ Becomes(c, WithArgument(k, "ingest", arg))
      BY <1>2, <1>14 DEF ingest_file, WithArgument
    <2>2. WithArgument(k, "ingest", arg).pc = "ingest"
      BY <1>3, PhasePcs
    <2> QED
      BY <1>1, <2>1, <2>2, QuietTells, ReturnTells
  <1> QED
    BY <1>4, <1>5, <1>6, <1>7, <1>8, <1>9, <1>10, <1>11, <1>12, <1>13, <1>14

\* Every answer of every step is true.
LEMMA StepTells ==
  ASSUME MaterialsInv, [Next]_vars
  PROVE  \A d \in Clients : Told(d)
  <1>1. CASE tick \/ UNCHANGED vars
    <2>1. client' = client
      BY <1>1 DEF tick, vars
    <2> QED
      BY <2>1 DEF Told, Answered
  <1>2. ASSUME NEW c \in Clients, Step(c) PROVE \A d \in Clients : Told(d)
    <2>1. CASE ingest(c) \/ unchanged(c) \/ append(c) \/ reread(c)
      BY <2>1, IngestStepTells, UnchangedStepTells, AppendStepTells, RereadStepTells
    <2>2. CASE validate_batch(c) \/ write_batch(c) \/ audit_metadata(c) \/ audit_fts(c)
      BY <2>2, ValidateBatchStepTells, WriteBatchStepTells, AuditMetadataStepTells, AuditFtsStepTells
    <2>3. CASE current_index_version(c) \/ resolve(c)
      BY <2>3, IndexedStepTells, ResolveStepTells
    <2>4. CASE \/ call(c) \/ _write_expected_blob(c)
               \/ produce(c) \/ put_substrate(c) \/ find_production(c) \/ declare(c)
               \/ read_documents(c) \/ audit_catalog(c) \/ query(c)
               \/ capture(c) \/ create(c) \/ lookup(c) \/ ingest_file(c) \/ crash(c)
      BY <2>4, OtherStepsTell
    <2> QED
      BY <1>2, <2>1, <2>2, <2>3, <2>4, Zenon DEF Step
  <1> QED
    BY <1>1, <1>2 DEF Next

\* An emitted or idempotent answer of an ingestion is true of the stream: at the
\* sequence it states the requested revision is current, and with a stated
\* sequence nothing else was appended in between.
THEOREM IngestAnswersHold == Spec => IngestAnswersAreTrue
  <1>1. MaterialsInv /\ [Next]_vars =>
           [\A c \in Clients :
              LET a == client'[c].arg IN
              Answered(c) /\ a.status \in {"emitted", "idempotent"} /\ "rev" \in DOMAIN a =>
                 /\ _current_revision(SubSeq(log', 1, a.sequence), a.rev.source) = a.rev
                 /\ a.expected # None =>
                       a.sequence = a.expected + (IF a.status = "emitted" THEN 1 ELSE 0)]_vars
    BY StepTells DEF Told, Tells, IngestTells
  <1> QED
    BY <1>1, MaterialsHold, PTL DEF Spec, IngestAnswersAreTrue

\* A search that no rebuild disturbs returns the revisions current at one moment
\* of it, any search returns committed ones; a rebuild fails only because the
\* stream grew or another wrote the index, and its receipt pairs the catalog with
\* its rows.
THEOREM IndexHolds == Spec => IndexIsExact
  <1>1. MaterialsInv /\ [Next]_vars =>
           [\A c \in Clients :
              LET a == client'[c].arg IN
              Answered(c) /\ a.status = "evidence" =>
                 /\ a.rows \subseteq _decode(log).seen
                 /\ ~a.disturbed => \E n \in a.sequence .. Len(log) : a.rows = CurrentAt(n)]_vars
    BY StepTells DEF Told, Tells, SearchTells
  <1>2. MaterialsInv /\ [Next]_vars =>
           [\A c \in Clients :
              LET a == client'[c].arg IN
              /\ Answered(c) /\ a.status = "failed" /\ "op" \in DOMAIN a /\ a.op = "rebuild" =>
                    a.sequence < Len(log) \/ a.disturbed
              /\ Answered(c) /\ a.status = "indexed" /\ ~a.disturbed =>
                    a.index_version = a.catalog]_vars
    BY StepTells DEF Told, Tells, RebuildTells
  <1> QED
    BY <1>1, <1>2, MaterialsHold, PTL DEF Spec, IndexIsExact, SearchIsExact, SoloRebuildSucceeds
=============================================================================
