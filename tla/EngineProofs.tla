---------------------------- MODULE EngineProofs ----------------------------
(***************************************************************************)
(* The safety of the program from its start to its end, for all links and  *)
(* paths, any length of bootstrap.js, any number of calls, any environment *)
(* and whatever is in the places of the libraries: the launcher finds the  *)
(* homes, modules that require each other come out whole, and the          *)
(* environment survives.                                                   *)
(***************************************************************************)
EXTENDS Engine, DataFacts, FiniteSetTheorems

-----------------------------------------------------------------------------
(* Sequences: all but the last of them.                                    *)

LEMMA FrontFacts ==
  ASSUME NEW S, NEW s \in Seq(S), s # <<>>
  PROVE  /\ Front(s) \in Seq(S) /\ Len(Front(s)) = Len(s) - 1
         /\ \A i \in 1 .. Len(s) - 1 : Front(s)[i] = s[i]
<1>1. Len(s) \in Nat /\ Len(s) >= 1
  BY EmptySeq
<1>2. \A i \in 1 .. Len(s) - 1 : s[i] \in S
  BY <1>1, ElementOfSeq
<1>3. PICK n \in Nat : n = Len(s) - 1
  BY <1>1
<1> DEFINE r == SubSeq(s, 1, n)
<1>4. /\ r \in Seq(S) /\ Len(r) = IF 1 <= n THEN n - 1 + 1 ELSE 0
      /\ \A i \in 1 .. n - 1 + 1 : r[i] = s[1 + i - 1]
  BY <1>2, <1>3, SubSeqProperties
<1>5. r = Front(s)
  BY <1>3 DEF Front
<1> HIDE DEF r
<1>6. Len(r) = n /\ \A i \in 1 .. n : r[i] = s[i]
  BY <1>3, <1>4
<1> QED
  BY <1>3, <1>4, <1>5, <1>6

LEMMA FrontOfConcat ==
  ASSUME NEW S, NEW s \in Seq(S), NEW t \in Seq(S), t # <<>>
  PROVE  /\ s \o t # <<>>
         /\ Front(s \o t) = s \o Front(t)
<1> DEFINE u == s \o t
           v == s \o Front(t)
<1>1. /\ u \in Seq(S) /\ Len(u) = Len(s) + Len(t)
      /\ \A i \in 1 .. Len(s) + Len(t) : u[i] = IF i <= Len(s) THEN s[i] ELSE t[i - Len(s)]
  BY ConcatProperties
<1>2. Len(t) \in Nat \ {0} /\ Len(s) \in Nat
  BY EmptySeq, LenProperties
<1>3. /\ Front(t) \in Seq(S) /\ Len(Front(t)) = Len(t) - 1
      /\ \A i \in 1 .. Len(t) - 1 : Front(t)[i] = t[i]
  BY FrontFacts
<1>4. /\ v \in Seq(S) /\ Len(v) = Len(s) + Len(Front(t))
      /\ \A i \in 1 .. Len(s) + Len(Front(t)) :
           v[i] = IF i <= Len(s) THEN s[i] ELSE Front(t)[i - Len(s)]
  BY <1>3, ConcatProperties
<1> HIDE DEF u, v
<1>5. u # <<>>
  BY <1>1, <1>2, EmptySeq
<1>6. /\ Front(u) \in Seq(S) /\ Len(Front(u)) = Len(u) - 1
      /\ \A i \in 1 .. Len(u) - 1 : Front(u)[i] = u[i]
  BY <1>1, <1>5, FrontFacts
<1>7. Len(Front(u)) = Len(v)
  BY <1>1, <1>2, <1>3, <1>4, <1>6
<1>8. ASSUME NEW i \in 1 .. Len(Front(u))
      PROVE  Front(u)[i] = v[i]
  <2>1. i \in 1 .. Len(u) - 1 /\ i \in 1 .. Len(s) + Len(t) /\ i \in 1 .. Len(s) + Len(Front(t))
    BY <1>1, <1>2, <1>3, <1>6
  <2>2. Front(u)[i] = IF i <= Len(s) THEN s[i] ELSE t[i - Len(s)]
    BY <1>1, <1>6, <2>1
  <2>3. ~(i <= Len(s)) => i - Len(s) \in 1 .. Len(t) - 1
    BY <1>1, <1>2, <2>1
  <2> QED
    BY <1>3, <1>4, <2>1, <2>2, <2>3
<1>9. Front(u) = v
  BY <1>4, <1>6, <1>7, <1>8, SeqEqual
<1> QED
  BY <1>5, <1>9 DEF u, v

-----------------------------------------------------------------------------
(* Hops: where argv[0] leads after n links.                                *)

Count == Cardinality(DOMAIN links)

\* One hop; there is none where no link is.
NextHop(l) == IF l \in DOMAIN links THEN RightTarget(l) ELSE l

IsHops(f, n) == f = [i \in 0 .. n |-> IF i = 0 THEN Location(argv0) ELSE NextHop(f[i - 1])]

LEMMA IsHopsFacts ==
  ASSUME NEW f, NEW n \in Nat, IsHops(f, n)
  PROVE  /\ DOMAIN f = 0 .. n /\ f[0] = Location(argv0)
         /\ \A i \in 0 .. n - 1 : f[i + 1] = NextHop(f[i])
<1> DEFINE F == [i \in 0 .. n |-> IF i = 0 THEN Location(argv0) ELSE NextHop(f[i - 1])]
<1>1. f = F
  BY DEF IsHops
<1>2. DOMAIN F = 0 .. n /\ F[0] = Location(argv0)
  OBVIOUS
<1>3. ASSUME NEW i \in 0 .. n - 1
      PROVE  F[i + 1] = NextHop(f[i])
  <2>1. i + 1 \in 0 .. n /\ i + 1 # 0 /\ (i + 1) - 1 = i
    OBVIOUS
  <2>2. F[i + 1] = NextHop(f[(i + 1) - 1])
    BY <2>1
  <2> QED
    BY <2>1, <2>2
<1> HIDE DEF F
<1> QED
  BY <1>1, <1>2, <1>3

LEMMA HopsExist ==
  ASSUME NEW n \in Nat
  PROVE  \E f : IsHops(f, n)
<1> DEFINE T == {k \in Nat : \E f : IsHops(f, k)}
<1>1. 0 \in T
  <2> DEFINE f == [i \in 0 .. 0 |-> Location(argv0)]
  <2>1. f = [i \in 0 .. 0 |-> IF i = 0 THEN Location(argv0) ELSE NextHop(f[i - 1])]
    <3>1. \A i \in 0 .. 0 : i = 0
      OBVIOUS
    <3> HIDE DEF NextHop
    <3> QED
      BY <3>1
  <2> QED
    BY <2>1 DEF IsHops
<1> HIDE DEF T
<1>2. ASSUME NEW k \in Nat, k \in T
      PROVE  k + 1 \in T
  <2>1. PICK f : IsHops(f, k)
    BY <1>2 DEF T
  <2>2. /\ DOMAIN f = 0 .. k /\ f[0] = Location(argv0)
        /\ \A i \in 0 .. k - 1 : f[i + 1] = NextHop(f[i])
    BY <2>1, IsHopsFacts
  <2> DEFINE g == [i \in 0 .. k + 1 |-> IF i <= k THEN f[i] ELSE NextHop(f[k])]
             h == [i \in 0 .. k + 1 |-> IF i = 0 THEN Location(argv0) ELSE NextHop(g[i - 1])]
  <2>3. ASSUME NEW i \in 0 .. k + 1
        PROVE  g[i] = h[i]
    <3>1. CASE i = 0
      BY <2>2, <3>1
    <3>2. CASE i # 0
      <4>1. i - 1 \in 0 .. k /\ i - 1 \in 0 .. k + 1 /\ (i - 1) + 1 = i
            /\ (i <= k => i - 1 \in 0 .. k - 1) /\ (~(i <= k) => i - 1 = k)
        BY <3>2
      <4>2. g[i - 1] = f[i - 1]
        BY <4>1
      <4>3. h[i] = NextHop(f[i - 1])
        <5>1. h[i] = NextHop(g[i - 1])
          BY <3>2
        <5> HIDE DEF g, h
        <5> QED
          BY <4>2, <5>1
      <4>4. CASE i <= k
        <5>1. f[(i - 1) + 1] = NextHop(f[i - 1])
          BY <2>2, <4>1, <4>4
        <5>2. g[i] = f[i]
          BY <4>4
        <5> HIDE DEF g, h
        <5> QED
          BY <4>1, <4>3, <5>1, <5>2
      <4>5. CASE ~(i <= k)
        <5>1. g[i] = NextHop(f[k])
          BY <4>5
        <5> HIDE DEF g, h
        <5> QED
          BY <4>1, <4>3, <4>5, <5>1
      <4> QED
        BY <4>4, <4>5
    <3> QED
      BY <3>1, <3>2
  <2>4. g = h
    <3>1. g = [i \in 0 .. k + 1 |-> g[i]] /\ h = [i \in 0 .. k + 1 |-> h[i]]
      OBVIOUS
    <3> HIDE DEF g, h
    <3> QED
      BY <2>3, <3>1
  <2>5. IsHops(g, k + 1)
    BY <2>4 DEF IsHops
  <2> HIDE DEF g
  <2> QED
    BY <2>5 DEF T
<1>3. Nat \subseteq T
  BY <1>1, <1>2, NatInSet
<1> QED
  BY <1>3 DEF T

LEMMA HopsFacts ==
  ASSUME Count \in Nat
  PROVE  /\ DOMAIN Hops = 0 .. Count /\ Hops[0] = Location(argv0)
         /\ \A i \in 0 .. Count - 1 : Hops[i + 1] = NextHop(Hops[i])
         /\ Program = Hops[Count]
<1>1. \E f : f = [n \in 0 .. Count |->
                    IF n = 0 THEN Location(argv0)
                    ELSE IF f[n - 1] \in DOMAIN links THEN RightTarget(f[n - 1]) ELSE f[n - 1]]
  BY HopsExist DEF IsHops, NextHop
<1>2. IsHops(Hops, Count)
  BY <1>1 DEF Hops, IsHops, NextHop, Count
<1> QED
  BY <1>2, IsHopsFacts DEF Program, Count

\* Where no link is, the hops stay.
LEMMA HopsStay ==
  ASSUME Count \in Nat, NEW n \in 0 .. Count, Hops[n] \notin DOMAIN links
  PROVE  Program = Hops[n]
<1> DEFINE T == {k \in Nat : n + k <= Count => Hops[n + k] = Hops[n]}
<1>1. 0 \in T
  OBVIOUS
<1>2. ASSUME NEW k \in Nat, k \in T
      PROVE  k + 1 \in T
  <2>1. SUFFICES ASSUME n + (k + 1) <= Count
                 PROVE  Hops[n + (k + 1)] = Hops[n]
    OBVIOUS
  <2>2. Hops[n + k] = Hops[n] /\ n + k \in 0 .. Count - 1 /\ (n + k) + 1 = n + (k + 1)
    BY <1>2, <2>1
  <2>3. Hops[(n + k) + 1] = NextHop(Hops[n + k])
    BY <2>2, HopsFacts
  <2> QED
    BY <2>2, <2>3 DEF NextHop
<1> HIDE DEF T
<1>3. Nat \subseteq T
  BY <1>1, <1>2, NatInSet
<1>4. Count - n \in T
  BY <1>3
<1>5. n + (Count - n) = Count
  OBVIOUS
<1> QED
  BY <1>4, <1>5, HopsFacts DEF T

\* After more hops than there are links the hops go round in a circle: more of them
\* lead nowhere new.
LEMMA HopsClose ==
  ASSUME Count \in Nat, IsFiniteSet(DOMAIN links), Hops[Count] \in DOMAIN links
  PROVE  \E m \in 1 .. Count : RightTarget(Hops[Count]) = Hops[m]
<1>1. \A i \in 0 .. Count : Hops[i] \in DOMAIN links
  BY HopsStay, HopsFacts
<1>2. PICK x, y \in 0 .. Count : x # y /\ Hops[x] = Hops[y]
  <2>1. IsFiniteSet(0 .. Count) /\ Cardinality(0 .. Count) = Count + 1
    BY FS_Interval
  <2>2. Cardinality(DOMAIN links) < Cardinality(0 .. Count)
    BY <2>1 DEF Count
  <2> DEFINE f == [i \in 0 .. Count |-> Hops[i]]
  <2>3. f \in [0 .. Count -> DOMAIN links]
    BY <1>1
  <2> HIDE DEF f
  <2>4. \E x, y \in 0 .. Count : x # y /\ f[x] = f[y]
    BY <2>1, <2>2, <2>3, FS_PigeonHole
  <2> QED
    BY <2>4 DEF f
<1>3. PICK i, j \in 0 .. Count : i < j /\ Hops[i] = Hops[j]
  BY <1>2
<1> DEFINE T == {k \in Nat : j + k <= Count => Hops[i + k] = Hops[j + k]}
<1>4. 0 \in T
  BY <1>3
<1>5. ASSUME NEW k \in Nat, k \in T
      PROVE  k + 1 \in T
  <2>1. SUFFICES ASSUME j + (k + 1) <= Count
                 PROVE  Hops[i + (k + 1)] = Hops[j + (k + 1)]
    OBVIOUS
  <2>2. /\ Hops[i + k] = Hops[j + k]
        /\ i + k \in 0 .. Count - 1 /\ (i + k) + 1 = i + (k + 1)
        /\ j + k \in 0 .. Count - 1 /\ (j + k) + 1 = j + (k + 1)
    BY <1>3, <1>5, <2>1
  <2>3. Hops[(i + k) + 1] = NextHop(Hops[i + k]) /\ Hops[(j + k) + 1] = NextHop(Hops[j + k])
    BY <2>2, HopsFacts
  <2> QED
    BY <2>2, <2>3
<1> HIDE DEF T
<1>6. Nat \subseteq T
  BY <1>4, <1>5, NatInSet
<1> DEFINE m == i + (Count - j)
<1>7. /\ Count - j \in Nat /\ j + (Count - j) = Count
      /\ m \in 0 .. Count - 1 /\ m + 1 \in 1 .. Count /\ m = i + (Count - j)
  BY <1>3
<1> HIDE DEF m
<1>8. Hops[m] = Hops[Count]
  BY <1>6, <1>7 DEF T
<1>9. Hops[m + 1] = RightTarget(Hops[Count])
  BY <1>7, <1>8, HopsFacts DEF NextHop
<1> QED
  BY <1>7, <1>9

-----------------------------------------------------------------------------
(* The launcher.  Its inductive invariant: before the homes are found the  *)
(* program's file is where some number of hops has led, and `executable'   *)
(* is a path to there.                                                     *)

Following ==
  pc = "follow" =>
    /\ Named(executable)
    /\ RelativeFirst => IF inBuffer THEN \E n \in 1 .. Count : Location(executable) = Hops[n]
                                    ELSE executable = argv0

AtProgram == pc = "homes" /\ RelativeFirst => executable = Path(TRUE, Program)

\* ReadFile has not read anything before it asks for the size.
Unread == pc \in {"follow", "homes", "setup", "open"} => nread = 0

LauncherInv == TypeOK /\ Following /\ AtProgram /\ HomesBesideProgram /\ Unread

\* The steps of the launcher change nothing of what hops depend on.
LEMMA WorldKeeps ==
  ASSUME UNCHANGED world
  PROVE  /\ Count' = Count /\ Hops' = Hops /\ Program' = Program
         /\ RelativeFirst' = RelativeFirst /\ overridden' = overridden
<1>1. /\ links' = links /\ argv0' = argv0 /\ cwd' = cwd /\ overridden' = overridden
  BY DEF world
<1>2. Hops' = Hops
  BY <1>1 DEF Hops, Location, RightTarget
<1> QED
  BY <1>1, <1>2 DEF Count, Program, RelativeFirst

LEMMA LinksFacts ==
  ASSUME TypeOK
  PROVE  /\ Count \in Nat /\ IsFiniteSet(DOMAIN links) /\ cwd \in Seq(Names) /\ Named(argv0)
         /\ \A l \in DOMAIN links : l \in Seq(Names) /\ l # <<>> /\ Named(links[l])
<1>1. links \in Links /\ argv0 \in Argv0 /\ cwd \in Cwds
  BY DEF TypeOK
<1>2. /\ IsFiniteSet(DOMAIN links) /\ cwd \in Seq(Names) /\ Named(argv0)
      /\ \A l \in DOMAIN links : l \in Seq(Names) /\ l # <<>> /\ Named(links[l])
  BY <1>1, LauncherAssumption
<1> QED
  BY <1>2, FS_CardinalityType DEF Count

LEMMA NamedFacts ==
  ASSUME NEW p, Named(p)
  PROVE  /\ p = Path(p.abs, p.names) /\ p.abs \in BOOLEAN
         /\ p.names \in Seq(Names) /\ p.names # <<>>
BY DEF Named, Paths, Path

LEMMA PathFacts ==
  ASSUME NEW a \in BOOLEAN, NEW ns \in Seq(Names)
  PROVE  Path(a, ns) \in Paths /\ Path(a, ns).abs = a /\ Path(a, ns).names = ns
BY DEF Path, Paths

LEMMA DirnameFacts ==
  ASSUME NEW p \in Paths
  PROVE  /\ Dirname(p) \in Paths
         /\ p.names # <<>> => Dirname(p) = Path(p.abs, Front(p.names))
<1>1. p.abs \in BOOLEAN /\ p.names \in Seq(Names) /\ p = Path(p.abs, p.names)
  BY DEF Paths, Path
<1>2. p.names # <<>> => Front(p.names) \in Seq(Names)
  BY <1>1, FrontFacts
<1>3. Dirname(p) = Path(p.abs, IF p.names = <<>> THEN p.names ELSE Front(p.names))
  BY <1>1 DEF Dirname, Path
<1> QED
  BY <1>1, <1>2, <1>3, PathFacts

\* A relative target, joined to the directory of its link, is where it should be.
LEMMA JoinFacts ==
  ASSUME NEW p, Named(p), NEW t, Named(t)
  PROVE  /\ Named(Join(Dirname(p), t))
         /\ Join(Dirname(p), t).abs = p.abs
         /\ Join(Dirname(p), t).names = Front(p.names) \o t.names
<1>1. /\ p \in Paths /\ p.abs \in BOOLEAN /\ p.names \in Seq(Names) /\ p.names # <<>>
      /\ t.names \in Seq(Names) /\ t.names # <<>>
  BY NamedFacts DEF Named
<1>2. Front(p.names) \in Seq(Names)
  BY <1>1, FrontFacts
<1>3. Dirname(p).abs = p.abs /\ Dirname(p).names = Front(p.names)
  BY <1>1, <1>2, DirnameFacts, PathFacts
<1>4. Join(Dirname(p), t) = Path(p.abs, Front(p.names) \o t.names)
  BY <1>3 DEF Join
<1> DEFINE ns == Front(p.names) \o t.names
<1>5. ns \in Seq(Names) /\ ns # <<>>
  BY <1>1, <1>2, ConcatProperties, FrontOfConcat
<1> HIDE DEF ns
<1>6. Path(p.abs, ns) \in Paths /\ Path(p.abs, ns).abs = p.abs /\ Path(p.abs, ns).names = ns
  BY <1>1, <1>5, PathFacts
<1>7. Join(Dirname(p), t) = Path(p.abs, ns)
  BY <1>4 DEF ns
<1> QED
  BY <1>5, <1>6, <1>7 DEF Named, ns

LEMMA FollowIsHop ==
  ASSUME TypeOK, NEW p, Named(p), Location(p) \in DOMAIN links
  PROVE  LET t == links[Location(p)]
         IN  /\ t.abs => Location(t) = RightTarget(Location(p))
             /\ ~t.abs => Location(Join(Dirname(p), t)) = RightTarget(Location(p))
<1> DEFINE l == Location(p)
           t == links[l]
<1>1. /\ Named(t) /\ t.abs \in BOOLEAN /\ t.names \in Seq(Names) /\ t.names # <<>>
      /\ p.abs \in BOOLEAN /\ p.names \in Seq(Names) /\ p.names # <<>> /\ cwd \in Seq(Names)
  BY LinksFacts, NamedFacts
<1>2. t.abs => Location(t) = RightTarget(l)
  BY DEF Location, RightTarget
<1>3. ASSUME ~t.abs
      PROVE  Location(Join(Dirname(p), t)) = RightTarget(l)
  <2>1. RightTarget(l) = Front(l) \o t.names
    BY <1>3 DEF RightTarget
  <2>2. Join(Dirname(p), t).abs = p.abs /\ Join(Dirname(p), t).names = Front(p.names) \o t.names
    BY <1>1, JoinFacts
  <2>3. CASE p.abs
    BY <2>1, <2>2, <2>3 DEF Location
  <2>4. CASE ~p.abs
    <3>1. Location(Join(Dirname(p), t)) = cwd \o (Front(p.names) \o t.names)
      BY <2>2, <2>4 DEF Location
    <3>2. Front(l) = cwd \o Front(p.names)
      BY <1>1, <2>4, FrontOfConcat DEF Location
    <3>3. Front(p.names) \in Seq(Names)
      BY <1>1, FrontFacts
    <3>4. \A a, b, c \in Seq(Names) : (a \o b) \o c = a \o (b \o c)
      BY ConcatAssociative
    <3>5. (cwd \o Front(p.names)) \o t.names = cwd \o (Front(p.names) \o t.names)
      <4> HIDE DEF t
      <4> QED
        BY <1>1, <3>3, <3>4, Zenon
    <3> QED
      BY <2>1, <3>1, <3>2, <3>5
  <2> QED
    BY <2>3, <2>4
<1> QED
  BY <1>2, <1>3

LEMMA ConstantPaths == Unset \in Paths /\ EnvHome \in Paths
<1>1. <<>> \in Seq(Names) /\ <<"env">> \in Seq(Names)
  BY LauncherAssumption
<1> QED
  BY <1>1, PathFacts DEF Unset, EnvHome

LEMMA LauncherInit == Init => LauncherInv
<1> SUFFICES ASSUME Init PROVE LauncherInv
  OBVIOUS
<1>1. Named(argv0)
  BY LauncherAssumption DEF Init
<1>2. TypeOK
  BY <1>1, ConstantPaths, LauncherAssumption DEF Init, TypeOK, Named
<1>3. Following
  BY <1>1 DEF Init, Following
<1> QED
  BY <1>2, <1>3 DEF Init, LauncherInv, AtProgram, HomesBesideProgram, Unread

LEMMA FollowKeeps ==
  ASSUME LauncherInv, Follow
  PROVE  LauncherInv'
<1> DEFINE l == Location(executable)
           t == links[l]
           e == Join(Dirname(executable), t)
<1>1. /\ TypeOK /\ Named(executable) /\ l \in DOMAIN links /\ Named(t)
      /\ Count \in Nat /\ IsFiniteSet(DOMAIN links)
  BY LinksFacts DEF Follow, IsLink, LauncherInv, Following
<1>2. /\ pc = "follow" /\ pc' = "follow" /\ inBuffer' = TRUE
      /\ executable' = Resolved(t)
      /\ UNCHANGED <<world, homes, file>>
  BY DEF Follow
<1>3. Named(executable')
  <2>1. \A p : Named(p) => Named(Join(Dirname(p), t))
    BY <1>1, JoinFacts
  <2> HIDE DEF t
  <2> QED
    BY <1>1, <1>2, <2>1 DEF Resolved
<1>4. TypeOK'
  BY <1>1, <1>2, <1>3 DEF TypeOK, world, homes, file, Named
<1>5. ASSUME RelativeFirst
      PROVE  \E n \in 1 .. Count : Location(executable') = Hops[n]
  <2>1. \E n \in 0 .. Count : l = Hops[n] /\ (n = 0 <=> ~inBuffer) /\ (~inBuffer => executable = argv0)
    <3>1. CASE inBuffer
      <4>1. PICK n \in 1 .. Count : l = Hops[n]
        BY <1>2, <1>5, <3>1 DEF LauncherInv, Following
      <4> QED
        BY <3>1, <4>1
    <3>2. CASE ~inBuffer
      <4>1. executable = argv0
        BY <1>2, <1>5, <3>2 DEF LauncherInv, Following
      <4> QED
        BY <1>1, <3>2, <4>1, HopsFacts
    <3> QED
      BY <3>1, <3>2
  <2>2. PICK n \in 0 .. Count : l = Hops[n] /\ (n = 0 <=> ~inBuffer)
    BY <2>1
  <2>3. Location(executable') = RightTarget(l)
    <3>1. /\ t.abs => Location(t) = RightTarget(l)
          /\ ~t.abs => Location(e) = RightTarget(l)
      BY <1>1, FollowIsHop
    <3>2. CASE t.abs
      <4> HIDE DEF t
      <4> QED
        BY <1>2, <3>1, <3>2 DEF Resolved
    <3>3. CASE ~t.abs
      <4>1. n = 0
        BY <1>1, <1>5, <2>2, <3>3, HopsFacts DEF RelativeFirst
      <4>2. executable' = e
        BY <1>2, <2>2, <3>3, <4>1 DEF Resolved
      <4> QED
        BY <3>1, <3>3, <4>2
    <3> QED
      BY <3>2, <3>3
  <2>4. CASE n = Count
    BY <1>1, <2>2, <2>3, <2>4, HopsClose
  <2>5. CASE n # Count
    <3>1. n \in 0 .. Count - 1 /\ n + 1 \in 1 .. Count
      BY <1>1, <2>5
    <3>2. Hops[n + 1] = RightTarget(l)
      BY <1>1, <2>2, <3>1, HopsFacts DEF NextHop
    <3> QED
      BY <2>3, <3>1, <3>2
  <2> QED
    BY <2>4, <2>5
<1>6. Following'
  <2>1. ASSUME RelativeFirst' PROVE \E n \in 1 .. Count' : Location(executable)' = Hops'[n]
    <3>1. RelativeFirst /\ Count' = Count /\ Hops' = Hops
      BY <1>2, <2>1, WorldKeeps
    <3>2. Location(executable)' = Location(executable')
      BY <1>2 DEF Location, world
    <3> QED
      BY <1>5, <3>1, <3>2
  <2> QED
    BY <1>2, <1>3, <2>1 DEF Following, Named, Paths
<1> QED
  BY <1>2, <1>4, <1>6 DEF LauncherInv, AtProgram, HomesBesideProgram, Unread, file

LEMMA MakeAbsoluteKeeps ==
  ASSUME LauncherInv, MakeAbsolute
  PROVE  LauncherInv'
<1>1. /\ TypeOK /\ Named(executable) /\ Location(executable) \notin DOMAIN links
      /\ Count \in Nat /\ cwd \in Seq(Names) /\ pc = "follow"
  BY LinksFacts DEF MakeAbsolute, IsLink, LauncherInv, Following
<1>2. UNCHANGED <<world, inBuffer, homes, file>>
  BY DEF MakeAbsolute
<1>3. CASE ~executable.abs /\ inBuffer
  <2>1. pc' = "undefined" /\ executable' = executable
    BY <1>3 DEF MakeAbsolute
  <2>2. TypeOK'
    BY <1>1, <1>2, <2>1 DEF TypeOK, world, homes, file
  <2> QED
    BY <2>1, <2>2 DEF LauncherInv, Following, AtProgram, HomesBesideProgram, Unread
<1>4. CASE ~(~executable.abs /\ inBuffer)
  <2>1. pc' = "homes" /\ executable' = Absolute(executable)
    BY <1>4 DEF MakeAbsolute
  <2>2. executable' = Path(TRUE, Location(executable)) /\ Location(executable) \in Seq(Names)
    <3>1. /\ executable = Path(executable.abs, executable.names) /\ executable.abs \in BOOLEAN
          /\ executable.names \in Seq(Names)
      BY <1>1, NamedFacts
    <3>2. cwd \o executable.names \in Seq(Names)
      BY <1>1, <3>1, ConcatProperties
    <3>3. CASE executable.abs
      <4>1. executable.abs = TRUE
        BY <3>1, <3>3
      <4> QED
        BY <2>1, <3>1, <3>3, <4>1 DEF Absolute, Location
    <3>4. CASE ~executable.abs
      BY <2>1, <3>2, <3>4 DEF Absolute, Location
    <3> QED
      BY <3>3, <3>4
  <2>3. executable' \in Paths /\ executable'.abs
    BY <2>2, PathFacts
  <2>4. TypeOK'
    BY <1>1, <1>2, <2>1, <2>3 DEF TypeOK, world, homes, file
  <2>5. RelativeFirst => Location(executable) = Program
    <3> SUFFICES ASSUME RelativeFirst
                 PROVE  \E n \in 0 .. Count : Location(executable) = Hops[n]
      BY <1>1, HopsStay
    <3>1. CASE inBuffer
      <4>1. PICK n \in 1 .. Count : Location(executable) = Hops[n]
        BY <1>1, <3>1 DEF LauncherInv, Following
      <4> QED
        BY <1>1, <4>1
    <3>2. CASE ~inBuffer
      BY <1>1, <3>2, HopsFacts DEF LauncherInv, Following
    <3> QED
      BY <3>1, <3>2
  <2>6. AtProgram'
    BY <1>2, <2>2, <2>5, WorldKeeps DEF AtProgram, Path
  <2> QED
    BY <1>1, <1>2, <2>1, <2>4, <2>6
       DEF LauncherInv, Following, HomesBesideProgram, Unread, file
<1> QED
  BY <1>3, <1>4

LEMMA FindHomesKeeps ==
  ASSUME LauncherInv, FindHomes
  PROVE  LauncherInv'
<1>1. /\ TypeOK /\ pc = "homes" /\ pc' = "setup"
      /\ UNCHANGED <<world, executable, inBuffer, file>>
  BY DEF LauncherInv, FindHomes
<1>2. \A p \in Paths : Grandparent(p) \in Paths
  BY DirnameFacts DEF Grandparent
<1>3. engineHome' \in Paths /\ home' \in Paths
  BY <1>1, <1>2, ConstantPaths DEF FindHomes, TypeOK
<1>4. TypeOK'
  BY <1>1, <1>3 DEF TypeOK, world, file
<1>5. HomesBesideProgram'
  <2> SUFFICES ASSUME RelativeFirst'
               PROVE  /\ "engineHome" \notin overridden' =>
                           engineHome' = Grandparent(Path(TRUE, Program'))
                      /\ "home" \notin overridden' => home' = Grandparent(engineHome')
    BY DEF HomesBesideProgram, Grandparent, Dirname, Path
  <2>1. RelativeFirst /\ Program' = Program /\ overridden' = overridden
    BY <1>1, WorldKeeps
  <2>2. executable = Path(TRUE, Program)
    BY <1>1, <2>1 DEF LauncherInv, AtProgram
  <2> QED
    BY <2>1, <2>2 DEF FindHomes
<1> QED
  BY <1>1, <1>4, <1>5 DEF LauncherInv, Following, AtProgram, Unread, file

\* The steps after the homes are found, which do not touch them; and everything that
\* happens once the shell runs.
LEMMA HomesKeep ==
  ASSUME LauncherInv, TypeOK', UNCHANGED <<world, homes>>,
         pc \in {"setup", "open", "read"}
  PROVE  HomesBesideProgram'
<1>1. engineHome' = engineHome /\ home' = home
  BY DEF homes
<1>2. RelativeFirst' = RelativeFirst /\ Program' = Program /\ overridden' = overridden
  BY WorldKeeps
<1> QED
  BY <1>1, <1>2 DEF LauncherInv, HomesBesideProgram, Grandparent, Dirname, Path

LEMMA ReadingKeeps ==
  ASSUME LauncherInv, pc \in {"setup", "open", "read"},
         \/ \E ok \in BOOLEAN : SetUp(ok) \/ Open(ok)
         \/ \E k \in 0 .. MaxSize : ReadTurn(k)
         \/ \E n \in 0 .. MaxSize : Edit(n)
  PROVE  LauncherInv'
<1>1. UNCHANGED <<world, executable, inBuffer, homes>>
  BY DEF SetUp, Open, ReadTurn, Edit
<1>2. /\ pc' \in {"setup", "open", "read", "exit"}
      /\ size' \in 0 .. MaxSize /\ nread' \in 0 .. size' /\ fileSize' \in 0 .. MaxSize
  <2>1. size \in 0 .. MaxSize /\ nread \in 0 .. size /\ fileSize \in 0 .. MaxSize /\ MaxSize \in Nat
    BY LauncherAssumption DEF LauncherInv, TypeOK
  <2>2. CASE \E ok \in BOOLEAN : SetUp(ok)
    BY <2>1, <2>2 DEF SetUp, file
  <2>3. CASE \E ok \in BOOLEAN : Open(ok)
    <3>1. nread = 0
      BY <2>3 DEF Open, LauncherInv, Unread
    <3> QED
      BY <2>1, <2>3, <3>1 DEF Open
  <2>4. CASE \E k \in 0 .. MaxSize : ReadTurn(k)
    BY <2>1, <2>4 DEF ReadTurn
  <2>5. CASE \E n \in 0 .. MaxSize : Edit(n)
    BY <2>1, <2>5 DEF Edit
  <2> QED
    BY <2>2, <2>3, <2>4, <2>5
<1>3. TypeOK'
  BY <1>1, <1>2 DEF LauncherInv, TypeOK, world, homes
<1>4. Unread'
  BY DEF LauncherInv, Unread, SetUp, Open, ReadTurn, Edit, file
<1> QED
  BY <1>1, <1>2, <1>3, <1>4, HomesKeep DEF LauncherInv, Following, AtProgram

LEMMA BootstrapKeeps ==
  ASSUME LauncherInv, NEW ok \in BOOLEAN, Bootstrap(ok)
  PROVE  LauncherInv'
<1>1. /\ Argv0 # {} /\ Cwds # {} /\ Links # {} /\ Unset \in Paths /\ MaxSize \in Nat
  BY ConstantPaths, LauncherAssumption DEF LauncherInv, TypeOK
<1>2. /\ (CHOOSE p \in Argv0 : TRUE) \in Argv0 /\ (CHOOSE d \in Cwds : TRUE) \in Cwds
      /\ (CHOOSE ls \in Links : TRUE) \in Links
  BY <1>1
<1>3. pc' \in {"shell", "exit"}
  BY DEF Bootstrap
<1>4. TypeOK'
  <2>1. CASE ok
    BY <1>1, <1>2, <2>1 DEF Bootstrap, Forgets, TypeOK
  <2>2. CASE ~ok
    BY <2>2 DEF Bootstrap, LauncherInv, TypeOK, world, homes, file
  <2> QED
    BY <2>1, <2>2
<1> QED
  BY <1>3, <1>4 DEF LauncherInv, Following, AtProgram, HomesBesideProgram, Unread

LEMMA StepKeeps ==
  ASSUME LauncherInv, Step \/ \E n \in 0 .. MaxSize : Edit(n)
  PROVE  LauncherInv'
<1>1. CASE Follow
  BY <1>1, FollowKeeps
<1>2. CASE MakeAbsolute
  BY <1>2, MakeAbsoluteKeeps
<1>3. CASE FindHomes
  BY <1>3, FindHomesKeeps
<1>4. CASE \E ok \in BOOLEAN : Bootstrap(ok)
  BY <1>4, BootstrapKeeps
<1>5. CASE \/ \E ok \in BOOLEAN : SetUp(ok) \/ Open(ok)
           \/ \E k \in 0 .. MaxSize : ReadTurn(k)
           \/ \E n \in 0 .. MaxSize : Edit(n)
  <2>1. pc \in {"setup", "open", "read"}
    BY <1>5 DEF SetUp, Open, ReadTurn, Edit
  <2> QED
    BY <1>5, <2>1, ReadingKeeps
<1> QED
  BY <1>1, <1>2, <1>3, <1>4, <1>5 DEF Step

\* Once the shell runs, everything else leaves alone what the launcher has left.
LEMMA LaunchedKeeps ==
  ASSUME LauncherInv, UNCHANGED launched, pc' \in {"shell", "line", "exit", "undefined"}
  PROVE  LauncherInv'
<1>1. TypeOK'
  BY DEF LauncherInv, TypeOK, launched, world, homes, file
<1> QED
  BY <1>1 DEF LauncherInv, Following, AtProgram, HomesBesideProgram, Unread

LEMMA LauncherRests ==
  ASSUME LauncherInv, UNCHANGED vars
  PROVE  LauncherInv'
<1>1. /\ UNCHANGED world /\ pc' = pc /\ executable' = executable /\ inBuffer' = inBuffer
      /\ engineHome' = engineHome /\ home' = home /\ UNCHANGED file /\ UNCHANGED homes
  BY DEF vars, homes
<1>2. /\ argv0' = argv0 /\ cwd' = cwd /\ nread' = nread
  BY <1>1 DEF world, file
<1>3. /\ Count' = Count /\ Hops' = Hops /\ Program' = Program
      /\ RelativeFirst' = RelativeFirst /\ overridden' = overridden
  BY <1>1, WorldKeeps
<1>4. TypeOK'
  BY <1>1 DEF LauncherInv, TypeOK, world, file
<1>5. Following' /\ AtProgram'
  BY <1>1, <1>2, <1>3 DEF LauncherInv, Following, AtProgram, Location, Named, Path
<1>6. HomesBesideProgram' /\ Unread'
  BY <1>1, <1>2, <1>3
     DEF LauncherInv, HomesBesideProgram, Unread, Grandparent, Dirname, Path
<1> QED
  BY <1>4, <1>5, <1>6 DEF LauncherInv

-----------------------------------------------------------------------------
(* The modules, statement by statement.  Modules that require each other   *)
(* in a circle have the same rank; otherwise a module has a greater one    *)
(* than those that it requires.                                            *)

Rank ==
  [m \in Ids |->
     CASE m \in {"binary-engine", "logger"} -> 0
       [] m = "binary" -> 1
       [] m \in {"io-engine", "io-engine.js"} -> 2
       [] m = "io" -> 3
       [] m \in {"file", "file-engine", "file-engine.js", "os-engine", "os-engine.js"} -> 4
       [] m = "os" -> 5
       [] m = "system.js" -> 6
       [] m = "system" -> 7]

\* The modules that add names to the exports of another one, which they require first.
Halves == {<<"io-engine.js", "io-engine">>, <<"file-engine", "file">>,
           <<"os-engine.js", "os-engine">>}

\* The names that module m takes from another one.
Wants(m, of, names) ==
  \/ names = {}
  \/ m = "system" /\ of = "system.js" /\ names = StdNames
  \/ m = "system.js" /\ of = "io" /\ names \subseteq Promised["io"]
  \/ m = "system.js" /\ of = "logger" /\ names = {"Logger"}
  \/ m = "os-engine" /\ of = "io" /\ names \subseteq Promised["io"]
  \/ m = "file-engine" /\ of = "file-engine.js" /\ names = {"mkdirs", "touch"}
  \/ m = "io-engine.js" /\ of = "io-engine" /\ names \subseteq IOClasses
  \/ m = "io-engine.js" /\ of = "binary" /\ names = {"ByteString"}
  \/ m \in {"io-engine.js", "binary"} /\ of = "binary-engine" /\ names = Bs

\* What the proofs need to know of a statement s at place i of module m.
Fits(m, i, s) ==
  /\ s.of \in Ids /\ s.op \in {"takes", "needs", "sets", "copies", "cuts"}
  /\ s.op \in {"takes", "needs"} => Rank[s.of] <= Rank[m] /\ Wants(m, s.of, s.names)
  /\ s.op = "sets" => s.of = m \/ <<m, s.of>> \in Halves
  /\ s.op \in {"sets", "cuts"} /\ s.of \in DOMAIN Promised => s.names \subseteq Promised[s.of]
  /\ s.op = "copies" => /\ i = 2
                        /\ \/ m = "io" /\ s.of = "io-engine"
                           \/ m = "os" /\ s.of = "os-engine"
  /\ s.op = "cuts" <=> m = "system" /\ i = 3
  /\ s.op = "cuts" => s.of = "system" /\ "env" \in s.names
  /\ s.of = "system" => m = "system"
  /\ s.op \in {"takes", "needs"} /\ s.of = "file-engine.js" => m = "file-engine"

LEMMA TheIds ==
  Ids = {"io-engine", "file-engine", "os-engine", "binary-engine", "system",
         "io-engine.js", "file-engine.js", "os-engine.js", "system.js",
         "io", "file", "os", "binary", "logger"}
BY DEF Ids, Natives, Scripts, Externals

LEMMA TheRanks ==
  /\ Rank["binary-engine"] = 0 /\ Rank["logger"] = 0 /\ Rank["binary"] = 1
  /\ Rank["io-engine"] = 2 /\ Rank["io-engine.js"] = 2 /\ Rank["io"] = 3
  /\ Rank["file"] = 4 /\ Rank["file-engine"] = 4 /\ Rank["file-engine.js"] = 4
  /\ Rank["os-engine"] = 4 /\ Rank["os-engine.js"] = 4 /\ Rank["os"] = 5
  /\ Rank["system.js"] = 6 /\ Rank["system"] = 7
BY TheIds DEF Rank

LEMMA TheBodies ==
  /\ Body["io-engine"] = io_engine /\ Body["binary-engine"] = binary_engine
  /\ Body["file-engine"] = file_engine /\ Body["os-engine"] = os_engine
  /\ Body["system"] = system_ /\ Body["io-engine.js"] = io_engine_js
  /\ Body["file-engine.js"] = file_engine_js /\ Body["os-engine.js"] = os_engine_js
  /\ Body["system.js"] = system_js
  /\ Body["io"] = <<Needs("io-engine", {}), Copies("io-engine")>>
  /\ Body["file"] = <<Sets("file", {"mode"}), Needs("io", {}), Needs("file-engine", {})>>
  /\ Body["os"] = <<Needs("os-engine", {}), Copies("os-engine")>>
  /\ Body["binary"] = <<Takes("binary-engine", Bs), Sets("binary", {"ByteString"})>>
  /\ Body["logger"] = <<Sets("logger", {"Logger"})>>
<1>1. \A m \in Externals : Body[m] = external(m)
  BY TheIds DEF Body, Externals
<1> QED
  BY <1>1, TheIds DEF Body, Externals, external

LEMMA ThePromises ==
  /\ DOMAIN Promised = {"io-engine", "os-engine", "binary-engine", "system",
                        "io", "file", "os", "binary", "logger"}
  /\ Promised["io"] = IOClasses \cup {"ByteIO", "TextIOWrapper", "TextOutputStream"}
  /\ Promised["io-engine"] = Promised["io"]
  /\ Promised["os"] = {"exit", "systemImpl", "popenImpl", "system", "popen"}
  /\ Promised["os-engine"] = Promised["os"]
  /\ Promised["file"] = {"mode", "mkdirs", "touch"} \cup FileNames
  /\ Promised["system"] = {"env", "args"} \cup StdNames
  /\ Promised["binary-engine"] = Bs
  /\ Promised["binary"] = {"ByteString"}
  /\ Promised["logger"] = {"Logger"}
BY TheIds DEF Promised, Scripts

LEMMA RequiresFits ==
  ASSUME NEW m \in Ids, NEW i, NEW of \in Ids \ {"system"}, NEW names,
         Rank[of] <= Rank[m], Wants(m, of, names), ~(m = "system" /\ i = 3),
         of = "file-engine.js" => m = "file-engine"
  PROVE  Fits(m, i, Takes(of, names)) /\ Fits(m, i, Needs(of, names))
BY DEF Fits, Takes, Needs

LEMMA SetsFits ==
  ASSUME NEW m \in Ids, NEW i, NEW names,
         m \in DOMAIN Promised => names \subseteq Promised[m], ~(m = "system" /\ i = 3)
  PROVE  Fits(m, i, Sets(m, names))
BY DEF Fits, Sets

LEMMA HalfSetsFits ==
  ASSUME NEW m, NEW of, <<m, of>> \in Halves, NEW i, NEW names, names \subseteq Promised[of]
  PROVE  Fits(m, i, Sets(of, names))
<1>1. of \in Ids /\ of # "system" /\ m # "system"
  BY TheIds DEF Halves
<1>2. /\ Sets(of, names).op = "sets" /\ Sets(of, names).of = of
      /\ Sets(of, names).names = names
  BY DEF Sets
<1> HIDE DEF Halves
<1> QED
  BY <1>1, <1>2 DEF Fits

LEMMA CopiesFits ==
  /\ Fits("io", 2, Copies("io-engine"))
  /\ Fits("os", 2, Copies("os-engine"))
<1>1. /\ Copies("io-engine") = [op |-> "copies", of |-> "io-engine", names |-> {}]
      /\ Copies("os-engine") = [op |-> "copies", of |-> "os-engine", names |-> {}]
  BY DEF Copies
<1>2. "io-engine" \in Ids /\ "os-engine" \in Ids
  BY TheIds
<1> HIDE DEF Copies
<1>3. Fits("io", 2, Copies("io-engine"))
  BY <1>1, <1>2 DEF Fits
<1>4. Fits("os", 2, Copies("os-engine"))
  BY <1>1, <1>2 DEF Fits
<1> QED
  BY <1>3, <1>4

LEMMA ScriptSetsFits ==
  ASSUME NEW m \in Scripts, NEW i, NEW names
  PROVE  Fits(m, i, Sets(m, names))
<1>1. m \in Ids /\ m # "system" /\ m \notin DOMAIN Promised
  BY TheIds, ThePromises DEF Scripts
<1> QED
  BY <1>1, SetsFits

AllFit(m, n) ==
  /\ Len(Body[m]) = n /\ DOMAIN Body[m] = 1 .. n
  /\ \A i \in 1 .. n : Fits(m, i, Body[m][i])

LEMMA IOEngineFits == AllFit("io-engine", 2)
<1>1. Fits("io-engine", 1, Sets("io-engine", IOClasses))
  BY SetsFits, TheIds, ThePromises DEF IOClasses
<1>2. Fits("io-engine", 2, Needs("io-engine.js", {}))
  BY RequiresFits, TheIds, TheRanks DEF Wants
<1> QED
  BY <1>1, <1>2, TheBodies DEF AllFit, io_engine

LEMMA BinaryEngineFits == AllFit("binary-engine", 1)
<1>1. Fits("binary-engine", 1, Sets("binary-engine", Bs))
  BY SetsFits, TheIds, ThePromises
<1> QED
  BY <1>1, TheBodies DEF AllFit, binary_engine

LEMMA FileEngineFits == AllFit("file-engine", 5)
<1>1. Fits("file-engine", 1, Needs("file", {}))
  BY RequiresFits, TheIds, TheRanks DEF Wants
<1>2. Fits("file-engine", 2, Needs("io", {}))
  BY RequiresFits, TheIds, TheRanks, ThePromises DEF Wants, IOClasses
<1>3. Fits("file-engine", 3, Sets("file", FileNames))
  <2>1. FileNames \subseteq Promised["file"]
    BY ThePromises
  <2>2. <<"file-engine", "file">> \in Halves
    BY DEF Halves
  <2> QED
    BY <2>1, <2>2, HalfSetsFits
<1>4. Fits("file-engine", 4, Takes("file-engine.js", {"mkdirs", "touch"}))
  BY RequiresFits, TheIds, TheRanks DEF Wants
<1>5. Fits("file-engine", 5, Sets("file", {"mkdirs", "touch"}))
  <2>1. {"mkdirs", "touch"} \subseteq Promised["file"]
    BY ThePromises
  <2>2. <<"file-engine", "file">> \in Halves
    BY DEF Halves
  <2> QED
    BY <2>1, <2>2, HalfSetsFits
<1> QED
  BY <1>1, <1>2, <1>3, <1>4, <1>5, TheBodies DEF AllFit, file_engine

LEMMA OsEngineFits == AllFit("os-engine", 4)
<1>1. Fits("os-engine", 1, Sets("os-engine", {"exit", "systemImpl", "popenImpl"}))
  BY SetsFits, TheIds, ThePromises
<1>2. Fits("os-engine", 2, Needs("os-engine.js", {}))
  BY RequiresFits, TheIds, TheRanks DEF Wants
<1>3. Fits("os-engine", 3, Needs("io", {}))
  BY RequiresFits, TheIds, TheRanks, ThePromises DEF Wants, IOClasses
<1>4. Fits("os-engine", 4, Needs("io", {"IO"}))
  BY RequiresFits, TheIds, TheRanks, ThePromises DEF Wants, IOClasses
<1> QED
  BY <1>1, <1>2, <1>3, <1>4, TheBodies DEF AllFit, os_engine

LEMMA SystemFits == AllFit("system", 3)
<1>1. Fits("system", 1, Takes("system.js", StdNames))
  BY RequiresFits, TheIds, TheRanks DEF Wants
<1>2. Fits("system", 2, Sets("system", StdNames))
  <2>1. "system" \in Ids /\ StdNames \subseteq Promised["system"]
    BY TheIds, ThePromises
  <2> QED
    BY <2>1, SetsFits
<1>3. Fits("system", 3, CutsEnv)
  BY TheIds, ThePromises DEF Fits, CutsEnv
<1> QED
  BY <1>1, <1>2, <1>3, TheBodies DEF AllFit, system_

LEMMA IOEngineJsFits == AllFit("io-engine.js", 7)
<1>1. Fits("io-engine.js", 1, Needs("io-engine", {}))
  BY RequiresFits, TheIds, TheRanks DEF Wants
<1>2. Fits("io-engine.js", 2, Takes("binary", {"ByteString"}))
  BY RequiresFits, TheIds, TheRanks DEF Wants
<1>3. Fits("io-engine.js", 3, Takes("binary-engine", Bs))
  BY RequiresFits, TheIds, TheRanks DEF Wants
<1>4. Fits("io-engine.js", 4, Needs("io-engine", {"IO"}))
  BY RequiresFits, TheIds, TheRanks, ThePromises DEF Wants, IOClasses
<1>5. Fits("io-engine.js", 5, Sets("io-engine", {"ByteIO", "TextIOWrapper"}))
  <2>1. {"ByteIO", "TextIOWrapper"} \subseteq Promised["io-engine"]
    BY ThePromises
  <2>2. <<"io-engine.js", "io-engine">> \in Halves
    BY DEF Halves
  <2> QED
    BY <2>1, <2>2, HalfSetsFits
<1>6. Fits("io-engine.js", 6, Needs("io-engine", {"TextInputStream"}))
  BY RequiresFits, TheIds, TheRanks, ThePromises DEF Wants, IOClasses
<1>7. Fits("io-engine.js", 7, Sets("io-engine", {"TextOutputStream"}))
  <2>1. {"TextOutputStream"} \subseteq Promised["io-engine"]
    BY ThePromises
  <2>2. <<"io-engine.js", "io-engine">> \in Halves
    BY DEF Halves
  <2> QED
    BY <2>1, <2>2, HalfSetsFits
<1> QED
  BY <1>1, <1>2, <1>3, <1>4, <1>5, <1>6, <1>7, TheBodies DEF AllFit, io_engine_js

LEMMA FileEngineJsFits == AllFit("file-engine.js", 2)
<1>1. Fits("file-engine.js", 1, Needs("file", {}))
  BY RequiresFits, TheIds, TheRanks DEF Wants
<1>2. Fits("file-engine.js", 2, Sets("file-engine.js", {"mkdirs", "touch"}))
  BY ScriptSetsFits DEF Scripts
<1> QED
  BY <1>1, <1>2, TheBodies DEF AllFit, file_engine_js

LEMMA OsEngineJsFits == AllFit("os-engine.js", 3)
<1>1. Fits("os-engine.js", 1, Needs("os-engine", {}))
  BY RequiresFits, TheIds, TheRanks DEF Wants
<1>2. Fits("os-engine.js", 2, Needs("io", {}))
  BY RequiresFits, TheIds, TheRanks, ThePromises DEF Wants, IOClasses
<1>3. Fits("os-engine.js", 3, Sets("os-engine", {"system", "popen"}))
  <2>1. {"system", "popen"} \subseteq Promised["os-engine"]
    BY ThePromises
  <2>2. <<"os-engine.js", "os-engine">> \in Halves
    BY DEF Halves
  <2> QED
    BY <2>1, <2>2, HalfSetsFits
<1> QED
  BY <1>1, <1>2, <1>3, TheBodies DEF AllFit, os_engine_js

LEMMA SystemJsFits == AllFit("system.js", 6)
<1>1. Fits("system.js", 1, Needs("io", IOClasses \cup {"TextOutputStream"}))
  BY RequiresFits, TheIds, TheRanks, ThePromises DEF Wants, IOClasses
<1>2. Fits("system.js", 2, Sets("system.js", {"stdin", "stdout", "stderr", "args", "env"}))
  BY ScriptSetsFits DEF Scripts
<1>3. Fits("system.js", 3, Needs("file", {}))
  BY RequiresFits, TheIds, TheRanks DEF Wants
<1>4. Fits("system.js", 4, Sets("system.js", {"fs"}))
  BY ScriptSetsFits DEF Scripts
<1>5. Fits("system.js", 5, Needs("logger", {"Logger"}))
  BY RequiresFits, TheIds, TheRanks DEF Wants
<1>6. Fits("system.js", 6, Sets("system.js", {"log"}))
  BY ScriptSetsFits DEF Scripts
<1> QED
  BY <1>1, <1>2, <1>3, <1>4, <1>5, <1>6, TheBodies DEF AllFit, system_js

LEMMA IOFits == AllFit("io", 2)
<1>1. Fits("io", 1, Needs("io-engine", {}))
  BY RequiresFits, TheIds, TheRanks DEF Wants
<1>2. Fits("io", 2, Copies("io-engine"))
  BY CopiesFits
<1> QED
  BY <1>1, <1>2, TheBodies DEF AllFit

LEMMA FileFits == AllFit("file", 3)
<1>1. Fits("file", 1, Sets("file", {"mode"}))
  BY SetsFits, TheIds, ThePromises
<1>2. Fits("file", 2, Needs("io", {}))
  BY RequiresFits, TheIds, TheRanks, ThePromises DEF Wants, IOClasses
<1>3. Fits("file", 3, Needs("file-engine", {}))
  BY RequiresFits, TheIds, TheRanks DEF Wants
<1> QED
  BY <1>1, <1>2, <1>3, TheBodies DEF AllFit

LEMMA OsFits == AllFit("os", 2)
<1>1. Fits("os", 1, Needs("os-engine", {}))
  BY RequiresFits, TheIds, TheRanks DEF Wants
<1>2. Fits("os", 2, Copies("os-engine"))
  BY CopiesFits
<1> QED
  BY <1>1, <1>2, TheBodies DEF AllFit

LEMMA BinaryFits == AllFit("binary", 2)
<1>1. Fits("binary", 1, Takes("binary-engine", Bs))
  BY RequiresFits, TheIds, TheRanks DEF Wants
<1>2. Fits("binary", 2, Sets("binary", {"ByteString"}))
  <2>1. "binary" \in Ids /\ {"ByteString"} \subseteq Promised["binary"]
    BY TheIds, ThePromises
  <2> QED
    BY <2>1, SetsFits
<1> QED
  BY <1>1, <1>2, TheBodies DEF AllFit

LEMMA LoggerFits == AllFit("logger", 1)
<1>1. Fits("logger", 1, Sets("logger", {"Logger"}))
  BY SetsFits, TheIds, ThePromises
<1> QED
  BY <1>1, TheBodies DEF AllFit

LEMMA AllBodies ==
  \A m \in Ids : /\ Len(Body[m]) \in Nat /\ DOMAIN Body[m] = 1 .. Len(Body[m])
                 /\ \A i \in DOMAIN Body[m] : Fits(m, i, Body[m][i])
<1>1. \A m, n : AllFit(m, n) /\ n \in Nat
                  => /\ Len(Body[m]) \in Nat /\ DOMAIN Body[m] = 1 .. Len(Body[m])
                     /\ \A i \in DOMAIN Body[m] : Fits(m, i, Body[m][i])
  BY DEF AllFit
<1>2. \A m \in Ids : \E n \in Nat : AllFit(m, n)
  BY TheIds, IOEngineFits, BinaryEngineFits, FileEngineFits, OsEngineFits, SystemFits,
     IOEngineJsFits, FileEngineJsFits, OsEngineJsFits, SystemJsFits, IOFits, FileFits,
     OsFits, BinaryFits, LoggerFits
<1> QED
  BY <1>1, <1>2

-----------------------------------------------------------------------------
(* The loader's inductive invariant.                                       *)

Frames == [id : Ids, at : Nat]

CallRecords == [of : Ids, reload : BOOLEAN]

\* A factory comes from a library that is in the process; where there is none, the
\* library was not good when it was asked for.
Fetched ==
  /\ handle \in [Natives -> Library]
  /\ factories \in [Natives -> {"unasked", "null", "factory"}]
  /\ \A k \in Natives : /\ factories[k] = "factory" => handle[k] = "good"
                        /\ factories[k] = "null" => k \in asked
  /\ asked \subseteq Natives

LoaderTyped ==
  /\ disk \in [Natives -> Library] /\ Fetched
  /\ Known \subseteq Ids
  /\ calls \in Seq(CallRecords) /\ Len(calls) <= MaxCalls
  /\ outcome \in {"ok", "threw", "crashed"}

\* The module of a frame is at a statement that requires another one.
Requiring(f) == f.at \in DOMAIN Body[f.id] /\ Body[f.id][f.at].op \in {"takes", "needs"}

\* What is being loaded: each module is there once, and is required by the one below it,
\* the first by the last call from outside.
Stacked ==
  /\ stack \in Seq(Frames)
  /\ \A i \in DOMAIN stack : /\ stack[i].id \in Known
                             /\ stack[i].at \in 1 .. Len(Body[stack[i].id]) + 1
                             /\ stack[i].id \in Reach[Last(calls).of]
  /\ \A i, j \in DOMAIN stack :
       /\ stack[i].id = stack[j].id => i = j
       /\ i < j => Requiring(stack[i]) /\ Rank[stack[j].id] <= Rank[stack[i].id]
       /\ j = i + 1 => stack[j].id = Body[stack[i].id][stack[i].at].of
  /\ stack # <<>> => outcome = "ok" /\ calls # <<>> /\ stack[1].id = Last(calls).of

\* Who stands below whom on the stack: each has come from a factory and reaches what is
\* above it, straight on where no factory that goes on after a require() is below; and
\* os-engine, when it comes to the last of its two requires of io, finds it known.
Lined ==
  \A i \in DOMAIN stack :
    /\ stack[i].id \in Natives => factories[stack[i].id] = "factory"
    /\ stack[i].id = "os-engine" /\ stack[i].at = 4 => "io" \in Known
    /\ (\A j \in DOMAIN stack : j < i => stack[j].id \notin GoOn)
         => stack[i].id \in Straight[Last(calls).of]
    /\ \A j \in DOMAIN stack :
         j < i => /\ stack[i].id \in Reach[stack[j].id]
                  /\ ~(stack[j].id = "os-engine" /\ stack[j].at = 4)

\* Module m has done its statement i: it is known, and if it is being loaded, past i.
HasRun(m, i) ==
  /\ m \in Known /\ i \in DOMAIN Body[m]
  /\ \A j \in DOMAIN stack : stack[j].id = m => i < stack[j].at

\* What statement i of module m has left behind.
Effect(m, i) ==
  LET s == Body[m][i]
  IN  /\ s.of \in Known
      /\ s.op \in {"sets", "cuts"} => s.names \subseteq exports[s.of]
      /\ s.op = "copies" => Promised[s.of] \subseteq exports[m]

\* As long as every library is good when it is asked for, and nobody reloads one, every
\* statement that was done has its effect, and nothing is missing.
Whole ==
  Undisturbed =>
    /\ missed = {} /\ outcome # "threw"
    /\ outcome # "crashed" => \A m \in Ids : \A i \in DOMAIN Body[m] : HasRun(m, i) => Effect(m, i)

\* No module has more than it promises.
NoMore == \A m \in Known \cap DOMAIN Promised : exports[m] \subseteq Promised[m]

\* The environment is cut when env has its variables; a system module that is known and
\* has not cut it is still being loaded, and has not come further than the cut.
Cut ==
  /\ cuts \in Nat
  /\ \/ environ = Variables /\ (Variables # {} => cuts = 0)
     \/ environ = {} /\ env = Variables /\ cuts >= 1 /\ (outcome # "crashed" => cuts = 1)
  /\ env = {} \/ env = Variables
  /\ "system" \in Known /\ outcome # "crashed" =>
       \/ \E i \in DOMAIN stack : stack[i].id = "system" /\ stack[i].at <= 3
       \/ env = Variables /\ "env" \in exports["system"]

LoaderInv ==
  LoaderTyped /\ Stacked /\ Lined /\ Whole /\ NoMore /\ Cut /\ ThrowsOnlyForMissing

LEMMA TheStatements ==
  /\ {1, 2} \subseteq DOMAIN Body["io-engine"]
  /\ Body["io-engine"][1] = Sets("io-engine", IOClasses)
  /\ Body["io-engine"][2] = Needs("io-engine.js", {})
  /\ {5, 7} \subseteq DOMAIN Body["io-engine.js"]
  /\ Body["io-engine.js"][5] = Sets("io-engine", {"ByteIO", "TextIOWrapper"})
  /\ Body["io-engine.js"][7] = Sets("io-engine", {"TextOutputStream"})
  /\ {1, 2, 3, 4} \subseteq DOMAIN Body["os-engine"]
  /\ Body["os-engine"][1] = Sets("os-engine", {"exit", "systemImpl", "popenImpl"})
  /\ Body["os-engine"][2] = Needs("os-engine.js", {})
  /\ Body["os-engine"][3] = Needs("io", {}) /\ Body["os-engine"][4] = Needs("io", {"IO"})
  /\ 3 \in DOMAIN Body["os-engine.js"]
  /\ Body["os-engine.js"][3] = Sets("os-engine", {"system", "popen"})
  /\ 1 \in DOMAIN Body["binary-engine"]
  /\ Body["binary-engine"][1] = Sets("binary-engine", Bs)
  /\ {3, 5} \subseteq DOMAIN Body["file-engine"]
  /\ Body["file-engine"][3] = Sets("file", FileNames)
  /\ Body["file-engine"][5] = Sets("file", {"mkdirs", "touch"})
  /\ 2 \in DOMAIN Body["file-engine.js"]
  /\ Body["file-engine.js"][2] = Sets("file-engine.js", {"mkdirs", "touch"})
  /\ {2, 3} \subseteq DOMAIN Body["system"]
  /\ Body["system"][2] = Sets("system", StdNames) /\ Body["system"][3] = CutsEnv
  /\ {2, 4, 6} \subseteq DOMAIN Body["system.js"]
  /\ Body["system.js"][2] = Sets("system.js", {"stdin", "stdout", "stderr", "args", "env"})
  /\ Body["system.js"][4] = Sets("system.js", {"fs"})
  /\ Body["system.js"][6] = Sets("system.js", {"log"})
  /\ {1, 2} \subseteq DOMAIN Body["io"]
  /\ Body["io"][1] = Needs("io-engine", {}) /\ Body["io"][2] = Copies("io-engine")
  /\ {1, 3} \subseteq DOMAIN Body["file"]
  /\ Body["file"][1] = Sets("file", {"mode"}) /\ Body["file"][3] = Needs("file-engine", {})
  /\ {1, 2} \subseteq DOMAIN Body["os"]
  /\ Body["os"][1] = Needs("os-engine", {}) /\ Body["os"][2] = Copies("os-engine")
  /\ 2 \in DOMAIN Body["binary"] /\ Body["binary"][2] = Sets("binary", {"ByteString"})
  /\ 1 \in DOMAIN Body["logger"] /\ Body["logger"][1] = Sets("logger", {"Logger"})
BY TheBodies DEF io_engine, binary_engine, file_engine, os_engine, system_, io_engine_js,
                 file_engine_js, os_engine_js, system_js

-----------------------------------------------------------------------------
(* What the stack of the modules that are being loaded looks like, and     *)
(* what becomes of it.                                                     *)

LEMMA RequiresFacts ==
  ASSUME NEW m \in Ids
  PROVE  /\ Requires(m) \subseteq Ids
         /\ \A i \in DOMAIN Body[m] :
              Body[m][i].op \in {"takes", "needs"} => Body[m][i].of \in Requires(m)
<1>1. \A s : s \in Range(Body[m]) <=> \E i \in DOMAIN Body[m] : s = Body[m][i]
  BY DEF Range
<1>2. \A i \in DOMAIN Body[m] : Body[m][i].of \in Ids
  BY AllBodies DEF Fits
<1>3. Requires(m) \subseteq Ids
  BY <1>1, <1>2 DEF Requires
<1>4. ASSUME NEW i \in DOMAIN Body[m], Body[m][i].op \in {"takes", "needs"}
      PROVE  Body[m][i].of \in Requires(m)
  BY <1>1, <1>4 DEF Requires
<1> QED
  BY <1>3, <1>4

\* What a module reaches, itself among it, has all that it requires.
LEMMA ReachFacts ==
  ASSUME NEW m \in Ids
  PROVE  m \in Reach[m] /\ \A k \in Reach[m] : Requires(k) \subseteq Reach[m]
<1>1. Reach[m] = {k \in Ids : \A S \in Closed : m \in S => k \in S}
  BY DEF Reach
<1>2. ASSUME NEW k \in Reach[m], NEW r \in Requires(k)
      PROVE  r \in Reach[m]
  <2>1. k \in Ids /\ r \in Ids
    BY <1>1, RequiresFacts
  <2>2. ASSUME NEW S \in Closed, m \in S
        PROVE  r \in S
    <3>1. k \in S
      BY <1>1, <2>2
    <3> QED
      BY <3>1 DEF Closed
  <2> QED
    BY <1>1, <2>1, <2>2
<1> QED
  BY <1>1, <1>2

\* The same, as far as no factory that goes on after a require() is passed.
LEMMA StraightFacts ==
  ASSUME NEW m \in Ids
  PROVE  /\ m \in Straight[m]
         /\ \A k \in Straight[m] \ GoOn : Requires(k) \subseteq Straight[m]
<1>1. Straight[m] = {k \in Ids : \A S \in Free : m \in S => k \in S}
  BY DEF Straight
<1>2. ASSUME NEW k \in Straight[m], k \notin GoOn, NEW r \in Requires(k)
      PROVE  r \in Straight[m]
  <2>1. k \in Ids /\ r \in Ids
    BY <1>1, RequiresFacts
  <2>2. ASSUME NEW S \in Free, m \in S
        PROVE  r \in S
    <3>1. k \in S
      BY <1>1, <2>2
    <3> QED
      BY <1>2, <3>1 DEF Free
  <2> QED
    BY <1>1, <2>1, <2>2
<1> QED
  BY <1>1, <1>2

LEMMA TopFacts ==
  ASSUME LoaderInv, stack # <<>>
  PROVE  /\ Len(stack) \in Nat \ {0} /\ DOMAIN stack = 1 .. Len(stack)
         /\ stack \in Seq(Frames) /\ Top = stack[Len(stack)] /\ Top \in Frames
         /\ Top.id \in Known /\ Top.id \in Ids /\ Top.at \in Nat
         /\ Top.at \in 1 .. Len(Body[Top.id]) + 1
         /\ Front(stack) \in Seq(Frames) /\ Len(Front(stack)) = Len(stack) - 1
         /\ \A i \in 1 .. Len(stack) - 1 : Front(stack)[i] = stack[i]
<1>1. stack \in Seq(Frames)
  BY DEF LoaderInv, Stacked
<1>2. Len(stack) \in Nat \ {0} /\ DOMAIN stack = 1 .. Len(stack)
  BY <1>1, EmptySeq, LenProperties
<1>3. Top = stack[Len(stack)] /\ Top \in Frames
  BY <1>1, <1>2 DEF Top, Last
<1>4. Top.id \in Known /\ Top.at \in 1 .. Len(Body[Top.id]) + 1
  BY <1>2, <1>3 DEF LoaderInv, Stacked
<1>5. Top.id \in Ids /\ Top.at \in Nat
  BY <1>3 DEF Frames
<1>6. /\ Front(stack) \in Seq(Frames) /\ Len(Front(stack)) = Len(stack) - 1
      /\ \A i \in 1 .. Len(stack) - 1 : Front(stack)[i] = stack[i]
  BY <1>1, FrontFacts
<1> QED
  BY <1>1, <1>2, <1>3, <1>4, <1>5, <1>6

\* The top goes on to its next statement.
Advanced == Front(stack) \o <<After(Top)>>

LEMMA AdvancedFacts ==
  ASSUME LoaderInv, stack # <<>>
  PROVE  /\ Advanced \in Seq(Frames) /\ Len(Advanced) = Len(stack)
         /\ DOMAIN Advanced = 1 .. Len(stack)
         /\ \A i \in 1 .. Len(stack) : Advanced[i].id = stack[i].id
         /\ \A i \in 1 .. Len(stack) - 1 : Advanced[i] = stack[i]
         /\ Advanced[Len(stack)].at = Top.at + 1
<1> DEFINE f == Front(stack)
           a == <<After(Top)>>
           t == f \o a
<1>1. PICK n \in Nat \ {0} : n = Len(stack)
  BY TopFacts
<1>2. /\ f \in Seq(Frames) /\ Len(f) = n - 1 /\ \A i \in 1 .. n - 1 : f[i] = stack[i]
  BY <1>1, TopFacts
<1>3. After(Top) \in Frames /\ After(Top).id = Top.id /\ After(Top).at = Top.at + 1
  <2>1. \A x \in Frames : /\ After(x) \in Frames /\ After(x).id = x.id
                          /\ After(x).at = x.at + 1
    BY DEF After, Frames
  <2> HIDE DEF f, a, t
  <2> QED
    BY <2>1, TopFacts
<1>4. a \in Seq(Frames) /\ Len(a) = 1 /\ a[1] = After(Top)
  BY <1>3
<1> HIDE DEF f, a
<1>5. /\ t \in Seq(Frames) /\ Len(t) = Len(f) + Len(a)
      /\ \A i \in 1 .. Len(f) + Len(a) : t[i] = IF i <= Len(f) THEN f[i] ELSE a[i - Len(f)]
  BY <1>2, <1>4, ConcatProperties
<1>6. t = Advanced
  BY DEF Advanced, f, a
<1> HIDE DEF t
<1>7. Len(t) = n
  BY <1>2, <1>4, <1>5
<1>8. DOMAIN t = 1 .. n
  BY <1>5, <1>7, LenProperties
<1>9. \A i \in 1 .. n - 1 : t[i] = stack[i]
  BY <1>2, <1>4, <1>5
<1>10. t[n] = After(Top)
  BY <1>2, <1>4, <1>5
<1>11. Top = stack[n]
  BY <1>1, TopFacts
<1>12. \A i \in 1 .. n : t[i].id = stack[i].id
  <2> TAKE i \in 1 .. n
  <2>1. CASE i = n
    BY <1>3, <1>10, <1>11, <2>1
  <2>2. CASE i # n
    BY <1>9, <2>2
  <2> QED
    BY <2>1, <2>2
<1> QED
  BY <1>1, <1>3, <1>5, <1>6, <1>7, <1>8, <1>9, <1>10, <1>12

\* Module m is asked for by a call from outside, or by the top.
AskedFor(m) ==
  \/ stack = <<>> /\ calls' = Append(calls, Call(m, FALSE))
  \/ stack # <<>> /\ Requiring(Top) /\ m = Statement.of /\ calls' = calls

LEMMA LastOfAppend ==
  ASSUME NEW S, NEW s \in Seq(S), NEW e \in S
  PROVE  /\ Append(s, e) \in Seq(S) /\ Append(s, e) # <<>> /\ Last(Append(s, e)) = e
         /\ Len(Append(s, e)) = Len(s) + 1 /\ Append(s, e)[Len(s) + 1] = e
         /\ \A i \in 1 .. Len(s) : Append(s, e)[i] = s[i]
<1>1. PICK n \in Nat : n = Len(s)
  BY LenProperties
<1> DEFINE t == Append(s, e)
<1>2. /\ t \in Seq(S) /\ Len(t) = n + 1 /\ t[n + 1] = e
      /\ \A i \in 1 .. n : t[i] = s[i]
  BY <1>1
<1> HIDE DEF t
<1>3. t # <<>>
  BY <1>2, EmptySeq
<1>4. Last(t) = e
  BY <1>2 DEF Last
<1> QED
  BY <1>1, <1>2, <1>3, <1>4 DEF t

LEMMA AskedFacts ==
  ASSUME LoaderInv, NEW m \in Ids, AskedFor(m)
  PROVE  /\ calls' \in Seq(CallRecords) /\ calls' # <<>> /\ Last(calls').of \in Ids
         /\ m \in Reach[Last(calls').of]
         /\ stack # <<>> => Last(calls') = Last(calls) /\ Rank[m] <= Rank[Top.id]
<1>1. CASE stack = <<>> /\ calls' = Append(calls, Call(m, FALSE))
  <2>1. Call(m, FALSE) \in CallRecords /\ Call(m, FALSE).of = m
    BY DEF Call, CallRecords
  <2>2. calls \in Seq(CallRecords)
    BY DEF LoaderInv, LoaderTyped
  <2>3. calls' \in Seq(CallRecords) /\ calls' # <<>> /\ Last(calls') = Call(m, FALSE)
    <3> HIDE DEF CallRecords
    <3> QED
      BY <1>1, <2>1, <2>2, LastOfAppend
  <2> QED
    BY <1>1, <2>1, <2>3, ReachFacts
<1>2. CASE stack # <<>> /\ Requiring(Top) /\ m = Statement.of /\ calls' = calls
  <2>1. calls \in Seq(CallRecords) /\ calls # <<>>
    BY <1>2 DEF LoaderInv, LoaderTyped, Stacked
  <2>2. Last(calls) \in CallRecords /\ Last(calls).of \in Ids
    <3>1. Len(calls) \in 1 .. Len(calls)
      BY <2>1, EmptySeq
    <3>2. Last(calls) \in CallRecords
      BY <2>1, <3>1, ElementOfSeq DEF Last
    <3> QED
      BY <3>2 DEF CallRecords
  <2>3. /\ Top.id \in Ids /\ Top.id \in Reach[Last(calls).of]
    BY <1>2, TopFacts DEF LoaderInv, Stacked
  <2>4. m \in Requires(Top.id) /\ Rank[m] <= Rank[Top.id]
    BY <1>2, <2>3, RequiresFacts, AllBodies DEF Requiring, Statement, Fits
  <2>5. m \in Reach[Last(calls).of]
    BY <2>2, <2>3, <2>4, ReachFacts
  <2> QED
    BY <1>2, <2>1, <2>2, <2>4, <2>5
<1> QED
  BY <1>1, <1>2 DEF AskedFor

LEMMA TheRanksAreInts == \A m \in Ids : Rank[m] \in Int
BY TheIds, TheRanks

LEMMA PushKeeps ==
  ASSUME LoaderInv, NEW m \in Ids, m \notin Known, AskedFor(m),
         stack' = Append(stack, [id |-> m, at |-> 1]), Known' = Known \cup {m}, outcome' = "ok"
  PROVE  Stacked'
<1> DEFINE e == [id |-> m, at |-> 1]
           c == Last(calls').of
<1>1. /\ calls' # <<>> /\ c \in Ids /\ m \in Reach[c]
      /\ stack # <<>> => Last(calls') = Last(calls) /\ Rank[m] <= Rank[Top.id]
  BY AskedFacts
<1>2. stack \in Seq(Frames) /\ e \in Frames
  BY DEF LoaderInv, Stacked, Frames
<1>3. PICK n \in Nat : n = Len(stack) /\ DOMAIN stack = 1 .. n
  BY <1>2, LenProperties
<1>4. PICK t \in Seq(Frames) : t = stack'
  BY <1>2, LastOfAppend
<1>5. /\ Len(t) = n + 1 /\ t[n + 1] = e /\ \A i \in 1 .. n : t[i] = stack[i]
  BY <1>2, <1>3, <1>4, LastOfAppend
<1>6. DOMAIN t = 1 .. n + 1
  BY <1>4, <1>5, LenProperties
<1>7. n = 0 <=> stack = <<>>
  BY <1>2, <1>3, EmptySeq
<1>8. n # 0 => Top = stack[n] /\ Requiring(Top) /\ m = Statement.of /\ Last(calls') = Last(calls)
               /\ Rank[m] <= Rank[Top.id] /\ Top.id \in Ids
  BY <1>1, <1>3, <1>7, TopFacts DEF AskedFor
<1>9. \A i \in 1 .. n + 1 : /\ t[i].id \in Known'
                            /\ t[i].at \in 1 .. Len(Body[t[i].id]) + 1
                            /\ t[i].id \in Reach[c]
  <2> TAKE i \in 1 .. n + 1
  <2>1. CASE i = n + 1
    BY <1>1, <1>5, <2>1, AllBodies
  <2>2. CASE i # n + 1
    <3>1. i \in 1 .. n /\ n # 0
      BY <2>2
    <3> QED
      BY <1>3, <1>5, <1>8, <3>1 DEF LoaderInv, Stacked
  <2> QED
    BY <2>1, <2>2
<1>10. \A i \in 1 .. n : stack[i].id \in Known /\ stack[i].id \in Ids
  BY <1>3 DEF LoaderInv, LoaderTyped, Stacked
<1>11. ASSUME NEW i \in 1 .. n + 1, NEW j \in 1 .. n + 1
       PROVE  /\ t[i].id = t[j].id => i = j
              /\ i < j => Requiring(t[i]) /\ Rank[t[j].id] <= Rank[t[i].id]
              /\ j = i + 1 => t[j].id = Body[t[i].id][t[i].at].of
  <2>1. CASE i # n + 1 /\ j # n + 1
    <3>1. i \in DOMAIN stack /\ j \in DOMAIN stack /\ t[i] = stack[i] /\ t[j] = stack[j]
      BY <1>3, <1>5, <2>1
    <3> QED
      BY <3>1 DEF LoaderInv, Stacked
  <2>2. CASE i = n + 1
    <3>1. ~(i < j) /\ j # i + 1 /\ t[i].id = m
      BY <1>5, <2>2
    <3>2. j # n + 1 => t[j].id # m
      BY <1>5, <1>10
    <3> QED
      BY <2>2, <3>1, <3>2
  <2>3. CASE i # n + 1 /\ j = n + 1
    <3>1. i \in 1 .. n /\ n # 0 /\ t[i] = stack[i] /\ t[j].id = m /\ (j = i + 1 => i = n)
      BY <1>5, <2>3
    <3>2. t[i].id # t[j].id
      BY <1>10, <3>1
    <3>3. CASE i = n
      BY <1>8, <3>1, <3>2, <3>3 DEF Statement
    <3>4. CASE i # n
      <4>1. i < n /\ i \in DOMAIN stack /\ n \in DOMAIN stack
        BY <1>3, <3>1, <3>4
      <4>2. Requiring(stack[i]) /\ Rank[stack[n].id] <= Rank[stack[i].id]
        BY <4>1 DEF LoaderInv, Stacked
      <4>3. Rank[m] <= Rank[stack[i].id]
        BY <1>8, <1>10, <3>1, <4>2, TheRanksAreInts
      <4> QED
        BY <3>1, <3>2, <3>4, <4>2, <4>3
    <3> QED
      BY <3>3, <3>4
  <2> QED
    BY <2>1, <2>2, <2>3
<1>12. t[1].id = c
  <2>1. CASE n = 0
    <3>1. Call(m, FALSE) \in CallRecords /\ Call(m, FALSE).of = m
      BY DEF Call, CallRecords
    <3>2. calls \in Seq(CallRecords) /\ calls' = Append(calls, Call(m, FALSE))
      BY <1>7, <2>1 DEF AskedFor, LoaderInv, LoaderTyped
    <3>3. Last(calls') = Call(m, FALSE)
      BY <3>1, <3>2, LastOfAppend
    <3>4. c = m
      BY <3>1, <3>3
    <3>5. t[1] = e /\ e.id = m
      BY <1>5, <2>1
    <3> HIDE DEF c, e
    <3> QED
      BY <3>4, <3>5
  <2>2. CASE n # 0
    BY <1>5, <1>7, <1>8, <2>2 DEF LoaderInv, Stacked
  <2> QED
    BY <2>1, <2>2
<1>13. stack' = t /\ DOMAIN t = 1 .. n + 1 /\ t \in Seq(Frames)
  BY <1>4, <1>6
<1> HIDE DEF c, e
<1>14. \A i \in DOMAIN stack' : /\ stack'[i].id \in Known'
                                /\ stack'[i].at \in 1 .. Len(Body[stack'[i].id]) + 1
                                /\ stack'[i].id \in Reach[Last(calls').of]
  BY <1>9, <1>13 DEF c
<1>15. \A i, j \in DOMAIN stack' :
         /\ stack'[i].id = stack'[j].id => i = j
         /\ i < j => /\ stack'[i].at \in DOMAIN Body[stack'[i].id]
                     /\ Body[stack'[i].id][stack'[i].at].op \in {"takes", "needs"}
                     /\ Rank[stack'[j].id] <= Rank[stack'[i].id]
         /\ j = i + 1 => stack'[j].id = Body[stack'[i].id][stack'[i].at].of
  BY <1>11, <1>13 DEF Requiring
<1>16. stack'[1].id = Last(calls').of
  BY <1>12, <1>13 DEF c
<1> QED
  BY <1>1, <1>13, <1>14, <1>15, <1>16 DEF Stacked, Requiring

LEMMA AdvanceKeeps ==
  ASSUME LoaderInv, stack # <<>>, Top.at \in DOMAIN Body[Top.id],
         stack' = Advanced, Known \subseteq Known', calls' = calls, outcome' = outcome
  PROVE  Stacked'
<1>1. PICK n \in Nat \ {0} : n = Len(stack) /\ DOMAIN stack = 1 .. n /\ Top = stack[n]
  BY TopFacts
<1>2. PICK t \in Seq(Frames) : t = stack'
  BY AdvancedFacts
<1>3. /\ DOMAIN t = 1 .. n /\ \A i \in 1 .. n : t[i].id = stack[i].id
      /\ \A i \in 1 .. n - 1 : t[i] = stack[i]
      /\ t[n].at = Top.at + 1
  BY <1>1, <1>2, AdvancedFacts
<1>4. Top.id \in Ids /\ Len(Body[Top.id]) \in Nat /\ DOMAIN Body[Top.id] = 1 .. Len(Body[Top.id])
  BY TopFacts, AllBodies
<1>5. t # <<>> /\ t[1].id = stack[1].id
  BY <1>1, <1>3
<1>6. \A i \in 1 .. n : /\ t[i].id \in Known' /\ t[i].id \in Reach[Last(calls).of]
                        /\ t[i].at \in 1 .. Len(Body[t[i].id]) + 1
  <2> TAKE i \in 1 .. n
  <2>1. /\ stack[i].id \in Known /\ stack[i].id \in Reach[Last(calls).of]
        /\ stack[i].at \in 1 .. Len(Body[stack[i].id]) + 1
    BY <1>1 DEF LoaderInv, Stacked
  <2>2. CASE i = n
    <3>1. t[i].at \in 1 .. Len(Body[Top.id]) + 1
      BY <1>3, <1>4, <2>2
    <3> QED
      BY <1>1, <1>3, <2>1, <2>2, <3>1
  <2>3. CASE i # n
    <3>1. t[i] = stack[i]
      BY <1>3, <2>3
    <3> QED
      BY <2>1, <3>1
  <2> QED
    BY <2>2, <2>3
<1>7. \A i, j \in 1 .. n :
        /\ t[i].id = t[j].id => i = j
        /\ i < j => /\ t[i].at \in DOMAIN Body[t[i].id]
                    /\ Body[t[i].id][t[i].at].op \in {"takes", "needs"}
                    /\ Rank[t[j].id] <= Rank[t[i].id]
        /\ j = i + 1 => t[j].id = Body[t[i].id][t[i].at].of
  <2> TAKE i, j \in 1 .. n
  <2>1. /\ stack[i].id = stack[j].id => i = j
        /\ i < j => Requiring(stack[i]) /\ Rank[stack[j].id] <= Rank[stack[i].id]
        /\ j = i + 1 => stack[j].id = Body[stack[i].id][stack[i].at].of
    BY <1>1 DEF LoaderInv, Stacked
  <2>2. i < j \/ j = i + 1 => i \in 1 .. n - 1
    OBVIOUS
  <2> QED
    BY <1>3, <2>1, <2>2 DEF Requiring
<1>8. outcome' = "ok" /\ calls' # <<>> /\ t[1].id = Last(calls').of
  BY <1>5 DEF LoaderInv, Stacked
<1> QED
  BY <1>2, <1>3, <1>5, <1>6, <1>7, <1>8 DEF Stacked, Requiring

LEMMA PopKeeps ==
  ASSUME LoaderInv, stack # <<>>, stack' = Front(stack), Known' = Known, calls' = calls,
         outcome' = "ok"
  PROVE  Stacked'
<1>1. PICK n \in Nat : n + 1 = Len(stack) /\ DOMAIN stack = 1 .. n + 1
  <2>1. Len(stack) \in Nat \ {0} /\ DOMAIN stack = 1 .. Len(stack)
    BY TopFacts
  <2>2. Len(stack) - 1 \in Nat /\ (Len(stack) - 1) + 1 = Len(stack)
    BY <2>1
  <2> QED
    BY <2>1, <2>2
<1>2. PICK t \in Seq(Frames) : t = stack'
  BY TopFacts
<1>3. /\ Len(t) = n /\ \A i \in 1 .. n : t[i] = stack[i]
  BY <1>1, <1>2, TopFacts
<1>4. DOMAIN t = 1 .. n
  BY <1>3, LenProperties
<1>5. \A i \in 1 .. n : /\ t[i].id \in Known' /\ t[i].id \in Reach[Last(calls').of]
                        /\ t[i].at \in 1 .. Len(Body[t[i].id]) + 1
  <2> TAKE i \in 1 .. n
  <2>1. i \in DOMAIN stack /\ t[i] = stack[i]
    BY <1>1, <1>3
  <2> QED
    BY <2>1 DEF LoaderInv, Stacked
<1>6. \A i, j \in 1 .. n :
        /\ t[i].id = t[j].id => i = j
        /\ i < j => /\ t[i].at \in DOMAIN Body[t[i].id]
                    /\ Body[t[i].id][t[i].at].op \in {"takes", "needs"}
                    /\ Rank[t[j].id] <= Rank[t[i].id]
        /\ j = i + 1 => t[j].id = Body[t[i].id][t[i].at].of
  <2> TAKE i, j \in 1 .. n
  <2>1. i \in DOMAIN stack /\ t[i] = stack[i] /\ j \in DOMAIN stack /\ t[j] = stack[j]
    BY <1>1, <1>3
  <2> QED
    BY <2>1 DEF LoaderInv, Stacked, Requiring
<1>7. t # <<>> => calls' # <<>> /\ t[1].id = Last(calls').of
  <2>1. t # <<>> => 1 \in 1 .. n
    BY <1>3, EmptySeq
  <2> QED
    BY <1>1, <1>3, <2>1 DEF LoaderInv, Stacked
<1> QED
  BY <1>2, <1>4, <1>5, <1>6, <1>7 DEF Stacked, Requiring

\* An exception leaves nothing of it.
LEMMA EmptyKeeps ==
  ASSUME stack' = <<>>
  PROVE  Stacked'
<1>1. <<>> \in Seq(Frames) /\ DOMAIN stack' = {}
  OBVIOUS
<1> QED
  BY <1>1 DEF Stacked

\* Which factories change while a module is asked for.
LEMMA LoadFactories ==
  ASSUME LoaderInv, NEW m \in Ids, Load(m, stack)
  PROVE  /\ \A k \in Natives \ {m} : factories'[k] = factories[k]
         /\ m \in Natives => factories'[m] \in {"null", "factory"}
<1>1. factories \in [Natives -> {"unasked", "null", "factory"}]
  BY DEF LoaderInv, LoaderTyped, Fetched
<1>2. CASE m \in Natives /\ Loads(m)
  <2>1. factories' = [factories EXCEPT ![m] = Result(m)]
    BY <1>2 DEF Load, Fetch
  <2>2. Result(m) \in {"null", "factory"}
    BY DEF Result
  <2> QED
    BY <1>1, <2>1, <2>2
<1>3. CASE ~(m \in Natives /\ Loads(m))
  <2>1. factories' = factories
    BY <1>3 DEF Load
  <2> QED
    BY <1>1, <1>3, <2>1 DEF Loads
<1> QED
  BY <1>2, <1>3

\* A module that is asked for is reached by all that are being loaded; straight from the
\* call, where none of them goes on after a require().
LEMMA AskedLines ==
  ASSUME LoaderInv, NEW m \in Ids, AskedFor(m)
  PROVE  /\ \A i \in DOMAIN stack : m \in Reach[stack[i].id]
         /\ (\A i \in DOMAIN stack : stack[i].id \notin GoOn) => m \in Straight[Last(calls').of]
<1>1. CASE stack = <<>>
  <2>1. Call(m, FALSE) \in CallRecords /\ Call(m, FALSE).of = m
    BY DEF Call, CallRecords
  <2>2. calls \in Seq(CallRecords) /\ calls' = Append(calls, Call(m, FALSE))
    BY <1>1 DEF LoaderInv, LoaderTyped, AskedFor
  <2>3. Last(calls') = Call(m, FALSE)
    <3> HIDE DEF CallRecords
    <3> QED
      BY <2>1, <2>2, LastOfAppend
  <2>4. m \in Straight[m] /\ Last(calls').of = m
    BY <2>1, <2>3, StraightFacts
  <2>5. DOMAIN stack = {}
    BY <1>1
  <2> QED
    BY <2>4, <2>5
<1>2. CASE stack # <<>>
  <2>1. PICK n \in Nat \ {0} : n = Len(stack) /\ DOMAIN stack = 1 .. n /\ Top = stack[n]
    BY <1>2, TopFacts
  <2>2. m \in Requires(Top.id) /\ Top.id \in Ids /\ Last(calls').of = Last(calls).of
    <3>1. Top.id \in Ids /\ Requiring(Top) /\ m = Statement.of /\ calls' = calls
      BY <1>2, TopFacts DEF AskedFor
    <3> QED
      BY <3>1, RequiresFacts DEF Requiring, Statement
  <2>3. ASSUME NEW i \in DOMAIN stack
        PROVE  m \in Reach[stack[i].id]
    <3>1. stack[i].id \in Ids
      BY <2>1 DEF LoaderInv, LoaderTyped, Stacked
    <3>2. Top.id \in Reach[stack[i].id]
      <4>1. CASE i = n
        BY <2>1, <3>1, <4>1, ReachFacts
      <4>2. CASE i # n
        <5>1. i < n /\ n \in DOMAIN stack
          BY <2>1, <4>2
        <5> QED
          BY <2>1, <5>1 DEF LoaderInv, Lined
      <4> QED
        BY <4>1, <4>2
    <3> QED
      BY <2>2, <3>1, <3>2, ReachFacts
  <2>4. ASSUME \A i \in DOMAIN stack : stack[i].id \notin GoOn
        PROVE  m \in Straight[Last(calls).of]
    <3>1. n \in DOMAIN stack
      BY <2>1
    <3>2. Top.id \in Straight[Last(calls).of] /\ Top.id \notin GoOn
      BY <2>1, <2>4, <3>1 DEF LoaderInv, Lined
    <3>3. Last(calls).of \in Ids
      BY <1>2, <2>2, AskedFacts
    <3> QED
      BY <2>2, <3>2, <3>3, StraightFacts
  <2> QED
    BY <2>2, <2>3, <2>4
<1> QED
  BY <1>1, <1>2

LEMMA PushLines ==
  ASSUME LoaderInv, NEW m \in Ids, m \notin Known, AskedFor(m),
         stack' = Append(stack, [id |-> m, at |-> 1]), Known' = Known \cup {m},
         m \in Natives => factories'[m] = "factory",
         \A k \in Natives \ {m} : factories'[k] = factories[k]
  PROVE  Lined'
<1> DEFINE e == [id |-> m, at |-> 1]
<1>1. stack \in Seq(Frames) /\ e \in Frames /\ e.id = m /\ e.at = 1
  BY DEF LoaderInv, Stacked, Frames
<1>2. PICK n \in Nat : n = Len(stack) /\ DOMAIN stack = 1 .. n
  BY <1>1, LenProperties
<1>3. PICK t \in Seq(Frames) : t = stack'
  BY <1>1, LastOfAppend
<1>4. /\ Len(t) = n + 1 /\ t[n + 1] = e /\ \A i \in 1 .. n : t[i] = stack[i]
  BY <1>1, <1>2, <1>3, LastOfAppend
<1>5. DOMAIN t = 1 .. n + 1
  BY <1>3, <1>4, LenProperties
<1> HIDE DEF e
<1>6. PICK c : c = Last(calls').of
  OBVIOUS
<1>7. n # 0 => c = Last(calls).of
  <2>1. n # 0 => stack # <<>>
    BY <1>1, <1>2, EmptySeq
  <2> QED
    BY <1>6, <2>1, AskedFacts
<1>8. \A i \in 1 .. n :
        /\ stack[i].id \in Known /\ stack[i].id # m
        /\ stack[i].id \in Natives => factories'[stack[i].id] = "factory"
        /\ stack[i].id = "os-engine" /\ stack[i].at = 4 => "io" \in Known
  BY <1>2 DEF LoaderInv, Stacked, Lined
<1>9. \A i \in 1 .. n : m \in Reach[stack[i].id]
  BY <1>2, AskedLines
<1>10. ASSUME NEW i \in 1 .. n, stack[i].id = "os-engine", stack[i].at = 4
       PROVE  FALSE
  <2>1. n # 0 /\ stack # <<>> /\ n \in 1 .. n
    BY <1>1, <1>2, <1>10, EmptySeq
  <2>2. i = n
    BY <1>2, <1>10, <2>1 DEF LoaderInv, Lined
  <2>3. Top = stack[n] /\ m = Statement.of
    BY <1>2, <2>1, TopFacts DEF AskedFor
  <2>4. m = "io"
    <3>1. Statement = Needs("io", {"IO"})
      BY <1>10, <2>2, <2>3, TheStatements DEF Statement
    <3> QED
      BY <2>3, <3>1 DEF Needs
  <2> QED
    BY <1>8, <1>10, <2>4
<1>11. ASSUME NEW i \in 1 .. n + 1
       PROVE  /\ t[i].id \in Natives => factories'[t[i].id] = "factory"
              /\ t[i].id = "os-engine" /\ t[i].at = 4 => "io" \in Known'
              /\ (\A j \in 1 .. n + 1 : j < i => t[j].id \notin GoOn) => t[i].id \in Straight[c]
              /\ \A j \in 1 .. n + 1 :
                   j < i => /\ t[i].id \in Reach[t[j].id]
                            /\ ~(t[j].id = "os-engine" /\ t[j].at = 4)
  <2>1. CASE i = n + 1
    <3>1. t[i].id = m /\ t[i].at = 1 /\ \A j \in 1 .. n + 1 : j < i => j \in 1 .. n /\ t[j] = stack[j]
      BY <1>1, <1>4, <2>1
    <3>2. \A j \in 1 .. n : j \in 1 .. n + 1 /\ j < i /\ t[j] = stack[j]
      BY <1>4, <2>1
    <3>3. (\A j \in 1 .. n : stack[j].id \notin GoOn) => m \in Straight[c]
      BY <1>2, <1>6, AskedLines
    <3> QED
      BY <1>9, <1>10, <3>1, <3>2, <3>3
  <2>2. CASE i # n + 1
    <3>1. /\ i \in 1 .. n /\ n # 0 /\ t[i] = stack[i]
          /\ \A j \in 1 .. n + 1 : j < i <=> (j \in 1 .. n /\ j < i)
          /\ \A j \in 1 .. n : j \in 1 .. n + 1 /\ t[j] = stack[j]
      BY <1>4, <2>2
    <3>2. /\ (\A j \in 1 .. n : j < i => stack[j].id \notin GoOn) => stack[i].id \in Straight[c]
          /\ \A j \in 1 .. n : j < i => stack[i].id \in Reach[stack[j].id]
      BY <1>2, <1>7, <3>1 DEF LoaderInv, Lined
    <3>3. /\ stack[i].id \in Natives => factories'[stack[i].id] = "factory"
          /\ stack[i].id = "os-engine" /\ stack[i].at = 4 => "io" \in Known
      BY <1>8, <3>1
    <3>4. "io" \in Known => "io" \in Known'
      OBVIOUS
    <3>5. \A j \in 1 .. n : ~(stack[j].id = "os-engine" /\ stack[j].at = 4)
      BY <1>10
    <3>6. ASSUME \A j \in 1 .. n + 1 : j < i => t[j].id \notin GoOn
          PROVE  t[i].id \in Straight[c]
      <4>1. ASSUME NEW j \in 1 .. n, j < i
            PROVE  stack[j].id \notin GoOn
        <5>1. j \in 1 .. n + 1 /\ t[j] = stack[j]
          BY <1>4, <4>1
        <5>2. t[j].id \notin GoOn
          BY <3>6, <4>1, <5>1
        <5> QED
          BY <5>1, <5>2
      <4> QED
        BY <3>1, <3>2, <4>1
    <3>7. \A j \in 1 .. n + 1 :
            j < i => /\ t[i].id \in Reach[t[j].id]
                     /\ ~(t[j].id = "os-engine" /\ t[j].at = 4)
      BY <3>1, <3>2, <3>5
    <3> QED
      BY <3>1, <3>3, <3>4, <3>6, <3>7
  <2> QED
    BY <2>1, <2>2
<1>12. stack' = t /\ DOMAIN t = 1 .. n + 1
  BY <1>3, <1>5
<1> QED
  BY <1>6, <1>11, <1>12 DEF Lined

LEMMA AdvanceLines ==
  ASSUME LoaderInv, stack # <<>>, Top.at \in DOMAIN Body[Top.id], stack' = Advanced,
         Known \subseteq Known', UNCHANGED <<calls, factories>>,
         Requiring(Top) => Statement.of \in Known
  PROVE  Lined'
<1>1. PICK n \in Nat \ {0} : n = Len(stack) /\ DOMAIN stack = 1 .. n /\ Top = stack[n]
  BY TopFacts
<1>2. PICK t \in Seq(Frames) : t = stack'
  BY AdvancedFacts
<1>3. /\ DOMAIN t = 1 .. n /\ \A i \in 1 .. n : t[i].id = stack[i].id
      /\ \A i \in 1 .. n - 1 : t[i] = stack[i]
      /\ t[n].at = Top.at + 1
  BY <1>1, <1>2, AdvancedFacts
<1>4. ASSUME Top.id = "os-engine", Top.at + 1 = 4
      PROVE  "io" \in Known
  <2>1. Top.at = 3
    BY <1>4, TopFacts
  <2>2. Statement = Needs("io", {})
    BY <1>4, <2>1, TheStatements DEF Statement
  <2>3. Statement.op = "needs" /\ Statement.of = "io"
    BY <2>2 DEF Needs
  <2> QED
    BY <2>3 DEF Requiring, Statement
<1>5. ASSUME NEW i \in 1 .. n
      PROVE  /\ t[i].id \in Natives => factories[t[i].id] = "factory"
             /\ t[i].id = "os-engine" /\ t[i].at = 4 => "io" \in Known
             /\ (\A j \in 1 .. n : j < i => t[j].id \notin GoOn)
                  => t[i].id \in Straight[Last(calls).of]
             /\ \A j \in 1 .. n :
                  j < i => /\ t[i].id \in Reach[t[j].id]
                           /\ ~(t[j].id = "os-engine" /\ t[j].at = 4)
  <2>1. /\ stack[i].id \in Natives => factories[stack[i].id] = "factory"
        /\ stack[i].id = "os-engine" /\ stack[i].at = 4 => "io" \in Known
        /\ (\A j \in 1 .. n : j < i => stack[j].id \notin GoOn)
             => stack[i].id \in Straight[Last(calls).of]
        /\ \A j \in 1 .. n :
             j < i => /\ stack[i].id \in Reach[stack[j].id]
                      /\ ~(stack[j].id = "os-engine" /\ stack[j].at = 4)
    BY <1>1 DEF LoaderInv, Lined
  <2>2. t[i].id = "os-engine" /\ t[i].at = 4 => "io" \in Known
    <3>1. CASE i = n
      BY <1>1, <1>3, <1>4, <3>1
    <3>2. CASE i # n
      BY <1>3, <2>1, <3>2
    <3> QED
      BY <3>1, <3>2
  <2>3. \A j \in 1 .. n : j < i => t[j] = stack[j]
    BY <1>3
  <2> QED
    BY <1>3, <2>1, <2>2, <2>3
<1>6. stack' = t /\ DOMAIN t = 1 .. n /\ Last(calls').of = Last(calls).of /\ factories' = factories
  BY <1>2, <1>3
<1> QED
  BY <1>5, <1>6 DEF Lined

LEMMA PopLines ==
  ASSUME LoaderInv, stack # <<>>, stack' = Front(stack), Known' = Known,
         UNCHANGED <<calls, factories>>
  PROVE  Lined'
<1>1. PICK n \in Nat \ {0} : n = Len(stack) /\ DOMAIN stack = 1 .. n
  BY TopFacts
<1>2. PICK t \in Seq(Frames) : t = stack'
  BY TopFacts
<1>3. /\ Len(t) = n - 1 /\ \A i \in 1 .. n - 1 : t[i] = stack[i]
  BY <1>1, <1>2, TopFacts
<1>4. DOMAIN t = 1 .. n - 1
  BY <1>3, LenProperties
<1>5. ASSUME NEW i \in 1 .. n - 1
      PROVE  /\ t[i].id \in Natives => factories[t[i].id] = "factory"
             /\ t[i].id = "os-engine" /\ t[i].at = 4 => "io" \in Known
             /\ (\A j \in 1 .. n - 1 : j < i => t[j].id \notin GoOn)
                  => t[i].id \in Straight[Last(calls).of]
             /\ \A j \in 1 .. n - 1 :
                  j < i => /\ t[i].id \in Reach[t[j].id]
                           /\ ~(t[j].id = "os-engine" /\ t[j].at = 4)
  <2>1. i \in 1 .. n /\ \A j \in 1 .. n : j < i => j \in 1 .. n - 1
    OBVIOUS
  <2>2. \A j \in 1 .. n - 1 : j \in 1 .. n /\ t[j] = stack[j]
    BY <1>3
  <2> QED
    BY <1>1, <2>1, <2>2 DEF LoaderInv, Lined
<1>6. stack' = t /\ Last(calls').of = Last(calls).of /\ factories' = factories
  BY <1>2
<1> QED
  BY <1>4, <1>5, <1>6 DEF Lined

LEMMA EmptyLines ==
  ASSUME stack' = <<>>
  PROVE  Lined'
<1>1. DOMAIN stack' = {}
  OBVIOUS
<1> QED
  BY <1>1 DEF Lined

\* What a module has done.
LEMMA AdvanceRuns ==
  ASSUME LoaderInv, stack # <<>>, stack' = Advanced, NEW k \in Known, NEW i, HasRun(k, i)'
  PROVE  HasRun(k, i) \/ (k = Top.id /\ i = Top.at)
<1>1. PICK n \in Nat \ {0} : n = Len(stack) /\ DOMAIN stack = 1 .. n /\ Top = stack[n]
  BY TopFacts
<1>2. /\ DOMAIN stack' = 1 .. n
      /\ \A j \in 1 .. n : stack'[j].id = stack[j].id
      /\ \A j \in 1 .. n - 1 : stack'[j] = stack[j]
      /\ stack'[n].at = Top.at + 1
  BY <1>1, AdvancedFacts
<1>3. i \in DOMAIN Body[k] /\ \A j \in 1 .. n : stack'[j].id = k => i < stack'[j].at
  BY <1>2 DEF HasRun
<1>4. SUFFICES ASSUME ~(k = Top.id /\ i = Top.at), NEW j \in 1 .. n, stack[j].id = k
               PROVE  i < stack[j].at
  BY <1>1, <1>3 DEF HasRun
<1>5. CASE j = n
  <2>1. i \in Nat /\ Top.at \in Nat
    <3>1. k \in Ids
      BY DEF LoaderInv, LoaderTyped
    <3> QED
      BY <1>3, <3>1, AllBodies, TopFacts
  <2>2. i < Top.at + 1
    BY <1>2, <1>3, <1>4, <1>5
  <2> QED
    BY <1>1, <1>4, <1>5, <2>1, <2>2
<1>6. CASE j # n
  BY <1>2, <1>3, <1>4, <1>6
<1> QED
  BY <1>5, <1>6

LEMMA PushRuns ==
  ASSUME LoaderInv, NEW m \in Ids, stack' = Append(stack, [id |-> m, at |-> 1]),
         Known' = Known \cup {m}, NEW k \in Ids, NEW i, HasRun(k, i)'
  PROVE  HasRun(k, i)
<1> DEFINE e == [id |-> m, at |-> 1]
<1>1. stack \in Seq(Frames) /\ e \in Frames
  BY DEF LoaderInv, Stacked, Frames
<1>2. PICK n \in Nat : n = Len(stack) /\ DOMAIN stack = 1 .. n
  BY <1>1, LenProperties
<1>3. /\ stack' \in Seq(Frames) /\ Len(stack') = n + 1 /\ stack'[n + 1] = e
      /\ \A j \in 1 .. n : stack'[j] = stack[j]
  BY <1>1, <1>2, LastOfAppend
<1>4. DOMAIN stack' = 1 .. n + 1
  BY <1>3, LenProperties
<1>5. /\ k \in Known' /\ i \in DOMAIN Body[k] /\ i \in Nat \ {0}
      /\ \A j \in 1 .. n + 1 : stack'[j].id = k => i < stack'[j].at
  BY <1>4, AllBodies DEF HasRun
<1>6. k # m
  <2>1. e.id = k => i < e.at
    BY <1>3, <1>5
  <2>2. e.id = m /\ e.at = 1
    OBVIOUS
  <2> HIDE DEF e
  <2> QED
    BY <1>5, <2>1, <2>2
<1>7. \A j \in 1 .. n : stack[j].id = k => i < stack[j].at
  BY <1>3, <1>5
<1> QED
  BY <1>2, <1>5, <1>6, <1>7 DEF HasRun

LEMMA PopRuns ==
  ASSUME LoaderInv, stack # <<>>, Top.at \notin DOMAIN Body[Top.id], stack' = Front(stack),
         Known' = Known, NEW k \in Ids, NEW i, HasRun(k, i)'
  PROVE  HasRun(k, i)
<1>1. PICK n \in Nat \ {0} : n = Len(stack) /\ DOMAIN stack = 1 .. n /\ Top = stack[n]
  BY TopFacts
<1>2. /\ stack' \in Seq(Frames) /\ Len(stack') = n - 1
      /\ \A j \in 1 .. n - 1 : stack'[j] = stack[j]
  BY <1>1, TopFacts
<1>3. DOMAIN stack' = 1 .. n - 1
  BY <1>2, LenProperties
<1>4. /\ k \in Known /\ i \in DOMAIN Body[k]
      /\ \A j \in 1 .. n - 1 : stack'[j].id = k => i < stack'[j].at
  BY <1>3 DEF HasRun
<1>5. Top.id = k => i < Top.at
  <2>1. /\ Top.at \in 1 .. Len(Body[Top.id]) + 1 /\ Len(Body[Top.id]) \in Nat
        /\ DOMAIN Body[Top.id] = 1 .. Len(Body[Top.id])
    BY TopFacts, AllBodies
  <2> QED
    BY <1>4, <2>1
<1> QED
  BY <1>1, <1>2, <1>4, <1>5 DEF HasRun

-----------------------------------------------------------------------------
(* What the modules that are loaded have left behind.                      *)

Loaded(m) == m \in Known /\ m \notin Loading

\* Nothing has gone wrong so far.
Sound == LoaderInv /\ Undisturbed /\ outcome # "crashed"

LEMMA StatementFacts ==
  ASSUME NEW m, NEW i, Effect(m, i), NEW of, NEW names
  PROVE  /\ Body[m][i] = Sets(of, names) => names \subseteq exports[of]
         /\ Body[m][i] = Needs(of, names) \/ Body[m][i] = Takes(of, names) => of \in Known
         /\ Body[m][i] = Copies(of) => Promised[of] \subseteq exports[m]
         /\ Body[m][i] = CutsEnv => {"env", "args"} \subseteq exports["system"]
BY DEF Effect, Sets, Needs, Takes, Copies, CutsEnv

LEMMA LoadedEffects ==
  ASSUME Sound, NEW m \in Ids, Loaded(m), NEW i \in DOMAIN Body[m]
  PROVE  Effect(m, i)
<1>1. HasRun(m, i)
  BY DEF Loaded, Loading, HasRun
<1> QED
  BY <1>1 DEF Sound, LoaderInv, Whole

LEMMA LowerIsLoaded ==
  ASSUME LoaderInv, stack # <<>>, NEW m \in Ids, Rank[m] < Rank[Top.id]
  PROVE  m \notin Loading
<1>1. PICK n \in Nat \ {0} : n = Len(stack) /\ DOMAIN stack = 1 .. n /\ Top = stack[n]
  BY TopFacts
<1>2. SUFFICES ASSUME NEW i \in 1 .. n, stack[i].id = m PROVE FALSE
  BY <1>1 DEF Loading
<1>3. i # n => Rank[Top.id] <= Rank[m]
  BY <1>1, <1>2 DEF LoaderInv, Stacked
<1>4. Rank[m] \in Int /\ Rank[Top.id] \in Int
  BY TheRanksAreInts, TopFacts
<1> QED
  BY <1>1, <1>2, <1>3, <1>4

LEMMA IOEngineHolds ==
  ASSUME Sound, Loaded("io-engine"), "io-engine.js" \notin Loading
  PROVE  Promised["io-engine"] \subseteq exports["io-engine"]
<1>1. Effect("io-engine", 1) /\ Effect("io-engine", 2)
  BY LoadedEffects, TheIds, TheStatements
<1>2. IOClasses \subseteq exports["io-engine"] /\ "io-engine.js" \in Known
  BY <1>1, StatementFacts, TheStatements
<1>3. Effect("io-engine.js", 5) /\ Effect("io-engine.js", 7)
  BY <1>2, LoadedEffects, TheIds, TheStatements DEF Loaded
<1>4. /\ {"ByteIO", "TextIOWrapper"} \subseteq exports["io-engine"]
      /\ {"TextOutputStream"} \subseteq exports["io-engine"]
  BY <1>3, StatementFacts, TheStatements
<1> QED
  BY <1>2, <1>4, ThePromises

LEMMA OsEngineHolds ==
  ASSUME Sound, Loaded("os-engine"), "os-engine.js" \notin Loading
  PROVE  Promised["os-engine"] \subseteq exports["os-engine"]
<1>1. Effect("os-engine", 1) /\ Effect("os-engine", 2)
  BY LoadedEffects, TheIds, TheStatements
<1>2. {"exit", "systemImpl", "popenImpl"} \subseteq exports["os-engine"] /\ "os-engine.js" \in Known
  BY <1>1, StatementFacts, TheStatements
<1>3. Effect("os-engine.js", 3)
  BY <1>2, LoadedEffects, TheIds, TheStatements DEF Loaded
<1>4. {"system", "popen"} \subseteq exports["os-engine"]
  BY <1>3, StatementFacts, TheStatements
<1> QED
  BY <1>2, <1>4, ThePromises

LEMMA IOHolds ==
  ASSUME Sound, Loaded("io")
  PROVE  Promised["io"] \subseteq exports["io"]
<1>1. Effect("io", 2)
  BY LoadedEffects, TheIds, TheStatements
<1>2. Promised["io-engine"] \subseteq exports["io"]
  BY <1>1, StatementFacts, TheStatements
<1> QED
  BY <1>2, ThePromises

LEMMA BinaryHolds ==
  ASSUME Sound
  PROVE  /\ Loaded("binary-engine") => Bs \subseteq exports["binary-engine"]
         /\ Loaded("binary") => {"ByteString"} \subseteq exports["binary"]
         /\ Loaded("logger") => {"Logger"} \subseteq exports["logger"]
<1>1. /\ Loaded("binary-engine") => Effect("binary-engine", 1)
      /\ Loaded("binary") => Effect("binary", 2)
      /\ Loaded("logger") => Effect("logger", 1)
  BY LoadedEffects, TheIds, TheStatements
<1> QED
  BY <1>1, StatementFacts, TheStatements

LEMMA SystemJsHolds ==
  ASSUME Sound, Loaded("system.js")
  PROVE  StdNames \subseteq exports["system.js"]
<1>1. Effect("system.js", 2) /\ Effect("system.js", 4) /\ Effect("system.js", 6)
  BY LoadedEffects, TheIds, TheStatements
<1>2. /\ {"stdin", "stdout", "stderr", "args", "env"} \subseteq exports["system.js"]
      /\ {"fs"} \subseteq exports["system.js"] /\ {"log"} \subseteq exports["system.js"]
  BY <1>1, StatementFacts, TheStatements
<1> QED
  BY <1>2 DEF StdNames

\* When everything is loaded, each module has what it promises.
LEMMA EachHolds ==
  ASSUME Sound, stack = <<>>, NEW m \in Known \cap DOMAIN Promised
  PROVE  Promised[m] \subseteq exports[m]
<1>1. \A k \in Ids : k \notin Loading
  BY DEF Loading
<1>2. Loaded(m) /\ m \in Ids
  BY <1>1 DEF Loaded, Sound, LoaderInv, LoaderTyped
<1>3. CASE m = "file"
  <2>1. Effect("file", 1) /\ Effect("file", 3)
    BY <1>2, <1>3, LoadedEffects, TheIds, TheStatements
  <2>2. {"mode"} \subseteq exports["file"] /\ "file-engine" \in Known
    BY <2>1, StatementFacts, TheStatements
  <2>3. Effect("file-engine", 3) /\ Effect("file-engine", 5)
    BY <1>1, <2>2, LoadedEffects, TheIds, TheStatements DEF Loaded
  <2>4. FileNames \subseteq exports["file"] /\ {"mkdirs", "touch"} \subseteq exports["file"]
    BY <2>3, StatementFacts, TheStatements
  <2> QED
    BY <1>3, <2>2, <2>4, ThePromises
<1>4. CASE m = "system"
  <2>1. Effect("system", 2) /\ Effect("system", 3)
    BY <1>2, <1>4, LoadedEffects, TheIds, TheStatements
  <2>2. StdNames \subseteq exports["system"] /\ {"env", "args"} \subseteq exports["system"]
    BY <2>1, StatementFacts, TheStatements
  <2> QED
    BY <1>4, <2>2, ThePromises
<1>5. CASE m = "os"
  <2>1. Effect("os", 2)
    BY <1>2, <1>5, LoadedEffects, TheIds, TheStatements
  <2>2. Promised["os-engine"] \subseteq exports["os"]
    BY <2>1, StatementFacts, TheStatements
  <2> QED
    BY <1>5, <2>2, ThePromises
<1>6. CASE m \in {"io-engine", "os-engine", "io"}
  BY <1>1, <1>2, <1>6, TheIds, IOEngineHolds, OsEngineHolds, IOHolds
<1>7. CASE m \in {"binary-engine", "binary", "logger"}
  BY <1>2, <1>7, BinaryHolds, ThePromises
<1> QED
  BY <1>3, <1>4, <1>5, <1>6, <1>7, ThePromises

-----------------------------------------------------------------------------
(* What a module finds in those that it requires in a circle.              *)

LEMMA TopRequires ==
  ASSUME LoaderInv, stack # <<>>, Requiring(Top)
  PROVE  /\ Top.at \in DOMAIN Body[Top.id] /\ Statement.op \in {"takes", "needs"}
         /\ Statement.of \in Ids /\ Rank[Statement.of] <= Rank[Top.id]
         /\ Wants(Top.id, Statement.of, Statement.names)
<1>1. Top.id \in Ids
  BY TopFacts
<1>2. Top.at \in DOMAIN Body[Top.id] /\ Statement.op \in {"takes", "needs"}
  BY DEF Requiring, Statement
<1>3. Fits(Top.id, Top.at, Statement)
  BY <1>1, <1>2, AllBodies DEF Statement
<1> QED
  BY <1>2, <1>3 DEF Fits

\* file-engine.js is loaded by file-engine alone, and is done when that goes on.
LEMMA FileEngineJsIsDone ==
  ASSUME Sound, stack # <<>>, Top.id = "file-engine"
  PROVE  "file-engine.js" \notin Loading
<1>1. PICK n \in Nat \ {0} : n = Len(stack) /\ DOMAIN stack = 1 .. n /\ Top = stack[n]
  BY TopFacts DEF Sound
<1>2. SUFFICES ASSUME NEW i \in 1 .. n, stack[i].id = "file-engine.js"
               PROVE  FALSE
  BY <1>1 DEF Loading
<1>3. CASE i = 1
  <2>1. calls \in Seq(CallRecords) /\ calls # <<>> /\ Last(calls).of = "file-engine.js"
    BY <1>2, <1>3 DEF Sound, LoaderInv, LoaderTyped, Stacked
  <2>2. Last(calls) \in Range(calls)
    BY <2>1, EmptySeq DEF Last, Range
  <2> QED
    BY <2>1, <2>2 DEF Sound, Undisturbed
<1>4. CASE i # 1
  <2>1. PICK j \in 1 .. n : j = i - 1 /\ i = j + 1 /\ j < i
    BY <1>4
  <2>2. stack[i].id = Body[stack[j].id][stack[j].at].of /\ Requiring(stack[j])
    BY <1>1, <2>1 DEF Sound, LoaderInv, Stacked
  <2>3. stack[j].id \in Ids
    BY <1>1 DEF Sound, LoaderInv, LoaderTyped, Stacked
  <2>4. stack[j].id = "file-engine"
    <3> DEFINE f == stack[j]
               c == Body[f.id][f.at]
    <3>1. f.at \in DOMAIN Body[f.id] /\ c.op \in {"takes", "needs"} /\ c.of = "file-engine.js"
      BY <1>2, <2>2 DEF Requiring
    <3>2. Fits(f.id, f.at, c)
      BY <2>3, <3>1, AllBodies
    <3> HIDE DEF f, c
    <3> QED
      BY <3>1, <3>2 DEF Fits, f
  <2>5. j = n
    BY <1>1, <2>4 DEF Sound, LoaderInv, Stacked
  <2> QED
    BY <2>1, <2>5
<1> QED
  BY <1>3, <1>4

\* While io-engine.js runs, io-engine waits for it at its second statement or is done.
LEMMA IOEngineHasRun ==
  ASSUME Sound, stack # <<>>, Top.id = "io-engine.js", "io-engine" \in Known
  PROVE  IOClasses \subseteq exports["io-engine"]
<1>1. PICK n \in Nat \ {0} : n = Len(stack) /\ DOMAIN stack = 1 .. n /\ Top = stack[n]
  BY TopFacts DEF Sound
<1>2. ASSUME NEW i \in 1 .. n, stack[i].id = "io-engine"
      PROVE  1 < stack[i].at
  <2>1. i < n
    BY <1>1, <1>2
  <2>2. Requiring(stack[i])
    BY <1>1, <2>1 DEF Sound, LoaderInv, Stacked
  <2>3. stack[i].at \in DOMAIN Body["io-engine"] /\ Body["io-engine"][stack[i].at].op # "sets"
    BY <1>2, <2>2 DEF Requiring
  <2>4. stack[i].at # 1
    BY <2>3, TheStatements DEF Sets
  <2>5. stack[i].at \in 1 .. Len(Body["io-engine"]) /\ Len(Body["io-engine"]) \in Nat
    BY <2>3, AllBodies, TheIds
  <2> QED
    BY <2>4, <2>5
<1>3. HasRun("io-engine", 1)
  BY <1>1, <1>2, TheStatements DEF HasRun
<1>4. Effect("io-engine", 1)
  BY <1>3, TheIds, TheStatements DEF Sound, LoaderInv, Whole
<1> QED
  BY <1>4, StatementFacts, TheStatements

LEMMA Finds ==
  ASSUME Sound, stack # <<>>, Requiring(Top), Statement.of \in Known
  PROVE  Statement.names \subseteq exports[Statement.of]
<1> DEFINE m == Top.id
           of == Statement.of
           names == Statement.names
<1>1. Wants(m, of, names) /\ m \in Ids /\ of \in Known
  BY TopRequires, TopFacts DEF Sound
<1>2. ASSUME NEW k \in Ids, Rank[k] < Rank[m], of = k
      PROVE  Loaded(of)
  BY <1>1, <1>2, LowerIsLoaded DEF Sound, Loaded
<1>3. CASE names = {}
  BY <1>3
<1>4. CASE m = "system" /\ of = "system.js" /\ names = StdNames
  BY <1>2, <1>4, TheIds, TheRanks, SystemJsHolds
<1>5. CASE m = "system.js" /\ of = "io" /\ names \subseteq Promised["io"]
  BY <1>2, <1>5, TheIds, TheRanks, IOHolds
<1>6. CASE m = "system.js" /\ of = "logger" /\ names = {"Logger"}
  BY <1>2, <1>6, TheIds, TheRanks, BinaryHolds
<1>7. CASE m = "os-engine" /\ of = "io" /\ names \subseteq Promised["io"]
  BY <1>2, <1>7, TheIds, TheRanks, IOHolds
<1>8. CASE m = "file-engine" /\ of = "file-engine.js" /\ names = {"mkdirs", "touch"}
  <2>1. Loaded("file-engine.js")
    BY <1>1, <1>8, FileEngineJsIsDone DEF Loaded
  <2>2. Effect("file-engine.js", 2)
    BY <2>1, LoadedEffects, TheIds, TheStatements
  <2> QED
    BY <1>8, <2>2, StatementFacts, TheStatements
<1>9. CASE m = "io-engine.js" /\ of = "io-engine" /\ names \subseteq IOClasses
  BY <1>1, <1>9, IOEngineHasRun
<1>10. CASE m = "io-engine.js" /\ of = "binary" /\ names = {"ByteString"}
  BY <1>2, <1>10, TheIds, TheRanks, BinaryHolds
<1>11. CASE m \in {"io-engine.js", "binary"} /\ of = "binary-engine" /\ names = Bs
  BY <1>2, <1>11, TheIds, TheRanks, BinaryHolds
<1> QED
  BY <1>1, <1>3, <1>4, <1>5, <1>6, <1>7, <1>8, <1>9, <1>10, <1>11 DEF Wants

\* io and os copy what their engines have when those are done.
LEMMA CopiesWhole ==
  ASSUME Sound, stack # <<>>, Top.at \in DOMAIN Body[Top.id], Statement.op = "copies"
  PROVE  /\ Statement.of \in Known /\ Promised[Statement.of] \subseteq exports[Statement.of]
<1>1. Top.id \in Ids /\ LoaderInv
  BY TopFacts DEF Sound
<1>2. Fits(Top.id, Top.at, Statement)
  BY <1>1, AllBodies DEF Statement
<1>3. Top.at = 2 /\ (\/ Top.id = "io" /\ Statement.of = "io-engine"
                     \/ Top.id = "os" /\ Statement.of = "os-engine")
  BY <1>2 DEF Fits
<1>4. HasRun(Top.id, 1)
  <2>1. PICK n \in Nat \ {0} : n = Len(stack) /\ DOMAIN stack = 1 .. n /\ Top = stack[n]
    BY <1>1, TopFacts
  <2>2. \A j \in 1 .. n : stack[j].id = Top.id => j = n
    BY <1>1, <2>1 DEF LoaderInv, Stacked
  <2>3. Top.id \in Known /\ 1 \in DOMAIN Body[Top.id]
    BY <1>1, <1>3, TopFacts, TheStatements
  <2> QED
    BY <1>3, <2>1, <2>2, <2>3 DEF HasRun
<1>5. Effect(Top.id, 1)
  BY <1>1, <1>4 DEF Sound, LoaderInv, Whole, HasRun
<1>6. CASE Top.id = "io" /\ Statement.of = "io-engine"
  <2>1. "io-engine" \in Known
    BY <1>5, <1>6, StatementFacts, TheStatements
  <2>2. Loaded("io-engine") /\ "io-engine.js" \notin Loading
    BY <1>1, <1>6, <2>1, LowerIsLoaded, TheIds, TheRanks DEF Loaded
  <2> QED
    BY <1>6, <2>1, <2>2, IOEngineHolds
<1>7. CASE Top.id = "os" /\ Statement.of = "os-engine"
  <2>1. "os-engine" \in Known
    BY <1>5, <1>7, StatementFacts, TheStatements
  <2>2. Loaded("os-engine") /\ "os-engine.js" \notin Loading
    BY <1>1, <1>7, <2>1, LowerIsLoaded, TheIds, TheRanks DEF Loaded
  <2> QED
    BY <1>7, <2>1, <2>2, OsEngineHolds
<1> QED
  BY <1>3, <1>6, <1>7

\* Whoever adds names to another module has required it.
LEMMA SetsKnown ==
  ASSUME Sound, stack # <<>>, Top.at \in DOMAIN Body[Top.id], Statement.op = "sets"
  PROVE  Statement.of \in Known
<1>1. Top.id \in Ids /\ Top.id \in Known /\ LoaderInv
  BY TopFacts DEF Sound
<1>2. Statement.of = Top.id \/ <<Top.id, Statement.of>> \in Halves
  BY <1>1, AllBodies DEF Fits, Statement
<1>3. CASE <<Top.id, Statement.of>> \in Halves
  <2>1. /\ 1 \in DOMAIN Body[Top.id] /\ Body[Top.id][1] = Needs(Statement.of, {})
    BY <1>3, TheBodies DEF Halves, io_engine_js, file_engine, os_engine_js
  <2>2. Top.at # 1
    BY <2>1 DEF Statement, Needs
  <2>3. Top.at \in Nat \ {0}
    BY <1>1, AllBodies
  <2>4. PICK n \in Nat \ {0} : n = Len(stack) /\ DOMAIN stack = 1 .. n /\ Top = stack[n]
    BY <1>1, TopFacts
  <2>5. \A j \in 1 .. n : stack[j].id = Top.id => j = n
    BY <1>1, <2>4 DEF LoaderInv, Stacked
  <2>6. HasRun(Top.id, 1)
    BY <1>1, <2>1, <2>2, <2>3, <2>4, <2>5 DEF HasRun
  <2>7. Effect(Top.id, 1)
    BY <1>1, <2>1, <2>6 DEF Sound, LoaderInv, Whole
  <2> QED
    BY <2>1, <2>7, StatementFacts
<1> QED
  BY <1>1, <1>2, <1>3

-----------------------------------------------------------------------------
(* The steps of loading keep the invariant.                                *)

LEMMA FetchKeeps ==
  ASSUME LoaderInv, NEW l \in Natives, Fetch(l)
  PROVE  Fetched' /\ asked \subseteq asked'
<1>1. disk \in [Natives -> Library] /\ handle \in [Natives -> Library] /\ Fetched
  BY DEF LoaderInv, LoaderTyped, Fetched
<1>2. Opened(l) \in Library
  BY <1>1 DEF Opened
<1>3. Result(l) = (IF Opened(l) = "good" THEN "factory" ELSE "null")
  BY DEF Result
<1>4. handle' \in [Natives -> Library] /\ handle'[l] = Opened(l)
      /\ \A k \in Natives \ {l} : handle'[k] = handle[k]
  BY <1>1, <1>2 DEF Fetch
<1>5. factories' \in [Natives -> {"unasked", "null", "factory"}] /\ factories'[l] = Result(l)
      /\ \A k \in Natives \ {l} : factories'[k] = factories[k]
  BY <1>1, <1>3 DEF Fetch, Fetched
<1>6. asked' = IF Opened(l) = "good" THEN asked ELSE asked \cup {l}
  BY DEF Fetch
<1>7. asked \subseteq asked' /\ asked' \subseteq Natives
  BY <1>1, <1>6 DEF Fetched
<1>8. \A k \in Natives : /\ factories'[k] = "factory" => handle'[k] = "good"
                         /\ factories'[k] = "null" => k \in asked'
  <2> TAKE k \in Natives
  <2>1. CASE k = l
    BY <1>3, <1>4, <1>5, <1>6, <2>1
  <2>2. CASE k # l
    BY <1>1, <1>4, <1>5, <1>7, <2>2 DEF Fetched
  <2> QED
    BY <2>1, <2>2
<1>9. /\ handle' \in [Natives -> Library]
      /\ factories' \in [Natives -> {"unasked", "null", "factory"}]
      /\ asked' \subseteq Natives
  BY <1>4, <1>5, <1>7
<1>10. Fetched'
  BY <1>8, <1>9 DEF Fetched
<1> QED
  BY <1>7, <1>10

LEMMA UndisturbedBefore ==
  ASSUME LoaderInv, asked \subseteq asked', Undisturbed',
         calls' = calls \/ \E c \in CallRecords : calls' = Append(calls, c)
  PROVE  Undisturbed
<1>1. calls \in Seq(CallRecords)
  BY DEF LoaderInv, LoaderTyped
<1>2. Range(calls) \subseteq Range(calls')
  <2>1. CASE calls' = calls
    BY <2>1
  <2>2. ASSUME NEW c \in CallRecords, calls' = Append(calls, c)
        PROVE  Range(calls) \subseteq Range(calls')
    <3>1. PICK n \in Nat : n = Len(calls) /\ DOMAIN calls = 1 .. n
      BY <1>1, LenProperties
    <3>2. /\ calls' \in Seq(CallRecords) /\ Len(calls') = n + 1
          /\ \A i \in 1 .. n : calls'[i] = calls[i]
      BY <1>1, <2>2, <3>1, LastOfAppend
    <3>3. DOMAIN calls' = 1 .. n + 1
      BY <3>2, LenProperties
    <3> QED
      BY <3>1, <3>2, <3>3 DEF Range
  <2> QED
    BY <2>1, <2>2
<1>3. asked' = {} /\ \A c \in Range(calls') : ~c.reload /\ c.of # "file-engine.js"
  BY DEF Undisturbed, Range
<1> QED
  BY <1>2, <1>3 DEF Undisturbed

\* A factory of these that requires a module goes on, unless it is the last of os-engine's.
LEMMA GoOnCrashes ==
  ASSUME NEW f \in Frames, f.id \in GoOn, Requiring(f),
         ~(f.id = "os-engine" /\ f.at = 4)
  PROVE  FrameCrashes(f)
<1>1. /\ Len(Body["system"]) = 3 /\ DOMAIN Body["system"] = 1 .. 3
      /\ Len(Body["os-engine"]) = 4 /\ DOMAIN Body["os-engine"] = 1 .. 4
      /\ Len(Body["file-engine"]) = 5 /\ DOMAIN Body["file-engine"] = 1 .. 5
  BY SystemFits, OsEngineFits, FileEngineFits DEF AllFit
<1>2. /\ f.id = "system" => f.at # 3
      /\ f.id = "file-engine" => f.at # 5
  BY TheStatements DEF Requiring, CutsEnv, Sets
<1>3. f.at \in DOMAIN Body[f.id] /\ f.id \in Natives
  BY DEF Requiring, GoOn, Natives
<1>4. CASE f.id = "system"
  <2>1. f.at \in 1 .. 3 /\ f.at # 3
    BY <1>1, <1>2, <1>3, <1>4
  <2>2. f.at < 3
    BY <2>1
  <2>3. Len(Body[f.id]) = 3
    BY <1>1, <1>4
  <2> QED
    BY <1>3, <2>2, <2>3 DEF FrameCrashes
<1>5. CASE f.id = "os-engine"
  <2>1. f.at \in 1 .. 4 /\ f.at # 4
    BY <1>1, <1>3, <1>5
  <2>2. f.at < 4
    BY <2>1
  <2>3. Len(Body[f.id]) = 4
    BY <1>1, <1>5
  <2> QED
    BY <1>3, <2>2, <2>3 DEF FrameCrashes
<1>6. CASE f.id = "file-engine"
  <2>1. f.at \in 1 .. 5 /\ f.at # 5
    BY <1>1, <1>2, <1>3, <1>6
  <2>2. f.at < 5
    BY <2>1
  <2>3. Len(Body[f.id]) = 5
    BY <1>1, <1>6
  <2> QED
    BY <1>3, <2>2, <2>3 DEF FrameCrashes
<1> QED
  BY <1>4, <1>5, <1>6 DEF GoOn

\* And no other factory does.
LEMMA OnlyGoOnCrash ==
  ASSUME NEW f \in Frames, Requiring(f), FrameCrashes(f)
  PROVE  f.id \in GoOn
<1>1. /\ Len(Body["io-engine"]) = 2 /\ DOMAIN Body["io-engine"] = 1 .. 2
      /\ Len(Body["binary-engine"]) = 1 /\ DOMAIN Body["binary-engine"] = 1 .. 1
  BY IOEngineFits, BinaryEngineFits DEF AllFit
<1>2. f.id = "io-engine" => f.at # 1
  BY TheStatements DEF Requiring, Sets
<1>3. f.at \in DOMAIN Body[f.id] /\ f.id \in Natives /\ f.at < Len(Body[f.id])
  BY DEF Requiring, FrameCrashes
<1>4. f.id # "io-engine"
  <2>1. f.id = "io-engine" => f.at \in 1 .. 2 /\ f.at < 2
    BY <1>1, <1>3
  <2> QED
    BY <1>2, <2>1
<1>5. f.id # "binary-engine"
  <2>1. f.id = "binary-engine" => f.at \in 1 .. 1 /\ f.at < 1
    BY <1>1, <1>3
  <2> QED
    BY <2>1
<1> QED
  BY <1>3, <1>4, <1>5 DEF Natives, GoOn

\* Each module on the stack requires another one when a module is asked for that throws.
LEMMA AllRequire ==
  ASSUME LoaderInv, stack # <<>> => Requiring(Top), NEW i \in DOMAIN stack
  PROVE  Requiring(stack[i]) /\ stack[i] \in Frames
<1>1. stack # <<>>
  OBVIOUS
<1>2. PICK n \in Nat \ {0} : n = Len(stack) /\ DOMAIN stack = 1 .. n /\ Top = stack[n]
  BY <1>1, TopFacts
<1>3. stack \in Seq(Frames) /\ n \in DOMAIN stack
  BY <1>2 DEF LoaderInv, Stacked
<1>4. i # n => Requiring(stack[i])
  BY <1>2, <1>3 DEF LoaderInv, Stacked
<1>5. Requiring(Top)
  BY <1>1
<1> QED
  BY <1>2, <1>3, <1>4, <1>5

\* When the factory of a module that is asked for is null, the exception comes out only
\* where no factory goes on after it; and who loses the process is such a factory.
LEMMA NullThrows ==
  ASSUME LoaderInv, NEW m \in Natives, m \notin Known, AskedFor(m), factories'[m] = "null",
         \A k \in Natives \ {m} : factories'[k] = factories[k],
         NEW kept \in BOOLEAN, Throws(stack, kept)
  PROVE  ThrowsOnlyForMissing'
<1>1. m \in Ids
  BY DEF Ids
<1>2. stack # <<>> => Requiring(Top) /\ m = Statement.of
  BY DEF AskedFor
<1>3. PICK c : c = Last(calls').of
  OBVIOUS
<1>4. ASSUME outcome' = "threw"
      PROVE  m \in Straight[c]
  <2>1. ASSUME NEW i \in DOMAIN stack, stack[i].id \in GoOn
        PROVE  FALSE
    <3>1. Requiring(stack[i]) /\ stack[i] \in Frames
      BY <1>2, AllRequire
    <3>2. ~FrameCrashes(stack[i])
      BY <1>4 DEF Throws
    <3>3. stack[i].id = "os-engine" /\ stack[i].at = 4
      BY <2>1, <3>1, <3>2, GoOnCrashes
    <3>4. PICK n \in Nat \ {0} : n = Len(stack) /\ DOMAIN stack = 1 .. n /\ Top = stack[n]
      <4>1. stack # <<>>
        OBVIOUS
      <4> QED
        BY <4>1, TopFacts
    <3>5. i = n /\ "io" \in Known
      <4>1. n \in DOMAIN stack
        BY <3>4
      <4> QED
        BY <3>3, <3>4, <4>1 DEF LoaderInv, Lined
    <3>6. Statement = Needs("io", {"IO"})
      BY <3>3, <3>4, <3>5, TheStatements DEF Statement
    <3>7. m = "io"
      <4>1. stack # <<>>
        OBVIOUS
      <4> QED
        BY <1>2, <3>6, <4>1 DEF Needs
    <3> QED
      BY <3>5, <3>7
  <2> QED
    BY <1>1, <1>3, <2>1, AskedLines
<1>5. ASSUME outcome' = "crashed"
      PROVE  \E k \in GoOn \cap Reach[c] : factories'[k] = "factory" /\ m \in Reach[k]
  <2>1. PICK i \in DOMAIN stack : FrameCrashes(stack[i])
    BY <1>5 DEF Throws
  <2>2. stack[i].id \in GoOn
    BY <1>2, <2>1, AllRequire, OnlyGoOnCrash
  <2>3. stack[i].id \in Known /\ stack[i].id \in Natives /\ stack[i].id # m
    BY <2>1 DEF LoaderInv, Stacked, FrameCrashes
  <2>4. factories'[stack[i].id] = "factory"
    BY <2>3 DEF LoaderInv, Lined
  <2>5. m \in Reach[stack[i].id]
    BY <1>1, AskedLines
  <2>6. stack[i].id \in Reach[c]
    <3>1. stack # <<>>
      OBVIOUS
    <3>2. Last(calls') = Last(calls)
      BY <1>1, <3>1, AskedFacts
    <3> QED
      BY <1>3, <3>2 DEF LoaderInv, Stacked
  <2> QED
    BY <2>2, <2>4, <2>5, <2>6
<1> QED
  BY <1>3, <1>4, <1>5 DEF ThrowsOnlyForMissing, NoneOf

\* An exception: somebody has to have caused it.
LEMMA ThrowKeeps ==
  ASSUME LoaderInv, outcome # "crashed", stack # <<>> => Requiring(Top),
         NEW kept \in BOOLEAN, Throws(stack, kept), UNCHANGED <<disk, environ, env, cuts>>,
         Fetched', calls' \in Seq(CallRecords), Len(calls') <= MaxCalls, ~Undisturbed',
         missed' # {} \/ ThrowsOnlyForMissing'
  PROVE  LoaderInv'
<1>1. /\ stack' = <<>> /\ outcome' \in {"crashed", "threw"} /\ Known' \subseteq Known
      /\ \A k \in Known' : exports'[k] = exports[k]
  BY DEF Throws, Known
<1>2. Stacked'
  BY <1>1, EmptyKeeps
<1>3. LoaderTyped'
  BY <1>1 DEF LoaderInv, LoaderTyped
<1>4. Whole'
  BY DEF Whole
<1>5. NoMore'
  BY <1>1 DEF LoaderInv, NoMore
<1>6. ASSUME "system" \in Known', outcome' # "crashed"
      PROVE  env = Variables /\ "env" \in exports'["system"]
  <2>1. "system" \in Known /\ exports'["system"] = exports["system"]
    BY <1>1, <1>6
  <2>2. ASSUME NEW i \in DOMAIN stack, stack[i].id = "system"
        PROVE  FALSE
    <3>1. Requiring(stack[i]) /\ stack[i] \in Frames
      BY AllRequire
    <3>2. FrameCrashes(stack[i])
      BY <2>2, <3>1, GoOnCrashes DEF GoOn
    <3>3. outcome' = "crashed"
      BY <3>2 DEF Throws
    <3> QED
      BY <1>6, <3>3
  <2> QED
    BY <2>1, <2>2 DEF LoaderInv, Cut
<1>7. Cut'
  <2>1. /\ cuts' \in Nat /\ (env' = {} \/ env' = Variables)
        /\ \/ environ' = Variables /\ (Variables # {} => cuts' = 0)
           \/ environ' = {} /\ env' = Variables /\ cuts' >= 1 /\ (outcome' # "crashed" => cuts' = 1)
    BY DEF LoaderInv, Cut
  <2> QED
    BY <1>6, <2>1 DEF Cut
<1>8. ThrowsOnlyForMissing'
  BY DEF ThrowsOnlyForMissing
<1>9. Lined'
  BY <1>1, EmptyLines
<1> QED
  BY <1>2, <1>3, <1>4, <1>5, <1>7, <1>8, <1>9 DEF LoaderInv

LEMMA WithFacts ==
  ASSUME NEW m \in Ids, NEW ns
  PROVE  /\ DOMAIN With(m, ns) = Known \cup {m}
         /\ With(m, ns)[m] = Found(m) \cup ns
         /\ \A k \in Known \ {m} : With(m, ns)[k] = exports[k]
         /\ \A k \in Known : exports[k] \subseteq With(m, ns)[k]
BY DEF With, Found

LEMMA WithExports ==
  ASSUME NEW m \in Ids, NEW ns, exports' = With(m, ns)
  PROVE  /\ Known' = Known \cup {m} /\ exports'[m] = Found(m) \cup ns
         /\ \A k \in Known \ {m} : exports'[k] = exports[k]
         /\ \A k \in Known : exports[k] \subseteq exports'[k]
<1>1. DOMAIN With(m, ns) = Known \cup {m}
  BY WithFacts
<1>2. With(m, ns)[m] = Found(m) \cup ns
  BY WithFacts
<1>3. \A k \in Known \ {m} : With(m, ns)[k] = exports[k]
  BY WithFacts
<1>4. \A k \in Known : exports[k] \subseteq With(m, ns)[k]
  BY WithFacts
<1>5. Known' = DOMAIN exports'
  BY DEF Known
<1> QED
  BY <1>1, <1>2, <1>3, <1>4, <1>5

\* What is done stays done, as long as exports only grow.
LEMMA EffectsLast ==
  ASSUME NEW k, NEW i, Effect(k, i), k \in Known, Known \subseteq Known',
         \A x \in Known : exports[x] \subseteq exports'[x]
  PROVE  Effect(k, i)'
BY DEF Effect

LEMMA PushInv ==
  ASSUME LoaderInv, outcome # "crashed", NEW m \in Ids, m \notin Known, AskedFor(m),
         stack' = Append(stack, [id |-> m, at |-> 1]), exports' = With(m, {}), outcome' = "ok",
         UNCHANGED <<disk, environ, env, missed, cuts>>, Fetched', asked \subseteq asked',
         Len(calls') <= MaxCalls, m \in Natives => factories'[m] = "factory",
         \A k \in Natives \ {m} : factories'[k] = factories[k]
  PROVE  LoaderInv'
<1>1. /\ Known' = Known \cup {m} /\ exports'[m] = {}
      /\ \A k \in Known : exports'[k] = exports[k]
  <2>1. /\ Known' = Known \cup {m} /\ exports'[m] = Found(m) \cup {}
        /\ \A k \in Known \ {m} : exports'[k] = exports[k]
    BY WithExports
  <2>2. Found(m) = {}
    BY DEF Found
  <2> QED
    BY <2>1, <2>2
<1>2. Stacked'
  BY <1>1, PushKeeps
<1>3. LoaderTyped'
  BY <1>1, AskedFacts DEF LoaderInv, LoaderTyped
<1>4. ASSUME Undisturbed'
      PROVE  /\ missed' = {}
             /\ \A k \in Ids : \A i \in DOMAIN Body[k] : HasRun(k, i)' => Effect(k, i)'
  <2>1. Undisturbed
    <3>1. Call(m, FALSE) \in CallRecords
      BY DEF Call, CallRecords
    <3> QED
      BY <1>4, <3>1, UndisturbedBefore DEF AskedFor
  <2>2. ASSUME NEW k \in Ids, NEW i \in DOMAIN Body[k], HasRun(k, i)'
        PROVE  Effect(k, i)'
    <3>1. HasRun(k, i)
      BY <1>1, <2>2, PushRuns
    <3>2. Effect(k, i) /\ k \in Known
      BY <2>1, <3>1 DEF LoaderInv, Whole, HasRun
    <3> QED
      BY <1>1, <3>2, EffectsLast
  <2> QED
    BY <2>1, <2>2 DEF LoaderInv, Whole
<1>5. Whole'
  BY <1>4, Zenon DEF Whole
<1>6. NoMore'
  BY <1>1 DEF LoaderInv, NoMore
<1>7. Cut'
  <2>1. ASSUME "system" \in Known'
        PROVE  \/ \E i \in DOMAIN stack' : stack'[i].id = "system" /\ stack'[i].at <= 3
               \/ env' = Variables /\ "env" \in exports'["system"]
    <3> DEFINE e == [id |-> m, at |-> 1]
    <3>1. stack \in Seq(Frames) /\ e \in Frames
      BY DEF LoaderInv, Stacked, Frames
    <3>2. PICK n \in Nat : n = Len(stack) /\ DOMAIN stack = 1 .. n
      BY <3>1, LenProperties
    <3>3. /\ stack' \in Seq(Frames) /\ Len(stack') = n + 1 /\ stack'[n + 1] = e
          /\ \A j \in 1 .. n : stack'[j] = stack[j]
      BY <3>1, <3>2, LastOfAppend
    <3>4. DOMAIN stack' = 1 .. n + 1
      BY <3>3, LenProperties
    <3>5. CASE m = "system"
      <4>1. e.id = "system" /\ e.at = 1
        BY <3>5
      <4>2. n + 1 \in DOMAIN stack'
        BY <3>4
      <4> HIDE DEF e
      <4> QED
        BY <3>3, <4>1, <4>2
    <3>6. CASE m # "system"
      <4>1. "system" \in Known /\ exports'["system"] = exports["system"]
        BY <1>1, <2>1, <3>6
      <4>2. CASE env = Variables /\ "env" \in exports["system"]
        BY <4>1, <4>2
      <4>3. ASSUME NEW i \in DOMAIN stack, stack[i].id = "system", stack[i].at <= 3
            PROVE  \E j \in DOMAIN stack' : stack'[j].id = "system" /\ stack'[j].at <= 3
        BY <3>2, <3>3, <3>4, <4>3
      <4> QED
        BY <4>1, <4>2, <4>3 DEF LoaderInv, Cut
    <3> QED
      BY <3>5, <3>6
  <2>2. /\ cuts' \in Nat /\ (env' = {} \/ env' = Variables)
        /\ \/ environ' = Variables /\ (Variables # {} => cuts' = 0)
           \/ environ' = {} /\ env' = Variables /\ cuts' >= 1 /\ (outcome' # "crashed" => cuts' = 1)
    BY DEF LoaderInv, Cut
  <2> QED
    BY <2>1, <2>2 DEF Cut
<1>8. Lined'
  BY <1>1, PushLines
<1> QED
  BY <1>2, <1>3, <1>5, <1>6, <1>7, <1>8 DEF LoaderInv, ThrowsOnlyForMissing

LEMMA LoadKeeps ==
  ASSUME LoaderInv, outcome # "crashed", NEW m \in Ids, m \notin Known, AskedFor(m),
         Load(m, stack), UNCHANGED disk, Len(calls') <= MaxCalls
  PROVE  LoaderInv'
<1>1. Fetched' /\ asked \subseteq asked'
  <2>1. CASE m \in Natives /\ Loads(m)
    BY <2>1, FetchKeeps DEF Load
  <2>2. CASE ~(m \in Natives /\ Loads(m))
    BY <2>2 DEF Load, LoaderInv, LoaderTyped, Fetched
  <2> QED
    BY <2>1, <2>2
<1>2. calls' \in Seq(CallRecords) /\ m \in Reach[Last(calls').of]
  BY AskedFacts
<1>3. UNCHANGED <<environ, env, missed, cuts>>
  BY DEF Load
<1>4. CASE m \in Natives /\ factories'[m] = "null"
  <2>1. PICK kept \in BOOLEAN : Throws(stack, kept)
    BY <1>4 DEF Load
  <2>2. m \in asked'
    BY <1>1, <1>4 DEF Fetched
  <2>3. ~Undisturbed'
    BY <2>2 DEF Undisturbed
  <2>4. ThrowsOnlyForMissing'
    BY <1>4, <2>1, LoadFactories, NullThrows
  <2>5. stack # <<>> => Requiring(Top)
    BY DEF AskedFor
  <2> QED
    BY <1>1, <1>2, <1>3, <2>1, <2>3, <2>4, <2>5, ThrowKeeps
<1>5. CASE ~(m \in Natives /\ factories'[m] = "null")
  <2>1. /\ stack' = Append(stack, [id |-> m, at |-> 1]) /\ exports' = With(m, {})
        /\ outcome' = "ok"
    BY <1>5 DEF Load
  <2>2. /\ m \in Natives => factories'[m] = "factory"
        /\ \A k \in Natives \ {m} : factories'[k] = factories[k]
    BY <1>5, LoadFactories
  <2> QED
    BY <1>1, <1>3, <2>1, <2>2, PushInv
<1> QED
  BY <1>4, <1>5

\* The top has done its statement: what has to be shown of the statement for the
\* invariant to last.
LEMMA AdvanceInv ==
  ASSUME LoaderInv, stack # <<>>, Top.at \in DOMAIN Body[Top.id], stack' = Advanced,
         NEW m, m = Top.id, NEW at, at = Top.at,
         UNCHANGED <<disk, handle, factories, asked, calls, outcome>>,
         Known \subseteq Known', Known' \subseteq Ids,
         \A k \in Known : exports[k] \subseteq exports'[k],
         NoMore', Cut', Requiring(Top) => Statement.of \in Known,
         Undisturbed => missed' = {} /\ Known' = Known /\ Effect(m, at)'
  PROVE  LoaderInv'
<1>1. Stacked'
  BY AdvanceKeeps
<1>2. LoaderTyped'
  BY DEF LoaderInv, LoaderTyped, Fetched
<1>3. outcome = "ok" /\ outcome' = "ok"
  BY DEF LoaderInv, Stacked
<1>4. Undisturbed' = Undisturbed
  BY DEF Undisturbed, Range
<1>5. ASSUME Undisturbed, NEW k \in Ids, NEW i \in DOMAIN Body[k], HasRun(k, i)'
      PROVE  Effect(k, i)'
  <2>1. k \in Known
    BY <1>5 DEF HasRun
  <2>2. CASE k = Top.id /\ i = Top.at
    BY <1>5, <2>2
  <2>3. CASE HasRun(k, i)
    <3>1. Effect(k, i)
      BY <1>3, <1>5, <2>3 DEF LoaderInv, Whole
    <3> QED
      BY <2>1, <3>1, EffectsLast
  <2> QED
    BY <1>5, <2>1, <2>2, <2>3, AdvanceRuns
<1>6. Whole'
  BY <1>3, <1>4, <1>5 DEF Whole
<1>7. Lined'
  BY AdvanceLines
<1> QED
  BY <1>1, <1>2, <1>3, <1>6, <1>7 DEF LoaderInv, ThrowsOnlyForMissing

LEMMA CutAdvances ==
  ASSUME LoaderInv, stack # <<>>, Top.at \in DOMAIN Body[Top.id], Statement.op # "cuts",
         stack' = Advanced, UNCHANGED <<environ, env, outcome, cuts>>,
         "system" \in Known' => "system" \in Known,
         \A k \in Known : exports[k] \subseteq exports'[k]
  PROVE  Cut'
<1>1. PICK n \in Nat \ {0} : n = Len(stack) /\ DOMAIN stack = 1 .. n /\ Top = stack[n]
  BY TopFacts
<1>2. /\ DOMAIN stack' = 1 .. n
      /\ \A j \in 1 .. n : stack'[j].id = stack[j].id
      /\ \A j \in 1 .. n - 1 : stack'[j] = stack[j]
      /\ stack'[n].at = Top.at + 1
  BY <1>1, AdvancedFacts
<1>3. ASSUME NEW i \in 1 .. n, stack[i].id = "system", stack[i].at <= 3
      PROVE  stack'[i].id = "system" /\ stack'[i].at <= 3
  <2>1. CASE i = n
    <3>1. Fits(Top.id, Top.at, Statement)
      BY TopFacts, AllBodies DEF Statement
    <3>2. Top.at # 3 /\ Top.at \in Nat
      BY <1>1, <1>3, <2>1, <3>1, TopFacts DEF Fits
    <3> QED
      BY <1>1, <1>2, <1>3, <2>1, <3>2
  <2>2. CASE i # n
    BY <1>2, <1>3, <2>2
  <2> QED
    BY <2>1, <2>2
<1>4. ASSUME "system" \in Known'
      PROVE  \/ \E i \in DOMAIN stack' : stack'[i].id = "system" /\ stack'[i].at <= 3
             \/ env' = Variables /\ "env" \in exports'["system"]
  <2>1. "system" \in Known /\ exports["system"] \subseteq exports'["system"]
    BY <1>4
  <2>2. outcome # "crashed"
    BY DEF LoaderInv, Stacked
  <2>3. CASE env = Variables /\ "env" \in exports["system"]
    BY <2>1, <2>3
  <2>4. CASE \E i \in DOMAIN stack : stack[i].id = "system" /\ stack[i].at <= 3
    BY <1>1, <1>2, <1>3, <2>4
  <2> QED
    BY <2>1, <2>2, <2>3, <2>4 DEF LoaderInv, Cut
<1>5. /\ cuts' \in Nat /\ (env' = {} \/ env' = Variables)
      /\ \/ environ' = Variables /\ (Variables # {} => cuts' = 0)
         \/ environ' = {} /\ env' = Variables /\ cuts' >= 1 /\ (outcome' # "crashed" => cuts' = 1)
  BY DEF LoaderInv, Cut
<1> QED
  BY <1>4, <1>5 DEF Cut

LEMMA RequiresKnownKeeps ==
  ASSUME LoaderInv, stack # <<>>, Top.at \in DOMAIN Body[Top.id], RequiresKnown,
         UNCHANGED <<disk, calls>>
  PROVE  LoaderInv'
<1> DEFINE absent == Statement.names \ Found(Statement.of)
<1>1. /\ Statement.op \in {"takes", "needs"} /\ Statement.of \in Known
      /\ missed' = missed \cup ({Statement.of} \X absent)
      /\ UNCHANGED <<handle, factories, environ, env, asked, cuts>>
  BY DEF RequiresKnown
<1>2. Requiring(Top) /\ \E m, at : m = Top.id /\ at = Top.at
  BY <1>1 DEF Requiring, Statement
<1>3. outcome = "ok"
  BY DEF LoaderInv, Stacked
<1>4. Undisturbed => absent = {}
  <2>1. Undisturbed => Statement.names \subseteq exports[Statement.of]
    BY <1>1, <1>2, <1>3, Finds DEF Sound
  <2> QED
    BY <1>1, <2>1 DEF Found
<1>5. CASE Statement.op = "needs" /\ absent # {}
  <2>1. PICK kept \in BOOLEAN : Throws(stack, kept)
    BY <1>5 DEF RequiresKnown
  <2>2. missed' # {}
    <3>1. PICK x : x \in absent
      BY <1>5
    <3>2. <<Statement.of, x>> \in {Statement.of} \X absent
      BY <3>1
    <3> HIDE DEF absent
    <3> QED
      BY <1>1, <3>2
  <2>3. ~Undisturbed'
    BY <1>1, <1>4, <1>5 DEF Undisturbed, Range
  <2>4. Fetched' /\ calls' \in Seq(CallRecords) /\ Len(calls') <= MaxCalls
    BY <1>1 DEF LoaderInv, LoaderTyped, Fetched
  <2> QED
    BY <1>1, <1>2, <1>3, <2>1, <2>2, <2>3, <2>4, ThrowKeeps
<1>6. CASE ~(Statement.op = "needs" /\ absent # {})
  <2>1. stack' = Advanced /\ exports' = exports /\ outcome' = outcome
    BY <1>6 DEF RequiresKnown, Advanced
  <2>2. Known' = Known
    BY <2>1 DEF Known
  <2>3. Cut'
    BY <1>1, <2>1, <2>2, CutAdvances
  <2>4. NoMore'
    BY <2>1, <2>2 DEF LoaderInv, NoMore
  <2>5. Undisturbed => missed' = {}
    BY <1>1, <1>4 DEF LoaderInv, Whole
  <2>6. PICK m, at : m = Top.id /\ at = Top.at
    BY <1>2
  <2>7. Effect(m, at)'
    <3>1. Body[m][at].op \in {"takes", "needs"} /\ Body[m][at].of \in Known'
      BY <1>1, <2>2, <2>6 DEF Statement
    <3> QED
      BY <3>1 DEF Effect
  <2>8. Known' \subseteq Ids
    BY <2>2 DEF LoaderInv, LoaderTyped
  <2> HIDE DEF absent
  <2> QED
    BY <1>1, <2>1, <2>2, <2>3, <2>4, <2>5, <2>6, <2>7, <2>8, AdvanceInv
<1> QED
  BY <1>5, <1>6

LEMMA SetsNamesKeeps ==
  ASSUME LoaderInv, stack # <<>>, Top.at \in DOMAIN Body[Top.id], SetsNames,
         UNCHANGED <<disk, calls>>
  PROVE  LoaderInv'
<1>1. /\ Statement.op \in {"sets", "copies"} /\ stack' = Advanced
      /\ UNCHANGED <<handle, factories, environ, env, outcome, asked, missed, cuts>>
  BY DEF SetsNames, Advanced
<1>2. PICK m, at, of, names :
        /\ m \in Ids /\ of \in Ids
        /\ m = Top.id /\ at = Top.at /\ of = Statement.of /\ names = Statement.names
  <2>1. Top.id \in Ids
    BY TopFacts
  <2>2. Statement.of \in Ids
    BY <2>1, AllBodies DEF Fits, Statement
  <2> QED
    BY <2>1, <2>2, Zenon
<1>3. Fits(m, at, Statement) /\ Body[m][at] = Statement /\ m \in Known
  BY <1>2, TopFacts, AllBodies DEF Statement
<1>4. outcome = "ok" /\ \A k \in Known \cap DOMAIN Promised : exports[k] \subseteq Promised[k]
  BY DEF LoaderInv, Stacked, NoMore
<1>5. Known \subseteq Ids
  BY DEF LoaderInv, LoaderTyped
<1>6. CASE Statement.op = "sets"
  <2>1. exports' = With(of, names)
    BY <1>2, <1>6 DEF SetsNames
  <2>2. /\ Known' = Known \cup {of} /\ exports'[of] = Found(of) \cup names
        /\ \A k \in Known \ {of} : exports'[k] = exports[k]
        /\ \A k \in Known : exports[k] \subseteq exports'[k]
    BY <1>2, <2>1, WithExports
  <2>3. Known' = Known \cup {of}
    BY <2>2
  <2>4. NoMore'
    <3>1. of \in DOMAIN Promised => names \subseteq Promised[of]
      BY <1>2, <1>3, <1>6 DEF Fits
    <3>2. \A k \in Known' \cap DOMAIN Promised : exports'[k] \subseteq Promised[k]
      BY <1>4, <2>2, <2>3, <3>1 DEF Found
    <3> QED
      BY <3>2 DEF NoMore
  <2>5. "system" \in Known' => "system" \in Known
    <3>1. of = "system" => m = "system"
      BY <1>2, <1>3 DEF Fits
    <3> QED
      BY <1>3, <2>3, <3>1
  <2>6. Cut'
    BY <1>1, <1>6, <2>2, <2>5, CutAdvances
  <2>7. Undisturbed => of \in Known /\ missed' = {}
    <3>1. Undisturbed => of \in Known
      BY <1>2, <1>4, <1>6, SetsKnown DEF Sound
    <3> QED
      BY <1>1, <3>1 DEF LoaderInv, Whole
  <2>8. Effect(m, at)'
    <3>1. /\ Body[m][at].op = "sets" /\ Body[m][at].of = of /\ Body[m][at].names = names
          /\ of \in Known' /\ names \subseteq exports'[of]
      BY <1>2, <1>3, <1>6, <2>2, <2>3
    <3> QED
      BY <3>1 DEF Effect
  <2>9. Requiring(Top) => Statement.of \in Known
    BY <1>1 DEF Requiring, Statement
  <2> QED
    BY <1>1, <1>2, <1>5, <2>2, <2>3, <2>4, <2>6, <2>7, <2>8, <2>9, AdvanceInv
<1>7. CASE Statement.op = "copies"
  <2>1. exports' = With(m, Found(of))
    BY <1>2, <1>7 DEF SetsNames
  <2>2. /\ Known' = Known \cup {m} /\ exports'[m] = Found(m) \cup Found(of)
        /\ \A k \in Known \ {m} : exports'[k] = exports[k]
        /\ \A k \in Known : exports[k] \subseteq exports'[k]
    BY <1>2, <2>1, WithExports
  <2>3. Known' = Known
    BY <1>3, <2>2
  <2>4. \/ m = "io" /\ of = "io-engine"
        \/ m = "os" /\ of = "os-engine"
    BY <1>2, <1>3, <1>7 DEF Fits
  <2>5. {m, of} \subseteq DOMAIN Promised /\ Promised[of] = Promised[m]
    BY <2>4, ThePromises
  <2>6. NoMore'
    <3>1. Found(m) \subseteq Promised[m] /\ Found(of) \subseteq Promised[m]
      BY <1>3, <1>4, <2>5 DEF Found
    <3>2. \A k \in Known' \cap DOMAIN Promised : exports'[k] \subseteq Promised[k]
      BY <1>4, <2>2, <2>3, <3>1
    <3> QED
      BY <3>2 DEF NoMore
  <2>7. Cut'
    BY <1>1, <1>7, <2>2, <2>3, CutAdvances
  <2>8. ASSUME Undisturbed
        PROVE  missed' = {} /\ Effect(m, at)'
    <3>1. of \in Known /\ Promised[of] \subseteq exports[of]
      BY <1>2, <1>4, <1>7, <2>8, CopiesWhole DEF Sound
    <3>2. Body[m][at].op = "copies" /\ Body[m][at].of = of
      BY <1>2, <1>3, <1>7
    <3>3. of \in Known' /\ Promised[of] \subseteq exports'[m]
      BY <2>2, <2>3, <3>1 DEF Found
    <3>4. Effect(m, at)'
      BY <3>2, <3>3 DEF Effect
    <3> QED
      BY <1>1, <2>8, <3>4 DEF LoaderInv, Whole
  <2>9. Requiring(Top) => Statement.of \in Known
    BY <1>1 DEF Requiring, Statement
  <2> QED
    BY <1>1, <1>2, <1>5, <2>2, <2>3, <2>6, <2>7, <2>8, <2>9, AdvanceInv
<1> QED
  BY <1>1, <1>6, <1>7

LEMMA CutsEnvironmentKeeps ==
  ASSUME LoaderInv, stack # <<>>, Top.at \in DOMAIN Body[Top.id], CutsEnvironment,
         UNCHANGED <<disk, calls>>
  PROVE  LoaderInv'
<1>1. /\ Statement.op = "cuts" /\ cuts' = cuts + 1
      /\ UNCHANGED <<handle, factories, asked, missed>>
  BY DEF CutsEnvironment
<1>2. PICK m, at, names : m \in Ids /\ m = Top.id /\ at = Top.at /\ names = Statement.names
  BY TopFacts
<1>3. Fits(m, at, Statement) /\ Body[m][at] = Statement /\ m \in Known
  BY <1>2, TopFacts, AllBodies DEF Statement
<1>4. m = "system" /\ Statement.of = "system" /\ "env" \in names
  BY <1>1, <1>2, <1>3 DEF Fits
<1>5. outcome = "ok" /\ \A k \in Known \cap DOMAIN Promised : exports[k] \subseteq Promised[k]
  BY DEF LoaderInv, Stacked, NoMore
<1>6. Known \subseteq Ids
  BY DEF LoaderInv, LoaderTyped
<1>7. CASE environ = Variables
  <2>1. /\ environ' = {} /\ env' = {v \in Variables : CutsOff(v)}
        /\ exports' = With("system", names) /\ stack' = Advanced /\ outcome' = outcome
    BY <1>2, <1>7 DEF CutsEnvironment, Advanced
  <2>2. env' = Variables
    BY <2>1 DEF CutsOff
  <2>3. /\ Known' = Known \cup {m} /\ exports'[m] = Found(m) \cup names
        /\ \A k \in Known \ {m} : exports'[k] = exports[k]
        /\ \A k \in Known : exports[k] \subseteq exports'[k]
    BY <1>2, <1>4, <2>1, WithExports
  <2>4. Known' = Known
    BY <1>3, <2>3
  <2>5. NoMore'
    <3>1. m \in DOMAIN Promised /\ names \subseteq Promised[m]
      BY <1>1, <1>2, <1>3, <1>4, ThePromises DEF Fits
    <3>2. \A k \in Known' \cap DOMAIN Promised : exports'[k] \subseteq Promised[k]
      BY <1>3, <1>5, <2>3, <2>4, <3>1 DEF Found
    <3> QED
      BY <3>2 DEF NoMore
  <2>6. Cut'
    <3>1. "env" \in exports'["system"]
      BY <1>4, <2>3
    <3>2. cuts' \in Nat /\ (Variables # {} => cuts' = 1) /\ cuts' >= 1
      BY <1>1, <1>7 DEF LoaderInv, Cut
    <3>3. CASE Variables = {}
      BY <2>1, <2>2, <3>1, <3>2, <3>3 DEF Cut
    <3>4. CASE Variables # {}
      BY <2>1, <2>2, <3>1, <3>2, <3>4 DEF Cut
    <3> QED
      BY <3>3, <3>4
  <2>7. Effect(m, at)'
    <3>1. /\ Body[m][at].op = "cuts" /\ Body[m][at].of = m /\ Body[m][at].names = names
          /\ m \in Known' /\ names \subseteq exports'[m]
      BY <1>1, <1>2, <1>3, <1>4, <2>3, <2>4
    <3> QED
      BY <3>1 DEF Effect
  <2>8. Undisturbed => missed' = {}
    BY <1>1 DEF LoaderInv, Whole
  <2>9. Requiring(Top) => Statement.of \in Known
    BY <1>1 DEF Requiring, Statement
  <2> QED
    BY <1>1, <1>2, <1>6, <2>1, <2>3, <2>4, <2>5, <2>6, <2>7, <2>8, <2>9, AdvanceInv
<1>8. CASE environ # Variables
  <2>1. /\ outcome' = "crashed" /\ stack' = <<>> /\ UNCHANGED <<environ, env, exports>>
    BY <1>8 DEF CutsEnvironment
  <2>2. environ = {} /\ env = Variables /\ cuts \in Nat /\ cuts >= 1
    BY <1>8 DEF LoaderInv, Cut
  <2>3. Stacked' /\ Lined'
    BY <2>1, EmptyKeeps, EmptyLines
  <2>4. LoaderTyped' /\ NoMore'
    BY <1>1, <2>1 DEF LoaderInv, LoaderTyped, Fetched, NoMore, Known
  <2>5. Whole'
    BY <1>1, <2>1 DEF LoaderInv, Whole, Undisturbed, Range
  <2>6. cuts' \in Nat /\ cuts' > 1 /\ cuts' >= 1
    BY <1>1, <2>2
  <2>7. Cut' /\ ThrowsOnlyForMissing'
    BY <2>1, <2>2, <2>6 DEF Cut, ThrowsOnlyForMissing
  <2> QED
    BY <2>3, <2>4, <2>5, <2>7 DEF LoaderInv
<1> QED
  BY <1>7, <1>8

LEMMA FinishKeeps ==
  ASSUME LoaderInv, Finish
  PROVE  LoaderInv'
<1>1. /\ stack # <<>> /\ Top.at \notin DOMAIN Body[Top.id] /\ stack' = Front(stack)
      /\ UNCHANGED <<disk, handle, factories, exports, environ, env, calls, asked, missed, cuts>>
  BY DEF Finish
<1>2. outcome = "ok" /\ outcome' = "ok" /\ Known' = Known
  BY <1>1 DEF Finish, LoaderInv, Stacked, Known
<1>3. Stacked'
  BY <1>1, <1>2, PopKeeps
<1>4. LoaderTyped' /\ NoMore'
  BY <1>1, <1>2 DEF LoaderInv, LoaderTyped, Fetched, NoMore
<1>5. Whole'
  <2>1. Undisturbed' = Undisturbed
    BY <1>1 DEF Undisturbed, Range
  <2>2. ASSUME Undisturbed, NEW k \in Ids, NEW i \in DOMAIN Body[k], HasRun(k, i)'
        PROVE  Effect(k, i)'
    <3>1. HasRun(k, i)
      BY <1>1, <1>2, <2>2, PopRuns
    <3>2. Effect(k, i) /\ k \in Known
      BY <1>2, <2>2, <3>1 DEF LoaderInv, Whole, HasRun
    <3>3. \A x \in Known : exports[x] \subseteq exports'[x]
      BY <1>1
    <3> QED
      BY <1>2, <3>2, <3>3, EffectsLast
  <2> QED
    BY <1>1, <1>2, <2>1, <2>2 DEF LoaderInv, Whole
<1>6. Cut'
  <2>1. PICK n \in Nat \ {0} : n = Len(stack) /\ DOMAIN stack = 1 .. n /\ Top = stack[n]
    BY <1>1, TopFacts
  <2>2. /\ stack' \in Seq(Frames) /\ Len(stack') = n - 1
        /\ \A j \in 1 .. n - 1 : stack'[j] = stack[j]
    BY <1>1, <2>1, TopFacts
  <2>3. DOMAIN stack' = 1 .. n - 1
    BY <2>2, LenProperties
  <2>4. ASSUME NEW i \in 1 .. n, stack[i].id = "system", stack[i].at <= 3
        PROVE  i \in DOMAIN stack' /\ stack'[i].id = "system" /\ stack'[i].at <= 3
    <3>1. i # n
      <4>1. Top.id = "system" => Top.at \in Nat \ {0} /\ ~(Top.at <= 3)
        <5>1. Top.at \in 1 .. Len(Body[Top.id]) + 1
          BY <1>1, TopFacts
        <5>2. Len(Body["system"]) = 3 /\ DOMAIN Body["system"] = 1 .. 3
          BY SystemFits DEF AllFit
        <5> QED
          BY <1>1, <5>1, <5>2
      <4> QED
        BY <2>1, <2>4, <4>1
    <3> QED
      BY <2>2, <2>3, <2>4, <3>1
  <2>5. "system" \in Known =>
           \/ \E i \in DOMAIN stack' : stack'[i].id = "system" /\ stack'[i].at <= 3
           \/ env = Variables /\ "env" \in exports["system"]
    BY <1>2, <2>1, <2>4 DEF LoaderInv, Cut
  <2> QED
    BY <1>1, <1>2, <2>5 DEF LoaderInv, Cut
<1>7. Lined'
  BY <1>1, <1>2, PopLines
<1> QED
  BY <1>2, <1>3, <1>4, <1>5, <1>6, <1>7 DEF LoaderInv, ThrowsOnlyForMissing

LEMMA LoaderStepKeeps ==
  ASSUME LoaderInv, LoaderStep
  PROVE  LoaderInv'
<1>1. CASE Finish
  BY <1>1, FinishKeeps
<1>2. CASE Execute
  <2>1. /\ stack # <<>> /\ Top.at \in DOMAIN Body[Top.id] /\ UNCHANGED <<disk, calls>>
        /\ RequiresNew \/ RequiresKnown \/ SetsNames \/ CutsEnvironment
    BY <1>2 DEF Execute
  <2>2. CASE RequiresNew
    <3>1. /\ Statement.op \in {"takes", "needs"} /\ Statement.of \notin Known
          /\ Load(Statement.of, stack)
      BY <2>2 DEF RequiresNew
    <3>2. PICK m : m = Statement.of
      OBVIOUS
    <3>3. Requiring(Top)
      BY <2>1, <3>1 DEF Requiring, Statement
    <3>4. m \in Ids /\ m \notin Known /\ AskedFor(m) /\ Load(m, stack)
      BY <2>1, <3>1, <3>2, <3>3, TopRequires DEF AskedFor
    <3>5. outcome # "crashed" /\ Len(calls') <= MaxCalls
      BY <2>1 DEF LoaderInv, LoaderTyped, Stacked
    <3> QED
      BY <2>1, <3>4, <3>5, LoadKeeps
  <2>3. CASE RequiresKnown
    BY <2>1, <2>3, RequiresKnownKeeps
  <2>4. CASE SetsNames
    BY <2>1, <2>4, SetsNamesKeeps
  <2>5. CASE CutsEnvironment
    BY <2>1, <2>5, CutsEnvironmentKeeps
  <2> QED
    BY <2>1, <2>2, <2>3, <2>4, <2>5
<1> QED
  BY <1>1, <1>2 DEF LoaderStep

LEMMA AppendCall ==
  ASSUME LoaderInv, NEW c \in CallRecords, calls' = Append(calls, c), Len(calls) < MaxCalls
  PROVE  calls' \in Seq(CallRecords) /\ Len(calls') <= MaxCalls /\ c \in Range(calls')
<1>1. calls \in Seq(CallRecords)
  BY DEF LoaderInv, LoaderTyped
<1>2. PICK n \in Nat : n = Len(calls)
  BY <1>1, LenProperties
<1>3. calls' \in Seq(CallRecords) /\ Len(calls') = n + 1 /\ calls'[n + 1] = c
  BY <1>1, <1>2, LastOfAppend
<1>4. n + 1 \in DOMAIN calls'
  BY <1>3, LenProperties
<1> QED
  BY <1>2, <1>3, <1>4, LoaderAssumption DEF Range

LEMMA RequireKeeps ==
  ASSUME LoaderInv, NEW m \in Ids, Require(m)
  PROVE  LoaderInv'
<1>1. /\ stack = <<>> /\ outcome # "crashed" /\ Len(calls) < MaxCalls
      /\ calls' = Append(calls, Call(m, FALSE)) /\ disk' = disk
  BY DEF Require
<1>2. Call(m, FALSE) \in CallRecords
  BY DEF Call, CallRecords
<1>3. calls' \in Seq(CallRecords) /\ Len(calls') <= MaxCalls
  BY <1>1, <1>2, AppendCall
<1>4. CASE m \in Known
  <2>1. /\ outcome' = "ok"
        /\ UNCHANGED <<handle, factories, asked, stack, exports, environ, env, missed, cuts>>
    BY <1>4 DEF Require
  <2>2. Stacked' /\ Lined'
    BY <1>1, <2>1, EmptyKeeps, EmptyLines
  <2>3. LoaderTyped' /\ NoMore' /\ Known' = Known
    BY <1>1, <1>3, <2>1 DEF LoaderInv, LoaderTyped, Fetched, NoMore, Known
  <2>4. ASSUME Undisturbed'
        PROVE  /\ missed' = {}
               /\ \A k \in Ids : \A i \in DOMAIN Body[k] : HasRun(k, i)' => Effect(k, i)'
    <3>1. Undisturbed
      BY <1>1, <1>2, <2>1, <2>4, UndisturbedBefore
    <3>2. ASSUME NEW k \in Ids, NEW i \in DOMAIN Body[k], HasRun(k, i)'
          PROVE  Effect(k, i)'
      <4>1. HasRun(k, i)
        BY <2>1, <2>3, <3>2 DEF HasRun
      <4>2. Effect(k, i) /\ k \in Known
        BY <1>1, <3>1, <4>1 DEF LoaderInv, Whole, HasRun
      <4>3. \A x \in Known : exports[x] \subseteq exports'[x]
        BY <2>1
      <4> QED
        BY <2>3, <4>2, <4>3, EffectsLast
    <3> QED
      BY <2>1, <3>1, <3>2 DEF LoaderInv, Whole
  <2>5. Whole'
    BY <2>1, <2>4 DEF Whole
  <2>6. Cut'
    BY <1>1, <2>1, <2>3 DEF LoaderInv, Cut
  <2> QED
    BY <2>1, <2>2, <2>3, <2>5, <2>6 DEF LoaderInv, ThrowsOnlyForMissing
<1>5. CASE m \notin Known
  <2>1. Load(m, stack) /\ AskedFor(m)
    BY <1>1, <1>5 DEF Require, AskedFor
  <2> QED
    BY <1>1, <1>3, <1>5, <2>1, LoadKeeps
<1> QED
  BY <1>4, <1>5

\* After a reload() the promises do not count any more.
LEMMA ReloadKeeps ==
  ASSUME LoaderInv, NEW l \in Natives, Reload(l)
  PROVE  LoaderInv'
<1>1. /\ stack = <<>> /\ outcome # "crashed" /\ Len(calls) < MaxCalls
      /\ calls' = Append(calls, Call(l, TRUE)) /\ Fetch(l)
      /\ exports' = [m \in Known \ {l} |-> exports[m]] /\ outcome' = "ok"
      /\ UNCHANGED <<disk, stack, environ, env, missed, cuts>>
  BY DEF Reload
<1>2. Call(l, TRUE) \in CallRecords /\ Call(l, TRUE).reload = TRUE
  BY TheIds DEF Call, CallRecords, Natives
<1>3. calls' \in Seq(CallRecords) /\ Len(calls') <= MaxCalls /\ Call(l, TRUE) \in Range(calls')
  BY <1>1, <1>2, AppendCall
<1>4. ~Undisturbed'
  BY <1>2, <1>3 DEF Undisturbed, Range
<1>5. /\ Known' \subseteq Known /\ \A k \in Known' : exports'[k] = exports[k]
  BY <1>1 DEF Known
<1>6. Stacked' /\ Lined'
  BY <1>1, EmptyKeeps, EmptyLines
<1>7. LoaderTyped' /\ NoMore'
  BY <1>1, <1>3, <1>5, FetchKeeps DEF LoaderInv, LoaderTyped, NoMore
<1>8. Whole' /\ ThrowsOnlyForMissing'
  BY <1>1, <1>4 DEF Whole, ThrowsOnlyForMissing
<1>9. Cut'
  BY <1>1, <1>5 DEF LoaderInv, Cut
<1> QED
  BY <1>6, <1>7, <1>8, <1>9 DEF LoaderInv

\* What happens in the places of the libraries does not touch what is in the process.
LEMMA DiskKeeps ==
  ASSUME LoaderInv, disk' \in [Natives -> Library],
         UNCHANGED <<handle, factories, exports, stack, environ, env, calls, outcome, asked,
                     missed, cuts>>
  PROVE  LoaderInv'
<1>1. LoaderTyped'
  BY DEF LoaderInv, LoaderTyped, Fetched, Known
<1>2. Stacked' /\ Lined' /\ NoMore' /\ Cut' /\ ThrowsOnlyForMissing'
  BY DEF LoaderInv, Stacked, Lined, NoMore, Cut, ThrowsOnlyForMissing, NoneOf, Undisturbed, Known
<1>3. Whole'
  BY DEF LoaderInv, Whole, Undisturbed, HasRun, Effect, Known
<1> QED
  BY <1>1, <1>2, <1>3 DEF LoaderInv

-----------------------------------------------------------------------------
(* The program.                                                            *)

EngineInv ==
  /\ LauncherInv /\ LoaderInv
  /\ stack # <<>> => pc = "line"
  /\ outcome = "crashed" => pc = "undefined"

LEMMA EngineInitHolds == EngineInit => EngineInv
<1> SUFFICES ASSUME EngineInit PROVE EngineInv
  OBVIOUS
<1>1. LauncherInv /\ LoaderInit
  BY LauncherInit DEF EngineInit
<1>2. /\ disk \in [Natives -> Library] /\ handle = [l \in Natives |-> "missing"]
      /\ factories = [l \in Natives |-> "unasked"]
      /\ exports = <<>> /\ stack = <<>> /\ environ = Variables /\ env = {}
      /\ calls = <<>> /\ outcome = "ok" /\ asked = {} /\ missed = {} /\ cuts = 0
  BY <1>1, LoaderAssumption DEF LoaderInit
<1>3. Known = {}
  BY <1>2 DEF Known
<1>4. Stacked /\ Lined
  <2>1. <<>> \in Seq(Frames) /\ DOMAIN stack = {}
    BY <1>2
  <2> QED
    BY <1>2, <2>1 DEF Stacked, Lined
<1>5. Fetched
  BY <1>2 DEF Fetched, Library
<1>6. LoaderTyped
  <2>1. calls \in Seq(CallRecords) /\ Len(calls) = 0
    BY <1>2
  <2> QED
    BY <1>2, <1>3, <1>5, <2>1, LoaderAssumption DEF LoaderTyped
<1>7. Whole
  BY <1>2, <1>3 DEF Whole, HasRun
<1>8. NoMore /\ Cut /\ ThrowsOnlyForMissing
  BY <1>2, <1>3 DEF NoMore, Cut, ThrowsOnlyForMissing
<1> QED
  BY <1>1, <1>2, <1>4, <1>6, <1>7, <1>8 DEF EngineInv, LoaderInv

\* A step that leaves the loader alone.
LEMMA LoaderRests ==
  ASSUME LoaderInv, UNCHANGED loaderVars
  PROVE  LoaderInv' /\ stack' = stack /\ outcome' = outcome
<1>1. /\ disk' = disk
      /\ UNCHANGED <<handle, factories, exports, stack, environ, env, calls, outcome, asked,
                     missed, cuts>>
  BY DEF loaderVars
<1>2. disk' \in [Natives -> Library]
  BY <1>1 DEF LoaderInv, LoaderTyped
<1> QED
  BY <1>1, <1>2, DiskKeeps

LEMMA EngineStepKeeps ==
  ASSUME EngineInv, [EngineNext]_engineVars
  PROVE  EngineInv'
<1>1. /\ LauncherInv /\ LoaderInv
      /\ stack # <<>> => pc = "line"
      /\ outcome = "crashed" => pc = "undefined"
  BY DEF EngineInv
<1>2. CASE Launching
  <2>1. /\ Step
        /\ UNCHANGED <<handle, factories, exports, stack, environ, env, calls, outcome, asked,
                       missed, cuts>>
    BY <1>2 DEF Launching, Chosen
  <2>2. disk' \in [Natives -> Library]
    <3>1. disk' \in Disks \/ disk' = disk
      BY <1>2 DEF Launching, Chosen
    <3> QED
      BY <1>1, <3>1, LoaderAssumption DEF LoaderInv, LoaderTyped
  <2>3. LauncherInv' /\ LoaderInv'
    BY <1>1, <2>1, <2>2, StepKeeps, DiskKeeps
  <2>4. pc \in {"follow", "homes", "setup", "open", "read"}
    BY <2>1 DEF Step, Follow, MakeAbsolute, FindHomes, SetUp, Open, Bootstrap, ReadTurn
  <2> QED
    BY <1>1, <2>1, <2>3, <2>4 DEF EngineInv
<1>3. CASE Editing
  <2>1. (\E n \in 0 .. MaxSize : Edit(n)) /\ UNCHANGED loaderVars /\ pc' = pc
    BY <1>3 DEF Editing, Edit
  <2>2. LauncherInv'
    BY <1>1, <2>1, StepKeeps
  <2>3. LoaderInv' /\ stack' = stack /\ outcome' = outcome
    BY <1>1, <2>1, LoaderRests
  <2> QED
    BY <1>1, <2>1, <2>2, <2>3 DEF EngineInv
<1>4. CASE ReadLine \/ EndOfInput \/ EndLine \/ Quit
  <2>1. /\ UNCHANGED <<launched, loaderVars>> /\ pc' \in {"shell", "line", "exit"}
        /\ pc # "undefined" /\ (pc = "line" => stack = <<>>)
    BY <1>4 DEF ReadLine, EndOfInput, EndLine, Quit
  <2>2. LauncherInv'
    BY <1>1, <2>1, LaunchedKeeps
  <2>3. LoaderInv' /\ stack' = stack /\ outcome' = outcome
    BY <1>1, <2>1, LoaderRests
  <2> QED
    BY <1>1, <2>1, <2>2, <2>3 DEF EngineInv
<1>5. CASE Calls
  <2>1. /\ pc = "line" /\ UNCHANGED launched /\ pc' = pc
        /\ (\E m \in Ids : Require(m)) \/ (\E l \in Natives : Reload(l))
    BY <1>5 DEF Calls
  <2>2. LauncherInv'
    BY <1>1, <2>1, LaunchedKeeps
  <2>3. LoaderInv'
    BY <1>1, <2>1, RequireKeeps, ReloadKeeps
  <2>4. outcome' # "crashed"
    <3>1. ASSUME NEW m \in Ids, Require(m)
          PROVE  outcome' # "crashed"
      <4>1. stack = <<>>
        BY <3>1 DEF Require
      <4>2. \A kept : Throws(<<>>, kept) => outcome' = "threw"
        BY DEF Throws
      <4>3. Load(m, <<>>) => outcome' # "crashed"
        BY <4>2 DEF Load
      <4> QED
        BY <3>1, <4>3 DEF Require
    <3>2. ASSUME NEW l \in Natives, Reload(l)
          PROVE  outcome' # "crashed"
      BY <3>2 DEF Reload
    <3> QED
      BY <2>1, <3>1, <3>2
  <2> QED
    BY <2>1, <2>2, <2>3, <2>4 DEF EngineInv
<1>6. CASE LoadingStep
  <2>1. /\ pc = "line" /\ LoaderStep /\ UNCHANGED launched
        /\ pc' = IF outcome' = "crashed" THEN "undefined" ELSE pc
    BY <1>6 DEF LoadingStep
  <2>2. LauncherInv'
    BY <1>1, <2>1, LaunchedKeeps
  <2>3. LoaderInv'
    BY <1>1, <2>1, LoaderStepKeeps
  <2>4. stack' # <<>> => outcome' = "ok"
    BY <2>3 DEF LoaderInv, Stacked
  <2> QED
    BY <2>1, <2>2, <2>3, <2>4 DEF EngineInv
<1>7. CASE Building
  <2>1. /\ pc \in {"shell", "line"} /\ (\E l \in Natives : Build(l)) /\ UNCHANGED vars
    BY <1>7 DEF Building
  <2>2. pc' = pc /\ UNCHANGED launched
    BY <2>1 DEF vars, launched
  <2>3. LauncherInv'
    BY <1>1, <2>1, <2>2, LaunchedKeeps
  <2>4. PICK l \in Natives : Build(l)
    BY <2>1
  <2>5. /\ disk' \in [Natives -> Library]
        /\ UNCHANGED <<handle, factories, exports, stack, environ, env, calls, outcome, asked,
                       missed, cuts>>
    BY <1>1, <2>4 DEF Build, LoaderInv, LoaderTyped, Library
  <2>6. LoaderInv'
    BY <1>1, <2>5, DiskKeeps
  <2> QED
    BY <1>1, <2>2, <2>3, <2>5, <2>6 DEF EngineInv
<1>8. CASE UNCHANGED engineVars
  <2>1. UNCHANGED loaderVars /\ UNCHANGED vars
    BY <1>8 DEF engineVars
  <2>2. LauncherInv'
    BY <1>1, <2>1, LauncherRests
  <2>3. LoaderInv' /\ stack' = stack /\ outcome' = outcome
    BY <1>1, <2>1, LoaderRests
  <2> QED
    BY <1>1, <2>1, <2>2, <2>3 DEF EngineInv, vars
<1> QED
  BY <1>2, <1>3, <1>4, <1>5, <1>6, <1>7, <1>8 DEF EngineNext

LEMMA EngineInvariance == EngineSpec => []EngineInv
<1>1. EngineInit => EngineInv
  BY EngineInitHolds
<1>2. EngineInv /\ [EngineNext]_engineVars => EngineInv'
  BY EngineStepKeeps
<1> QED
  BY <1>1, <1>2, PTL DEF EngineSpec

LEMMA EngineTyped == EngineInv => EngineTypeOK
<1> SUFFICES ASSUME EngineInv PROVE EngineTypeOK
  OBVIOUS
<1>1. TypeOK /\ LoaderTyped /\ Stacked /\ Cut
  BY DEF EngineInv, LauncherInv, LoaderInv
<1>2. Cardinality(Loading) = Len(stack)
  <2>1. stack \in Seq(Frames)
    BY <1>1 DEF Stacked
  <2>2. PICK n \in Nat : n = Len(stack) /\ DOMAIN stack = 1 .. n
    BY <2>1, LenProperties
  <2>3. IsFiniteSet(1 .. n) /\ Cardinality(1 .. n) = n
    <3>1. /\ IsFiniteSet(1 .. n)
          /\ Cardinality(1 .. n) = IF 1 > n THEN 0 ELSE n - 1 + 1
      BY FS_Interval
    <3> QED
      BY <2>2, <3>1
  <2> DEFINE f == [i \in 1 .. n |-> stack[i].id]
  <2>4. f \in Bijection(1 .. n, Loading)
    <3>1. Loading = {stack[i].id : i \in 1 .. n}
      BY <2>2 DEF Loading
    <3>2. \A i, j \in 1 .. n : stack[i].id = stack[j].id => i = j
      BY <1>1, <2>2 DEF Stacked
    <3>3. f \in [1 .. n -> Loading]
      BY <3>1
    <3>4. \A i, j \in 1 .. n : f[i] = f[j] => i = j
      BY <3>2
    <3>5. \A k \in Loading : \E i \in 1 .. n : f[i] = k
      BY <3>1
    <3> HIDE DEF f
    <3> QED
      BY <3>3, <3>4, <3>5 DEF Bijection, Injection, Surjection, IsInjective
  <2>5. ExistsBijection(1 .. n, Loading)
    BY <2>4 DEF ExistsBijection
  <2> QED
    BY <2>2, <2>3, <2>5, FS_Bijection
<1>3. Range(calls) \subseteq [of : Ids, reload : BOOLEAN]
  <2>1. calls \in Seq(CallRecords)
    BY <1>1 DEF LoaderTyped
  <2>2. \A i \in DOMAIN calls : calls[i] \in CallRecords
    BY <2>1
  <2> QED
    BY <2>2 DEF CallRecords, Range
<1>4. environ \subseteq Variables /\ env \subseteq Variables /\ cuts \in Nat
  BY <1>1 DEF Cut
<1>5. \A i \in DOMAIN stack : /\ stack[i].id \in Known
                             /\ stack[i].at \in 1 .. Len(Body[stack[i].id]) + 1
  BY <1>1 DEF Stacked
<1>6. LoaderTypeOK
  BY <1>1, <1>2, <1>3, <1>4, <1>5 DEF LoaderTypeOK, LoaderTyped, Fetched
<1> QED
  BY <1>1, <1>6 DEF EngineInv, EngineTypeOK

\* The types of the program: no frame of the loader's stack runs past the end of its
\* module, no module is being loaded twice at a time, whoever requires whom, and a
\* factory comes from a library that is good.
THEOREM EngineTypeCorrect == EngineSpec => []EngineTypeOK
<1>1. EngineInv => EngineTypeOK
  BY EngineTyped
<1> QED
  BY <1>1, EngineInvariance, PTL

\* RunMain: with any number of links, of which a later one is absolute, any working
\* directory and any argv[0], NARWHAL_ENGINE_HOME is two directories up from the
\* program's real file, unless the environment says otherwise.
THEOREM HomesBesideProgramHolds == EngineSpec => []HomesBesideProgram
<1>1. EngineInv => HomesBesideProgram
  BY DEF EngineInv, LauncherInv
<1> QED
  BY <1>1, EngineInvariance, PTL

LEMMA InvLoadedWhole == EngineInv => LoadedWhole
<1> SUFFICES ASSUME EngineInv, Undisturbed
             PROVE  /\ missed = {}
                    /\ stack = <<>> /\ outcome = "ok" =>
                         \A m \in Known \cap DOMAIN Promised : exports[m] = Promised[m]
  BY DEF LoadedWhole
<1>1. LoaderInv /\ missed = {}
  BY DEF EngineInv, LoaderInv, Whole
<1>2. ASSUME stack = <<>>, outcome = "ok", NEW m \in Known \cap DOMAIN Promised
      PROVE  exports[m] = Promised[m]
  <2>1. Promised[m] \subseteq exports[m]
    BY <1>1, <1>2, EachHolds DEF Sound
  <2>2. exports[m] \subseteq Promised[m]
    BY <1>1 DEF LoaderInv, NoMore
  <2> QED
    BY <2>1, <2>2
<1> QED
  BY <1>1, <1>2

\* NW_requireNative and the modules: in whatever order and however often a program
\* requires the modules, which require each other in circles, each of them finds the
\* names that it takes from the others while it is loaded, and has the names that it
\* promises when it is.
THEOREM LoadedWholeHolds == EngineSpec => []LoadedWhole
<1>1. EngineInv => LoadedWhole
  BY InvLoadedWhole
<1> QED
  BY <1>1, EngineInvariance, PTL

\* An exception comes out of require() only for a library that could not be loaded and
\* that no factory which goes on after a require() stands above; the process is lost only
\* where one of these stands above it, or in a second pass of the system module through
\* the environment; or a disturbance has left a module without some of its names.
THEOREM ThrowsOnlyForMissingHolds == EngineSpec => []ThrowsOnlyForMissing
<1>1. EngineInv => ThrowsOnlyForMissing
  BY DEF EngineInv, LoaderInv
<1> QED
  BY <1>1, EngineInvariance, PTL

LEMMA InvEnvironmentWhole == EngineInv => EnvironmentWhole
<1> SUFFICES ASSUME EngineInv PROVE EnvironmentWhole
  OBVIOUS
<1>1. Cut
  BY DEF EngineInv, LoaderInv
<1>2. environ \cup env = Variables /\ (outcome # "crashed" /\ Variables # {} => cuts <= 1)
  BY <1>1 DEF Cut
<1>3. "system" \in Known /\ stack = <<>> /\ outcome # "crashed"
        => env = Variables /\ "env" \in exports["system"]
  BY <1>1 DEF Cut
<1> QED
  BY <1>2, <1>3 DEF EnvironmentWhole

\* The system module's cutting of the strings of environ: every variable is in environ
\* or in env, whenever loading is interrupted by an exception, and however often the
\* module is reloaded.
THEOREM EnvironmentWholeHolds == EngineSpec => []EnvironmentWhole
<1>1. EngineInv => EnvironmentWhole
  BY InvEnvironmentWhole
<1> QED
  BY <1>1, EngineInvariance, PTL
=============================================================================
