---------------------------- MODULE PopenProofs ----------------------------
(***************************************************************************)
(* The descriptors of a program: first without os.popen (Streams), then    *)
(* what os.popen does to them and hands to its children (Popen).  For any  *)
(* number of files, streams, calls and descriptors, and any modes.         *)
(***************************************************************************)
EXTENDS Popen, DataFacts, FiniteSetTheorems


-----------------------------------------------------------------------------
(* Descriptor tables.                                                      *)

\* open() hands out a number that was not in use, when there is one.
LEMMA InstallFacts ==
  ASSUME NEW t, NEW d, Unused(t) # {}
  PROVE  /\ Install(t, d).fd \in Fd
         /\ Install(t, d).fd \notin DOMAIN t
         /\ Install(t, d).tab = Bind(t, Install(t, d).fd, d)
<1>1. Unused(t) \subseteq Nat
  BY MaxFdAssumption DEF Unused, Fd
<1>2. Min(Unused(t)) \in Unused(t)
  BY <1>1, MinOfNats, Zenon
<1>3. Install(t, d) = [tab |-> Bind(t, Min(Unused(t)), d), fd |-> Min(Unused(t))]
  BY DEF Install
<1> QED
  BY <1>2, <1>3 DEF Unused

-----------------------------------------------------------------------------
(* The initial state.                                                      *)

LEMMA InitHolds == Init => IInv
<1> SUFFICES ASSUME Init PROVE IInv
  OBVIOUS
<1>1. /\ DOMAIN fds = 0 .. 2 /\ 0 .. 2 \subseteq Fd
      /\ \A f \in 0 .. 2 : fds[f] = StdDescription(f)
  BY StdFdAssumption, MaxFdAssumption DEF Init, Fd
<1>2. /\ DOMAIN io = StdIOs
      /\ io[Stdin]  = [input |-> 0,  output |-> -1]
      /\ io[Stdout] = [input |-> -1, output |-> 1]
      /\ io[Stderr] = [input |-> -1, output |-> 2]
  BY StdIOsAssumption DEF Init, StdIOs, StdIO, IO_constructor
<1>3. /\ DOMAIN given = StdIOs
      /\ given[Stdin].desc  = StdDescription(0)
      /\ given[Stdout].desc = StdDescription(1)
      /\ given[Stderr].desc = StdDescription(2)
      /\ \A o \in StdIOs : given[o] = [desc |-> given[o].desc, mode |-> NoMode]
  BY StdIOsAssumption DEF Init, StdIOs
<1>4. /\ DOMAIN stream = StdStreams
      /\ stream[SysIn]  = [kind |-> "input",  raw |-> Stdin,  input |-> 0]
      /\ stream[SysOut] = [kind |-> "output", raw |-> Stdout, input |-> -1]
      /\ stream[SysErr] = [kind |-> "output", raw |-> Stderr, input |-> -1]
  BY StdStreamsAssumption DEF Init, StdStreams, StdStream
<1>5. \A f \in 0 .. 2 : StdDescription(f) \in Descriptions
  BY DEF StdDescription, Descriptions
<1>6. Held(Stdin) = {0} /\ Held(Stdout) = {1} /\ Held(Stderr) = {2}
  BY <1>2 DEF Held
<1>7. TypeOK
  <2>1. NoMode \in AllModes
    BY DEF NoMode, AllModes
  <2>2. descs \in Nat
    BY DEF Init
  <2>3. \A o \in StdIOs : io[o] \in [input : Fd \cup {-1}, output : Fd \cup {-1}]
    BY <1>1, <1>2 DEF StdIOs
  <2>4. \A o \in StdIOs : given[o] \in [desc : Descriptions, mode : AllModes]
    BY <1>3, <1>5, <2>1 DEF StdIOs
  <2>5. \A s \in StdStreams :
          stream[s] \in [kind : {"input", "output"}, raw : StdIOs, input : Fd \cup {-1}]
    BY <1>1, <1>4 DEF StdStreams, StdIOs
  <2> QED
    BY <1>1, <1>2, <1>3, <1>4, <1>5, <2>2, <2>3, <2>4, <2>5 DEF TypeOK
<1>8. Ownership
  BY <1>1, <1>2, <1>3, <1>6 DEF Ownership, StdIOs
<1>9. Exclusive
  BY <1>2, <1>6 DEF Exclusive, StdIOs
<1>10. NoOrphans
  BY <1>1, <1>2, <1>6 DEF NoOrphans, Orphans, StdIOs
<1>11. ModeCoherent
  BY <1>2, StdIOsAssumption DEF ModeCoherent
<1>12. CacheCoherent
  BY <1>1, <1>2, <1>3, <1>4 DEF CacheCoherent, StdStreams, StdDescription
<1> QED
  BY <1>7, <1>8, <1>9, <1>10, <1>11, <1>12 DEF IInv, Coherent

-----------------------------------------------------------------------------
(* Opening a file: a number that no object holds goes to a new object.     *)

LEMMA OpenFacts ==
  ASSUME TypeOK, NEW o \in FileIOs, NEW m \in Modes, F_FileIO(o, m)
  PROVE  LET desc == [id |-> descs, access |-> Access(m)]
             f    == Install(fds, desc).fd
         IN  /\ f \in Fd /\ f \notin DOMAIN fds /\ f # -1 /\ o \notin DOMAIN io
             /\ desc \in Descriptions /\ m \in AllModes
             /\ DOMAIN fds' = DOMAIN fds \cup {f} /\ fds'[f] = desc
             /\ \A g \in DOMAIN fds : fds'[g] = fds[g]
             /\ DOMAIN io' = DOMAIN io \cup {o}
             /\ io'[o] = IF m.write \/ m.append
                         THEN [input |-> -1, output |-> f] ELSE [input |-> f, output |-> -1]
             /\ \A p \in DOMAIN io : io'[p] = io[p]
             /\ DOMAIN given' = DOMAIN io'
             /\ given'[o] = [desc |-> desc, mode |-> m]
             /\ \A p \in DOMAIN io : given'[p] = given[p]
             /\ descs' = descs + 1 /\ stream' = stream
<1> DEFINE desc == [id |-> descs, access |-> Access(m)]
           f    == Install(fds, desc).fd
<1>1. /\ f \in Fd /\ f \notin DOMAIN fds
      /\ fds' = Bind(fds, f, desc)
      /\ o \notin DOMAIN io
      /\ io' = Bind(io, o, IF m.write \/ m.append
                           THEN IO_constructor(-1, f) ELSE IO_constructor(f, -1))
      /\ given' = Bind(given, o, [desc |-> desc, mode |-> m])
      /\ descs' = descs + 1 /\ stream' = stream
  BY InstallFacts DEF F_FileIO
<1>2. desc \in Descriptions /\ m \in AllModes
  BY ModesAssumption DEF TypeOK, Descriptions, Access
<1> HIDE DEF f, desc
<1>3. f # -1
  BY <1>1, MaxFdAssumption DEF Fd
<1>4. /\ DOMAIN fds' = DOMAIN fds \cup {f} /\ fds'[f] = desc
      /\ \A g \in DOMAIN fds : fds'[g] = fds[g]
  BY <1>1 DEF Bind
<1>5. /\ DOMAIN io' = DOMAIN io \cup {o}
      /\ io'[o] = IF m.write \/ m.append
                  THEN [input |-> -1, output |-> f] ELSE [input |-> f, output |-> -1]
      /\ \A p \in DOMAIN io : io'[p] = io[p]
  BY <1>1 DEF Bind, IO_constructor
<1>6. /\ DOMAIN given' = DOMAIN io'
      /\ given'[o] = [desc |-> desc, mode |-> m]
      /\ \A p \in DOMAIN io : given'[p] = given[p]
  BY <1>1, <1>5 DEF Bind, TypeOK
<1> QED
  BY <1>1, <1>2, <1>3, <1>4, <1>5, <1>6 DEF f, desc

LEMMA OpenKeepsTypes ==
  ASSUME TypeOK, NEW o \in FileIOs, NEW m \in Modes, F_FileIO(o, m)
  PROVE  TypeOK'
<1> DEFINE desc == [id |-> descs, access |-> Access(m)]
           f    == Install(fds, desc).fd
<1>1. /\ f \in Fd /\ desc \in Descriptions /\ m \in AllModes
      /\ DOMAIN fds' = DOMAIN fds \cup {f} /\ fds'[f] = desc
      /\ \A g \in DOMAIN fds : fds'[g] = fds[g]
      /\ descs' = descs + 1 /\ stream' = stream
  BY OpenFacts
<1>2. /\ DOMAIN io' = DOMAIN io \cup {o}
      /\ io'[o] = IF m.write \/ m.append
                  THEN [input |-> -1, output |-> f] ELSE [input |-> f, output |-> -1]
      /\ \A p \in DOMAIN io : io'[p] = io[p]
      /\ DOMAIN given' = DOMAIN io'
      /\ given'[o] = [desc |-> desc, mode |-> m]
      /\ \A p \in DOMAIN io : given'[p] = given[p]
  BY OpenFacts
<1> HIDE DEF f, desc
<1>3. DOMAIN fds' \subseteq Fd /\ \A g \in DOMAIN fds' : fds'[g] \in Descriptions
  BY <1>1 DEF TypeOK
<1>4. descs' \in Nat
  BY <1>1 DEF TypeOK
<1>5. StdIOs \subseteq DOMAIN io' /\ DOMAIN io' \subseteq StdIOs \cup FileIOs
  BY <1>2 DEF TypeOK
<1>6. ASSUME NEW p \in DOMAIN io'
      PROVE  /\ io'[p] \in [input : Fd \cup {-1}, output : Fd \cup {-1}]
             /\ given'[p] \in [desc : Descriptions, mode : AllModes]
  <2>1. CASE p = o
    BY <1>1, <1>2, <2>1
  <2>2. CASE p \in DOMAIN io
    BY <1>2, <2>2 DEF TypeOK
  <2> QED
    BY <1>2, <2>1, <2>2
<1>7. /\ StdStreams \subseteq DOMAIN stream'
      /\ DOMAIN stream' \subseteq StdStreams \cup TextStreams
      /\ \A s \in DOMAIN stream' :
           stream'[s] \in [kind : {"input", "output"}, raw : DOMAIN io', input : Fd \cup {-1}]
  BY <1>1, <1>2 DEF TypeOK
<1> QED
  BY <1>2, <1>3, <1>4, <1>5, <1>6, <1>7 DEF TypeOK

LEMMA OpenKeeps ==
  ASSUME Coherent, NEW o \in FileIOs, NEW m \in Modes, F_FileIO(o, m)
  PROVE  /\ Coherent'
         /\ Orphans' = Orphans
<1> DEFINE desc == [id |-> descs, access |-> Access(m)]
           f    == Install(fds, desc).fd
<1> USE DEF Coherent
<1>1. /\ f \notin DOMAIN fds /\ f # -1 /\ f \in Fd /\ o \notin DOMAIN io
      /\ stream' = stream
  BY OpenFacts
<1>3. /\ DOMAIN fds' = DOMAIN fds \cup {f}
      /\ fds'[f] = desc
      /\ \A g \in DOMAIN fds : fds'[g] = fds[g]
  BY OpenFacts
<1>4. /\ DOMAIN io' = DOMAIN io \cup {o}
      /\ io'[o] = IF m.write \/ m.append
                  THEN [input |-> -1, output |-> f] ELSE [input |-> f, output |-> -1]
      /\ \A p \in DOMAIN io : io'[p] = io[p]
  BY OpenFacts
<1>5. /\ DOMAIN given' = DOMAIN io'
      /\ given'[o] = [desc |-> desc, mode |-> m]
      /\ \A p \in DOMAIN io : given'[p] = given[p]
  BY OpenFacts
<1> HIDE DEF f
<1>6. /\ Held(o)' = {f}
      /\ \A p \in DOMAIN io : Held(p)' = Held(p)
  BY <1>1, <1>4 DEF Held
<1>7. \A p \in DOMAIN io : f \notin Held(p)
  BY <1>1 DEF Ownership
<1>8. Ownership'
  <2> SUFFICES ASSUME NEW p \in DOMAIN io', NEW g \in Held(p)'
               PROVE  g \in DOMAIN fds' /\ fds'[g] = given'[p].desc
    BY DEF Ownership
  <2>1. CASE p = o
    BY <1>3, <1>5, <1>6, <2>1
  <2>2. CASE p \in DOMAIN io
    BY <1>3, <1>5, <1>6, <2>2 DEF Ownership
  <2> QED
    BY <1>4, <2>1, <2>2
<1>9. Exclusive'
  <2> SUFFICES ASSUME NEW p \in DOMAIN io', NEW q \in DOMAIN io', p # q
               PROVE  Held(p)' \cap Held(q)' = {}
    BY DEF Exclusive
  <2>2. CASE p \in DOMAIN io /\ q \in DOMAIN io
    BY <1>6, <2>2 DEF Exclusive
  <2>3. CASE p = o \/ q = o
    BY <1>4, <1>6, <1>7, <2>3
  <2> QED
    BY <1>4, <2>2, <2>3
<1>10. Orphans' = Orphans
  BY <1>1, <1>3, <1>4, <1>6 DEF Orphans
<1>11. ModeCoherent'
  <2> SUFFICES ASSUME NEW p \in FileIOs, p \in DOMAIN io', Held(p)' # {}
               PROVE  IF WrapperKind(given'[p].mode) = "output"
                      THEN io'[p].output \in Fd
                      ELSE io'[p].input \in Fd /\ given'[p].desc.access = "RDONLY"
    BY DEF ModeCoherent, IsOpen, WrapperKind
  <2>1. CASE p = o
    BY <1>1, <1>4, <1>5, <2>1 DEF WrapperKind, Access
  <2>2. CASE p \in DOMAIN io
    BY <1>4, <1>5, <1>6, <2>2 DEF ModeCoherent, IsOpen
  <2> QED
    BY <1>4, <2>1, <2>2
<1>12. CacheCoherent'
  <2> SUFFICES ASSUME NEW s \in DOMAIN stream, Held(stream[s].raw)' # {}
               PROVE  IF stream[s].kind = "input"
                      THEN /\ io'[stream[s].raw].input \in Fd
                           /\ stream[s].input = io'[stream[s].raw].input
                           /\ given'[stream[s].raw].desc.access = "RDONLY"
                      ELSE io'[stream[s].raw].output \in Fd
    BY <1>1 DEF CacheCoherent, IsOpen
  <2>1. stream[s].raw \in DOMAIN io
    BY DEF TypeOK
  <2>2. Held(stream[s].raw) # {}
    BY <1>1, <1>4, <2>1 DEF Held
  <2>3. IF stream[s].kind = "input"
        THEN /\ io[stream[s].raw].input \in Fd
             /\ stream[s].input = io[stream[s].raw].input
             /\ given[stream[s].raw].desc.access = "RDONLY"
        ELSE io[stream[s].raw].output \in Fd
    BY <2>2 DEF CacheCoherent, IsOpen
  <2> QED
    BY <1>4, <1>5, <2>1, <2>3
<1> QED
  BY OpenKeepsTypes, <1>8, <1>9, <1>10, <1>11, <1>12

-----------------------------------------------------------------------------
(* Wrapping an object: a new stream copies the descriptor that its mode    *)
(* gave the object.                                                        *)

LEMMA WrapFacts ==
  ASSUME TypeOK, NEW s \in TextStreams, NEW o \in FileIOs, TextIOWrapper(s, o)
  PROVE  LET kind == WrapperKind(given[o].mode)
             new  == [kind |-> kind, raw |-> o,
                      input |-> IF kind = "input" THEN io[o].input ELSE -1]
         IN  /\ o \in DOMAIN io
             /\ DOMAIN stream' = DOMAIN stream \cup {s}
             /\ stream'[s] = new
             /\ \A r \in DOMAIN stream : r # s => stream'[r] = stream[r]
             /\ fds' = fds /\ descs' = descs /\ io' = io /\ given' = given
             /\ TypeOK'
<1> DEFINE kind == WrapperKind(given[o].mode)
           new  == [kind |-> kind, raw |-> o,
                    input |-> IF kind = "input" THEN io[o].input ELSE -1]
<1>1. /\ o \in DOMAIN io
      /\ stream' = Bind(stream, s, new)
      /\ fds' = fds /\ descs' = descs /\ io' = io /\ given' = given
  BY DEF TextIOWrapper, CachedInput
<1>2. /\ DOMAIN stream' = DOMAIN stream \cup {s}
      /\ stream'[s] = new
      /\ \A r \in DOMAIN stream : r # s => stream'[r] = stream[r]
  BY <1>1 DEF Bind
<1>3. new \in [kind : {"input", "output"}, raw : DOMAIN io, input : Fd \cup {-1}]
  BY <1>1 DEF TypeOK, WrapperKind
<1>4. TypeOK'
  BY <1>1, <1>2, <1>3 DEF TypeOK
<1> QED
  BY <1>1, <1>2, <1>4

LEMMA WrapKeeps ==
  ASSUME Coherent, NEW s \in TextStreams, NEW o \in FileIOs, TextIOWrapper(s, o)
  PROVE  /\ Coherent'
         /\ Orphans' = Orphans
<1> DEFINE kind == WrapperKind(given[o].mode)
           new  == [kind |-> kind, raw |-> o,
                    input |-> IF kind = "input" THEN io[o].input ELSE -1]
<1> USE DEF Coherent
<1>1. /\ o \in DOMAIN io
      /\ fds' = fds /\ descs' = descs /\ io' = io /\ given' = given
      /\ TypeOK'
  BY WrapFacts
<1>2. /\ DOMAIN stream' = DOMAIN stream \cup {s}
      /\ stream'[s] = new
      /\ \A r \in DOMAIN stream : r # s => stream'[r] = stream[r]
  BY WrapFacts
<1>5. Ownership' /\ Exclusive' /\ Orphans' = Orphans /\ ModeCoherent'
  <2>1. Ownership'
    BY <1>1 DEF Ownership, Held
  <2>2. Exclusive'
    BY <1>1 DEF Exclusive, Held
  <2>3. Orphans' = Orphans
    BY <1>1 DEF Orphans, Held
  <2>4. ModeCoherent'
    BY <1>1 DEF ModeCoherent, IsOpen, Held, WrapperKind
  <2> QED
    BY <2>1, <2>2, <2>3, <2>4
<1>6. CacheCoherent'
  <2> SUFFICES ASSUME NEW r \in DOMAIN stream',
                      NEW raw, raw = stream'[r].raw, Held(raw) # {}
               PROVE  IF stream'[r].kind = "input"
                      THEN /\ io[raw].input \in Fd
                           /\ stream'[r].input = io[raw].input
                           /\ given[raw].desc.access = "RDONLY"
                      ELSE io[raw].output \in Fd
    BY <1>1 DEF CacheCoherent, IsOpen, Held
  <2>1. CASE r = s
    <3>1. raw = o /\ IsOpen(o)
      BY <1>2, <2>1 DEF IsOpen
    <3>2. IF kind = "output" THEN io[o].output \in Fd
          ELSE io[o].input \in Fd /\ given[o].desc.access = "RDONLY"
      BY <1>1, <3>1 DEF ModeCoherent
    <3> QED
      BY <1>2, <2>1, <3>1, <3>2 DEF WrapperKind
  <2>2. CASE r \in DOMAIN stream /\ r # s
    BY <1>2, <2>2 DEF CacheCoherent, IsOpen
  <2> QED
    BY <1>2, <2>1, <2>2
<1> QED
  BY <1>1, <1>5, <1>6

-----------------------------------------------------------------------------
(* Closing: what goes is what the object holds, and nobody else holds it.  *)

LEMMA CloseFacts ==
  ASSUME NEW o \in DOMAIN io, IO_close(o)
  PROVE  /\ DOMAIN fds' = DOMAIN fds \ Held(o)
         /\ \A g \in DOMAIN fds \ Held(o) : fds'[g] = fds[g]
         /\ DOMAIN io' = DOMAIN io
         /\ io'[o] = [input |-> -1, output |-> -1]
         /\ \A p \in DOMAIN io : p # o => io'[p] = io[p]
         /\ Held(o)' = {}
         /\ \A p \in DOMAIN io : p # o => Held(p)' = Held(p)
         /\ descs' = descs /\ given' = given /\ stream' = stream
<1>1. /\ fds' = CloseAll(fds, Held(o))
      /\ io' = [io EXCEPT ![o] = [input |-> -1, output |-> -1]]
      /\ descs' = descs /\ given' = given /\ stream' = stream
  BY DEF IO_close, IO_constructor
<1>2. /\ DOMAIN fds' = DOMAIN fds \ Held(o)
      /\ \A g \in DOMAIN fds \ Held(o) : fds'[g] = fds[g]
  BY <1>1 DEF CloseAll
<1>3. /\ DOMAIN io' = DOMAIN io
      /\ io'[o] = [input |-> -1, output |-> -1]
      /\ \A p \in DOMAIN io : p # o => io'[p] = io[p]
  BY <1>1
<1>4. /\ Held(o)' = {}
      /\ \A p \in DOMAIN io : p # o => Held(p)' = Held(p)
  BY <1>3 DEF Held
<1> QED
  BY <1>1, <1>2, <1>3, <1>4

LEMMA CloseKeepsTypes ==
  ASSUME TypeOK, NEW o \in DOMAIN io, IO_close(o)
  PROVE  TypeOK'
<1>1. /\ DOMAIN fds' = DOMAIN fds \ Held(o)
      /\ \A g \in DOMAIN fds \ Held(o) : fds'[g] = fds[g]
      /\ descs' = descs /\ given' = given /\ stream' = stream
  BY CloseFacts
<1>2. /\ DOMAIN io' = DOMAIN io
      /\ io'[o] = [input |-> -1, output |-> -1]
      /\ \A p \in DOMAIN io : p # o => io'[p] = io[p]
  BY CloseFacts
<1> QED
  BY <1>1, <1>2 DEF TypeOK

LEMMA CloseKeeps ==
  ASSUME Coherent, NEW o \in DOMAIN io, IO_close(o)
  PROVE  /\ Coherent'
         /\ Orphans' = Orphans
<1> USE DEF Coherent
<1>1. /\ DOMAIN fds' = DOMAIN fds \ Held(o)
      /\ \A g \in DOMAIN fds \ Held(o) : fds'[g] = fds[g]
      /\ DOMAIN io' = DOMAIN io
      /\ io'[o] = [input |-> -1, output |-> -1]
      /\ \A p \in DOMAIN io : p # o => io'[p] = io[p]
      /\ Held(o)' = {}
      /\ \A p \in DOMAIN io : p # o => Held(p)' = Held(p)
      /\ descs' = descs /\ given' = given /\ stream' = stream
  BY CloseFacts
<1>2. TypeOK'
  BY CloseKeepsTypes
<1>3. Ownership'
  <2> SUFFICES ASSUME NEW p \in DOMAIN io, NEW g \in Held(p)'
               PROVE  g \in DOMAIN fds' /\ fds'[g] = given[p].desc
    BY <1>1 DEF Ownership
  <2>1. p # o /\ g \in Held(p)
    BY <1>1
  <2>2. g \notin Held(o)
    BY <2>1 DEF Exclusive
  <2> QED
    BY <1>1, <2>1, <2>2 DEF Ownership
<1>4. Exclusive'
  <2> SUFFICES ASSUME NEW p \in DOMAIN io, NEW q \in DOMAIN io, p # q
               PROVE  Held(p)' \cap Held(q)' = {}
    BY <1>1 DEF Exclusive
  <2> QED
    BY <1>1 DEF Exclusive
<1>5. Orphans' = Orphans
  BY <1>1 DEF Orphans
<1>6. ModeCoherent'
  <2> SUFFICES ASSUME NEW p \in FileIOs, p \in DOMAIN io, Held(p)' # {}
               PROVE  IF WrapperKind(given[p].mode) = "output"
                      THEN io'[p].output \in Fd
                      ELSE io'[p].input \in Fd /\ given[p].desc.access = "RDONLY"
    BY <1>1 DEF ModeCoherent, IsOpen, WrapperKind
  <2> QED
    BY <1>1 DEF ModeCoherent, IsOpen
<1>7. CacheCoherent'
  <2> SUFFICES ASSUME NEW s \in DOMAIN stream, NEW raw, raw = stream[s].raw, Held(raw)' # {}
               PROVE  IF stream[s].kind = "input"
                      THEN /\ io'[raw].input \in Fd
                           /\ stream[s].input = io'[raw].input
                           /\ given[raw].desc.access = "RDONLY"
                      ELSE io'[raw].output \in Fd
    BY <1>1 DEF CacheCoherent, IsOpen, Held
  <2>1. raw \in DOMAIN io
    BY DEF TypeOK
  <2>2. io'[raw] = io[raw] /\ Held(raw) # {}
    BY <1>1, <2>1
  <2>3. IF stream[s].kind = "input"
        THEN /\ io[raw].input \in Fd
             /\ stream[s].input = io[raw].input
             /\ given[raw].desc.access = "RDONLY"
        ELSE io[raw].output \in Fd
    BY <2>2 DEF CacheCoherent, IsOpen
  <2> QED
    BY <2>2, <2>3
<1> QED
  BY <1>2, <1>3, <1>4, <1>5, <1>6, <1>7

-----------------------------------------------------------------------------
(* The invariant, and what follows from it.                                *)

\* A step of the program, alone or with other descriptors in its table.
LEMMA StepKeeps == Coherent /\ [Next]_vars => Coherent' /\ Orphans' = Orphans
<1> SUFFICES ASSUME Coherent, [Next]_vars PROVE Coherent' /\ Orphans' = Orphans
  OBVIOUS
<1> USE DEF Coherent
<1>1. CASE \E o \in FileIOs, m \in Modes : F_FileIO(o, m)
  BY <1>1, OpenKeeps
<1>2. CASE \E s \in TextStreams, o \in FileIOs : TextIOWrapper(s, o)
  BY <1>2, WrapKeeps
<1>3. CASE \E o \in DOMAIN io : IO_close(o)
  BY <1>3, CloseKeeps
<1>4. CASE \E s \in DOMAIN stream : TextStream_close(s)
  BY <1>4, CloseKeeps DEF TextStream_close, TypeOK
<1>5. CASE UNCHANGED vars
  <2>1. TypeOK'
    BY <1>5 DEF vars, TypeOK
  <2>2. Ownership' /\ Exclusive' /\ Orphans' = Orphans
    BY <1>5 DEF vars, Ownership, Exclusive, Orphans, Held
  <2>3. ModeCoherent'
    BY <1>5 DEF vars, ModeCoherent, IsOpen, Held, WrapperKind
  <2>4. CacheCoherent'
    BY <1>5 DEF vars, CacheCoherent, IsOpen, Held
  <2> QED
    BY <2>1, <2>2, <2>3, <2>4
<1> QED
  BY <1>1, <1>2, <1>3, <1>4, <1>5 DEF Next

\* It keeps its types in any state at all, whatever has become of its descriptors.
LEMMA StepKeepsTypes == TypeOK /\ [Next]_vars => TypeOK'
<1> SUFFICES ASSUME TypeOK, [Next]_vars PROVE TypeOK'
  OBVIOUS
<1>1. CASE \E o \in FileIOs, m \in Modes : F_FileIO(o, m)
  BY <1>1, OpenKeepsTypes
<1>2. CASE \E s \in TextStreams, o \in FileIOs : TextIOWrapper(s, o)
  BY <1>2, WrapFacts
<1>3. CASE \E o \in DOMAIN io : IO_close(o)
  BY <1>3, CloseKeepsTypes
<1>4. CASE \E s \in DOMAIN stream : TextStream_close(s)
  <2>1. \A s \in DOMAIN stream : stream[s].raw \in DOMAIN io
    BY DEF TypeOK
  <2> QED
    BY <1>4, <2>1, CloseKeepsTypes DEF TextStream_close
<1>5. CASE UNCHANGED vars
  BY <1>5 DEF vars, TypeOK
<1> QED
  BY <1>1, <1>2, <1>3, <1>4, <1>5 DEF Next

LEMMA StepHolds == IInv /\ [Next]_vars => IInv'
BY StepKeeps DEF IInv, NoOrphans

LEMMA Invariance == Spec => []IInv
BY InitHolds, StepHolds, PTL DEF Spec

\* The tables and the objects always hold what their fields are for: opening,
\* wrapping and closing in any order never leave a descriptor outside the
\* table or a stream without its raw object (io-engine.cc, file-engine.cc).
THEOREM TypeCorrect == Spec => []TypeOK
<1>1. IInv => TypeOK
  BY DEF IInv, Coherent
<1> QED
  BY <1>1, Invariance, PTL

\* What IO_readInto and IO_writeInto find in IOPrivate is a descriptor that is
\* open, on the very file that F_FileIO opened for this object, and no other
\* object holds it (IO_close, io-engine.cc:113, resets what it closes).
THEOREM OwnershipHolds == Spec => [](Ownership /\ Exclusive)
<1>1. IInv => Ownership /\ Exclusive
  BY DEF IInv, Coherent
<1> QED
  BY <1>1, Invariance, PTL

\* No descriptor is open that no object can close.
THEOREM NoOrphansHolds == Spec => []NoOrphans
<1>1. IInv => NoOrphans
  BY DEF IInv, Coherent
<1> QED
  BY <1>1, Invariance, PTL

\* The copy that TextInputStream_constructor (io-engine.cc:164) takes of a descriptor is
\* good for as long as the raw object is open, and F_FileIO (C++) and TextIOWrapper
\* (JavaScript) read a mode the same way.
THEOREM StreamCoherentHolds == Spec => []StreamCoherent
<1>1. IInv => StreamCoherent
  <2> SUFFICES ASSUME IInv, NEW s \in DOMAIN stream, NEW raw, raw = stream[s].raw, IsOpen(raw)
               PROVE  IF stream[s].kind = "input"
                      THEN /\ stream[s].input \in DOMAIN fds
                           /\ fds[stream[s].input] = given[raw].desc
                           /\ fds[stream[s].input].access = "RDONLY"
                      ELSE io[raw].output \in DOMAIN fds
    BY DEF StreamCoherent
  <2>1. raw \in DOMAIN io
    BY DEF IInv, Coherent, TypeOK
  <2>2. IF stream[s].kind = "input"
        THEN /\ io[raw].input \in Fd /\ stream[s].input = io[raw].input
             /\ given[raw].desc.access = "RDONLY"
        ELSE io[raw].output \in Fd
    BY DEF IInv, Coherent, CacheCoherent
  <2>3. \A f \in Held(raw) : f \in DOMAIN fds /\ fds[f] = given[raw].desc
    BY <2>1 DEF IInv, Coherent, Ownership
  <2>4. \A f \in {io[raw].input, io[raw].output} : f \in Fd => f \in Held(raw)
    BY MaxFdAssumption DEF Held, Fd
  <2> QED
    BY <2>2, <2>3, <2>4
<1> QED
  BY <1>1, Invariance, PTL

\* A step takes a descriptor out of the table only as its owner closes.
THEOREM OnlyOwnerReleasesHolds == Spec => OnlyOwnerReleases
<1> DEFINE A == \A f \in DOMAIN fds \ DOMAIN fds' :
                  \E o \in DOMAIN io : f \in Held(o) /\ Held(o)' = {}
<1>1. IInv /\ [Next]_vars => [A]_vars
  <2> SUFFICES ASSUME IInv, Next PROVE A
    OBVIOUS
  <2>1. ASSUME NEW o \in DOMAIN io, IO_close(o) PROVE A
    <3>1. DOMAIN fds' = DOMAIN fds \ Held(o) /\ Held(o)' = {}
      BY <2>1, CloseFacts
    <3> QED
      BY <3>1
  <2>2. CASE \E o \in FileIOs, m \in Modes : F_FileIO(o, m)
    <3>1. PICK o \in FileIOs, m \in Modes : F_FileIO(o, m)
      BY <2>2
    <3>2. DOMAIN fds \subseteq DOMAIN fds'
      BY <3>1 DEF F_FileIO, Install, Bind
    <3> QED
      BY <3>2
  <2>3. CASE \E s \in TextStreams, o \in FileIOs : TextIOWrapper(s, o)
    BY <2>3 DEF TextIOWrapper
  <2>4. CASE \E o \in DOMAIN io : IO_close(o)
    BY <2>1, <2>4
  <2>5. CASE \E s \in DOMAIN stream : TextStream_close(s)
    BY <2>1, <2>5 DEF TextStream_close, IInv, Coherent, TypeOK
  <2> QED
    BY <2>2, <2>3, <2>4, <2>5 DEF Next
<1>2. Spec => [][A]_vars
  BY <1>1, Invariance, PTL DEF Spec
<1> QED
  BY <1>2 DEF OnlyOwnerReleases


-----------------------------------------------------------------------------
(* Any call: a table stays one of descriptors, whatever the numbers are    *)
(* that a failed dup() or pipe() left, and denotes nothing that was not in *)
(* it before or is an end of a new pipe.                                   *)

\* t is a table of descriptions in D.
TableOf(t, D) == DOMAIN t \subseteq Fd /\ \A f \in DOMAIN t : t[f] \in D

LEMMA BindIsTable ==
  ASSUME NEW D, NEW t, TableOf(t, D), NEW f \in Fd, NEW d \in D
  PROVE  TableOf(Bind(t, f, d), D)
BY DEF TableOf, Bind

LEMMA CloseIsTable ==
  ASSUME NEW D, NEW t, TableOf(t, D), NEW S
  PROVE  TableOf(CloseAll(t, S), D)
BY DEF TableOf, CloseAll

LEMMA InstallIsTable ==
  ASSUME NEW D, NEW t, TableOf(t, D), NEW d \in D
  PROVE  TableOf(Install(t, d).tab, D)
<1>1. CASE Unused(t) = {}
  BY <1>1 DEF Install
<1>2. CASE Unused(t) # {}
  BY <1>2, InstallFacts, BindIsTable
<1> QED
  BY <1>1, <1>2

LEMMA DupIsTable ==
  ASSUME NEW D, NEW t, TableOf(t, D), NEW f
  PROVE  TableOf(Dup(t, f).tab, D)
<1>1. CASE f \in DOMAIN t
  <2>1. t[f] \in D
    BY <1>1 DEF TableOf
  <2> QED
    BY <1>1, <2>1, InstallIsTable DEF Dup
<1>2. CASE f \notin DOMAIN t
  BY <1>2 DEF Dup
<1> QED
  BY <1>1, <1>2

LEMMA Dup2IsTable ==
  ASSUME NEW D, NEW t, TableOf(t, D), NEW f, NEW g \in Fd
  PROVE  TableOf(Dup2(t, f, g), D)
<1>1. CASE f \in DOMAIN t
  <2>1. t[f] \in D
    BY <1>1 DEF TableOf
  <2> QED
    BY <1>1, <2>1, BindIsTable DEF Dup2
<1>2. CASE f \notin DOMAIN t
  BY <1>2 DEF Dup2
<1> QED
  BY <1>1, <1>2

LEMMA PipeIsTable ==
  ASSUME NEW D, NEW t, TableOf(t, D), NEW r \in D, NEW w \in D, NEW g
  PROVE  TableOf(Pipe(t, r, w, g).tab, D)
<1> DEFINE rd == Install(t, r)
           wr == Install(rd.tab, w)
<1>1. TableOf(rd.tab, D)
  BY InstallIsTable
<1> HIDE DEF rd
<1>2. TableOf(wr.tab, D)
  BY <1>1, InstallIsTable
<1> HIDE DEF wr
<1>3. Pipe(t, r, w, g).tab = t \/ Pipe(t, r, w, g).tab = wr.tab
  BY DEF Pipe, rd, wr
<1> QED
  BY <1>2, <1>3

LEMMA ReplaceIsTable ==
  ASSUME NEW D, NEW t, TableOf(t, D), NEW src
  PROVE  TableOf(ReplaceStd(t, src), D)
<1>1. 0 \in Fd /\ 1 \in Fd /\ 2 \in Fd
  BY StdFdAssumption, MaxFdAssumption DEF Fd
<1> DEFINE a == CloseAll(t, Std)  b == Dup2(a, src[1], 0)  c == Dup2(b, src[2], 1)
<1>2. TableOf(a, D)
  BY CloseIsTable
<1> HIDE DEF a
<1>3. TableOf(b, D)
  BY <1>1, <1>2, Dup2IsTable
<1> HIDE DEF b
<1>4. TableOf(c, D)
  BY <1>1, <1>3, Dup2IsTable
<1> HIDE DEF c
<1>5. TableOf(Dup2(c, src[3], 2), D)
  BY <1>1, <1>4, Dup2IsTable
<1> QED
  BY <1>5 DEF ReplaceStd, a, b, c

\* The ends of the pipes that a call makes.
NewEnds == {PipeEnd(n, a) : n \in 0 .. 5, a \in {"RDONLY", "WRONLY"}}

LEMMA RedirectedIsTable ==
  ASSUME NEW D, TableOf(fds, D), NewEnds \subseteq D, NEW g
  PROVE  TableOf(Redirected(g).tab, D)
<1>1. /\ PipeEnd(0, "RDONLY") \in D /\ PipeEnd(1, "WRONLY") \in D
      /\ PipeEnd(2, "RDONLY") \in D /\ PipeEnd(3, "WRONLY") \in D
      /\ PipeEnd(4, "RDONLY") \in D /\ PipeEnd(5, "WRONLY") \in D
  BY DEF NewEnds
<1> DEFINE a == Dup(fds, 0)  b == Dup(a.tab, 1)  c == Dup(b.tab, 2)
           i == Pipe(c.tab, PipeEnd(0, "RDONLY"), PipeEnd(1, "WRONLY"), g[1])
           o == Pipe(i.tab, PipeEnd(2, "RDONLY"), PipeEnd(3, "WRONLY"), g[2])
           e == Pipe(o.tab, PipeEnd(4, "RDONLY"), PipeEnd(5, "WRONLY"), g[3])
<1>2. TableOf(a.tab, D)
  BY DupIsTable
<1> HIDE DEF a
<1>3. TableOf(b.tab, D)
  BY <1>2, DupIsTable
<1> HIDE DEF b
<1>4. TableOf(c.tab, D)
  BY <1>3, DupIsTable
<1> HIDE DEF c
<1>5. TableOf(i.tab, D)
  BY <1>1, <1>4, PipeIsTable
<1> HIDE DEF i
<1>6. TableOf(o.tab, D)
  BY <1>1, <1>5, PipeIsTable
<1> HIDE DEF o
<1>7. TableOf(e.tab, D)
  BY <1>1, <1>6, PipeIsTable
<1> HIDE DEF e
<1>8. MakePipes(SaveStd(fds).tab, g) = [tab |-> e.tab, in |-> i, out |-> o, err |-> e]
  BY DEF MakePipes, SaveStd, a, b, c, i, o, e
<1> DEFINE p == MakePipes(SaveStd(fds).tab, g)
<1>9. p.tab = e.tab
  BY <1>8
<1> HIDE DEF p
<1>10. TableOf(ReplaceStd(p.tab, Redirects(p)), D)
  BY <1>7, <1>9, ReplaceIsTable
<1>11. Redirected(g).tab = ReplaceStd(p.tab, Redirects(p))
  BY DEF Redirected, p
<1> QED
  BY <1>10, <1>11

\* What a call makes of the table, and what a child gets.
LEMMA CallIsTable ==
  ASSUME NEW D, TableOf(fds, D), NewEnds \subseteq D, NEW g, NEW forked \in BOOLEAN,
         OS_popenImpl(g, forked)
  PROVE  /\ TableOf(fds', D)
         /\ \E tab : /\ TableOf(tab, D)
                     /\ tab = [f \in DOMAIN tab |-> tab[f]]
                     /\ children' = IF forked
                                    THEN Append(children, [tab |-> tab, first |-> descs,
                                                           whole |-> Prepared, runs |-> TRUE])
                                    ELSE children
<1> DEFINE r == Redirected(g)
           tab == CloseAll(r.tab, ChildCloses(r.pipes))
<1>1. TableOf(r.tab, D)
  BY RedirectedIsTable
<1>2. /\ fds' = CloseAll(ReplaceStd(r.tab, Restores(r.saved)), ParentCloses(r.pipes))
      /\ children' = IF forked
                     THEN Append(children, [tab |-> tab, first |-> descs,
                                            whole |-> Prepared, runs |-> TRUE])
                     ELSE children
  BY DEF OS_popenImpl
<1> HIDE DEF r
<1>3. TableOf(fds', D)
  BY <1>1, <1>2, ReplaceIsTable, CloseIsTable
<1>4. TableOf(tab, D)
  BY <1>1, CloseIsTable
<1>5. tab = [f \in DOMAIN tab |-> tab[f]]
  BY DEF CloseAll
<1> HIDE DEF tab
<1> QED
  BY <1>2, <1>3, <1>4, <1>5

-----------------------------------------------------------------------------
(* Types.                                                                  *)

Tables == UNION {[S -> Descriptions] : S \in SUBSET Fd}
Child  == [tab : Tables, first : Nat, whole : BOOLEAN, runs : BOOLEAN]

Types ==
  /\ TypeOK
  /\ popens \in 0 .. MaxPopens
  /\ degraded \in BOOLEAN /\ running \in BOOLEAN
  /\ children \in Seq(Child)

LEMMA NewEndsFacts ==
  ASSUME TypeOK
  PROVE  NewEnds \subseteq Descriptions /\ TableOf(fds, Descriptions)
BY DEF TypeOK, NewEnds, PipeEnd, Descriptions, TableOf

\* A call without a failure of malloc() changes these and nothing else of Streams.
LEMMA CallKeepsTypes ==
  ASSUME Types, NEW g, NEW forked \in BOOLEAN, OS_popenImpl(g, forked)
  PROVE  Types'
<1>1. /\ popens < MaxPopens /\ popens' = popens + 1 /\ descs' = descs + 6
      /\ degraded' \in BOOLEAN /\ running' = running
      /\ io' = io /\ given' = given /\ stream' = stream
  BY DEF OS_popenImpl, Types
<1>2. PICK tab : /\ TableOf(tab, Descriptions)
                 /\ tab = [f \in DOMAIN tab |-> tab[f]]
                 /\ children' = IF forked
                                THEN Append(children, [tab |-> tab, first |-> descs,
                                                       whole |-> Prepared, runs |-> TRUE])
                                ELSE children
  BY NewEndsFacts, CallIsTable DEF Types
<1>3. TableOf(fds', Descriptions)
  BY NewEndsFacts, CallIsTable DEF Types
<1>4. TypeOK'
  BY <1>1, <1>3 DEF Types, TypeOK, TableOf
<1>5. tab \in Tables
  BY <1>2 DEF Tables, TableOf
<1>6. Prepared \in BOOLEAN
  BY DEF Prepared
<1>7. [tab |-> tab, first |-> descs, whole |-> Prepared, runs |-> TRUE] \in Child
  BY <1>5, <1>6 DEF Child, Types, TypeOK
<1>8. children' \in Seq(Child)
  <2> DEFINE new == [tab |-> tab, first |-> descs, whole |-> Prepared, runs |-> TRUE]
  <2>1. new \in Child /\ children \in Seq(Child)
    BY <1>7 DEF Types
  <2>2. children' = Append(children, new) \/ children' = children
    BY <1>2
  <2> HIDE DEF new
  <2> QED
    BY <2>1, <2>2
<1>9. popens' \in 0 .. MaxPopens
  BY <1>1, MaxPopensAssumption DEF Types
<1> QED
  BY <1>1, <1>4, <1>8, <1>9 DEF Types

LEMMA OOMKeepsTypes ==
  ASSUME Types, NEW g, OS_popenImpl_OOM(g)
  PROVE  Types'
<1>1. /\ popens < MaxPopens /\ popens' = popens + 1 /\ descs' = descs + 6
      /\ degraded' = TRUE /\ running' = running /\ fds' = Redirected(g).tab
      /\ io' = io /\ given' = given /\ stream' = stream /\ children' = children
  BY DEF OS_popenImpl_OOM
<1>2. TableOf(fds', Descriptions)
  BY <1>1, NewEndsFacts, RedirectedIsTable DEF Types
<1>3. TypeOK'
  BY <1>1, <1>2 DEF Types, TypeOK, TableOf
<1>4. popens' \in 0 .. MaxPopens
  BY <1>1, MaxPopensAssumption DEF Types
<1> QED
  BY <1>1, <1>3, <1>4 DEF Types

LEMMA ExitKeepsTypes ==
  ASSUME Types, OS_exit
  PROVE  Types'
<1>1. TableOf(fds', Descriptions)
  BY NewEndsFacts, CloseIsTable DEF OS_exit, Types
<1>2. TypeOK'
  BY <1>1 DEF OS_exit, Types, TypeOK, TableOf
<1> QED
  BY <1>2 DEF OS_exit, Types

LEMMA ChildEndsFacts ==
  ASSUME Types, NEW i \in DOMAIN children, ChildEnds(i)
  PROVE  /\ children' \in Seq(Child) /\ Len(children') = Len(children)
         /\ \A j \in DOMAIN children : /\ children'[j].tab = children[j].tab
                                       /\ children'[j].first = children[j].first
                                       /\ children'[j].whole = children[j].whole
<1>1. children \in Seq(Child) /\ children' = [children EXCEPT ![i].runs = FALSE]
  BY DEF ChildEnds, Types
<1>2. \A j \in DOMAIN children : children[j] \in Child
  BY <1>1
<1>3. /\ children'[i] \in Child /\ children'[i].tab = children[i].tab
      /\ children'[i].first = children[i].first /\ children'[i].whole = children[i].whole
  BY <1>1, <1>2 DEF Child
<1>4. \A j \in DOMAIN children : j # i => children'[j] = children[j]
  BY <1>1
<1>5. DOMAIN children' = DOMAIN children
  BY <1>1
<1>6. children' \in Seq(Child) /\ Len(children') = Len(children)
  BY <1>1, <1>2, <1>3, <1>4, <1>5
<1> QED
  BY <1>3, <1>4, <1>6

LEMMA ChildEndsKeepsTypes ==
  ASSUME Types, NEW i \in DOMAIN children, ChildEnds(i)
  PROVE  Types'
<1>1. TypeOK'
  BY DEF ChildEnds, Types, TypeOK
<1> QED
  BY <1>1, ChildEndsFacts DEF ChildEnds, Types

LEMMA TypesInit == PopenInit => Types
<1> SUFFICES ASSUME PopenInit PROVE Types
  OBVIOUS
<1>1. TypeOK
  BY InitHolds DEF PopenInit, IInv, Coherent
<1>2. <<>> \in Seq(Child)
  OBVIOUS
<1>3. children \in Seq(Child)
  BY <1>2 DEF PopenInit
<1>4. popens \in 0 .. MaxPopens /\ degraded \in BOOLEAN /\ running \in BOOLEAN
  <2>1. 0 \in 0 .. MaxPopens
    BY MaxPopensAssumption
  <2> QED
    BY <2>1, Zenon DEF PopenInit
<1> QED
  BY <1>1, <1>3, <1>4 DEF Types

LEMMA TypesNext == Types /\ [PopenNext]_popenVars => Types'
<1> SUFFICES ASSUME Types, [PopenNext]_popenVars PROVE Types'
  OBVIOUS
<1>1. CASE UNCHANGED popenVars
  BY <1>1 DEF popenVars, Types, TypeOK
<1>2. CASE running /\ Next /\ UNCHANGED <<popens, running, children, degraded>>
  BY <1>2, StepKeepsTypes DEF Types
<1>3. CASE \E g \in GarbageNow, forked \in BOOLEAN : OS_popenImpl(g, forked)
  BY <1>3, CallKeepsTypes
<1>4. CASE \E g \in GarbageNow : OS_popenImpl_OOM(g)
  BY <1>4, OOMKeepsTypes
<1>5. CASE OS_exit
  BY <1>5, ExitKeepsTypes
<1>6. CASE \E i \in DOMAIN children : ChildEnds(i)
  BY <1>6, ChildEndsKeepsTypes
<1> QED
  BY <1>1, <1>2, <1>3, <1>4, <1>5, <1>6 DEF PopenNext

LEMMA TypesHold == PopenSpec => []Types
BY TypesInit, TypesNext, PTL DEF PopenSpec

\* PopenTypeOK: whatever fails on the way, and with any number in the array of a pipe()
\* that failed, the program and its children are left with tables of descriptors.
THEOREM PopenTypeCorrect == PopenSpec => []PopenTypeOK
<1>1. Types => PopenTypeOK
  <2> SUFFICES ASSUME Types PROVE PopenTypeOK
    OBVIOUS
  <2>1. ASSUME NEW i \in DOMAIN children PROVE DOMAIN children[i].tab \subseteq Fd
    <3>1. children[i] \in Child
      BY DEF Types
    <3>2. children[i].tab \in Tables
      BY <3>1 DEF Child
    <3> QED
      BY <3>2 DEF Tables
  <2> QED
    BY <2>1 DEF Types, PopenTypeOK
<1> QED
  BY <1>1, TypesHold, PTL

-----------------------------------------------------------------------------
(* A call that finds 0, 1 and 2 open and nine numbers unused: none of its  *)
(* dup(), pipe() and dup2() fails, and what they return is told apart.     *)

Room(t, n) == DOMAIN t \subseteq Fd /\ Cardinality(Unused(t)) >= n

\* u is t with one descriptor more.
Adds(u, t, f, d) ==
  /\ f \in Fd \ DOMAIN t
  /\ DOMAIN u = DOMAIN t \cup {f} /\ u[f] = d
  /\ \A g \in DOMAIN t : u[g] = t[g]

LEMMA UnusedIsFinite ==
  ASSUME NEW t
  PROVE  IsFiniteSet(Unused(t)) /\ Cardinality(Unused(t)) \in Nat
<1>1. IsFiniteSet(Fd)
  BY FS_Interval, MaxFdAssumption DEF Fd
<1>2. Unused(t) \subseteq Fd
  BY DEF Unused
<1>3. IsFiniteSet(Unused(t))
  BY <1>1, <1>2, FS_Subset
<1> QED
  BY <1>3, FS_CardinalityType

LEMMA InstallAdds ==
  ASSUME NEW n \in Nat, NEW t, Room(t, n + 1), NEW d
  PROVE  /\ Adds(Install(t, d).tab, t, Install(t, d).fd, d)
         /\ Install(t, d).fd # -1
         /\ Room(Install(t, d).tab, n)
<1> DEFINE f == Install(t, d).fd  u == Install(t, d).tab
<1>1. IsFiniteSet(Unused(t)) /\ Cardinality(Unused(t)) \in Nat
  BY UnusedIsFinite
<1>2. Unused(t) # {}
  <2>1. Cardinality({}) = 0
    BY FS_EmptySet
  <2> QED
    BY <1>1, <2>1 DEF Room
<1>3. f \in Fd /\ f \notin DOMAIN t /\ u = Bind(t, f, d)
  BY <1>2, InstallFacts
<1> HIDE DEF f, u
<1>4. Adds(u, t, f, d)
  BY <1>3 DEF Adds, Bind
<1>5. f # -1
  BY <1>3, MaxFdAssumption DEF Fd
<1>6. Unused(u) = Unused(t) \ {f} /\ f \in Unused(t)
  BY <1>4 DEF Adds, Unused
<1>7. Cardinality(Unused(u)) = Cardinality(Unused(t)) - 1
  BY <1>1, <1>6, FS_RemoveElement
<1>8. Cardinality(Unused(u)) >= n
  BY <1>1, <1>7 DEF Room
<1>9. Room(u, n)
  BY <1>4, <1>8 DEF Room, Adds
<1> QED
  BY <1>4, <1>5, <1>9 DEF f, u

LEMMA DupAdds ==
  ASSUME NEW n \in Nat, NEW t, Room(t, n + 1), NEW f \in DOMAIN t
  PROVE  /\ Adds(Dup(t, f).tab, t, Dup(t, f).fd, t[f])
         /\ Room(Dup(t, f).tab, n)
BY InstallAdds DEF Dup

LEMMA PipeAdds ==
  ASSUME NEW n \in Nat, NEW t, Room(t, n + 2), NEW r, NEW w, NEW g
  PROVE  LET p == Pipe(t, r, w, g)
         IN  /\ \E u : Adds(u, t, p.read, r) /\ Adds(p.tab, u, p.write, w)
             /\ Room(p.tab, n)
<1> DEFINE rd == Install(t, r)
           wr == Install(rd.tab, w)
           p  == Pipe(t, r, w, g)
<1>1. n + 1 \in Nat /\ n + 2 = (n + 1) + 1
  OBVIOUS
<1>2. Adds(rd.tab, t, rd.fd, r) /\ rd.fd # -1 /\ Room(rd.tab, n + 1)
  BY <1>1, InstallAdds
<1> HIDE DEF rd
<1>3. Adds(wr.tab, rd.tab, wr.fd, w) /\ wr.fd # -1 /\ Room(wr.tab, n)
  BY <1>2, InstallAdds
<1> HIDE DEF wr
<1>4. p = [tab |-> wr.tab, read |-> rd.fd, write |-> wr.fd]
  BY <1>2, <1>3 DEF Pipe, rd, wr
<1>5. p.tab = wr.tab /\ p.read = rd.fd /\ p.write = wr.fd
  BY <1>4
<1> HIDE DEF p
<1>6. Adds(rd.tab, t, p.read, r) /\ Adds(p.tab, rd.tab, p.write, w) /\ Room(p.tab, n)
  BY <1>2, <1>3, <1>5
<1> QED
  BY <1>6 DEF p

\* dup() of 0, 1 and 2.
LEMMA SaveFacts ==
  ASSUME NEW t, Room(t, 9), Std \subseteq DOMAIN t
  PROVE  LET s == SaveStd(t)
         IN  /\ Room(s.tab, 6)
             /\ \A k \in 1 .. 3 : s.saved[k] \in Fd \ DOMAIN t
             /\ s.saved[1] # s.saved[2] /\ s.saved[1] # s.saved[3] /\ s.saved[2] # s.saved[3]
             /\ DOMAIN s.tab = DOMAIN t \cup {s.saved[1], s.saved[2], s.saved[3]}
             /\ \A g \in DOMAIN t : s.tab[g] = t[g]
             /\ \A k \in 1 .. 3 : s.tab[s.saved[k]] = t[k - 1]
<1> DEFINE a == Dup(t, 0)  b == Dup(a.tab, 1)  c == Dup(b.tab, 2)  s == SaveStd(t)
<1>1. 0 \in DOMAIN t /\ 1 \in DOMAIN t /\ 2 \in DOMAIN t
  BY DEF Std
<1>2. Adds(a.tab, t, a.fd, t[0]) /\ Room(a.tab, 8)
  <2>1. 8 + 1 = 9
    OBVIOUS
  <2> QED
    BY <1>1, <2>1, DupAdds
<1> HIDE DEF a
<1>3. Adds(b.tab, a.tab, b.fd, a.tab[1]) /\ Room(b.tab, 7)
  <2>1. 7 + 1 = 8 /\ 1 \in DOMAIN a.tab
    BY <1>1, <1>2 DEF Adds
  <2> QED
    BY <1>2, <2>1, DupAdds
<1> HIDE DEF b
<1>4. Adds(c.tab, b.tab, c.fd, b.tab[2]) /\ Room(c.tab, 6)
  <2>1. 6 + 1 = 7 /\ 2 \in DOMAIN b.tab
    BY <1>1, <1>2, <1>3 DEF Adds
  <2> QED
    BY <1>3, <2>1, DupAdds
<1> HIDE DEF c
<1>5. s = [tab |-> c.tab, saved |-> <<a.fd, b.fd, c.fd>>]
  BY DEF SaveStd, a, b, c
<1>6. s.tab = c.tab /\ s.saved[1] = a.fd /\ s.saved[2] = b.fd /\ s.saved[3] = c.fd
  BY <1>5
<1> HIDE DEF s
<1>7. /\ a.fd \in Fd \ DOMAIN t /\ b.fd \in Fd \ DOMAIN t /\ c.fd \in Fd \ DOMAIN t
      /\ a.fd # b.fd /\ a.fd # c.fd /\ b.fd # c.fd
      /\ DOMAIN c.tab = DOMAIN t \cup {a.fd, b.fd, c.fd}
  BY <1>2, <1>3, <1>4 DEF Adds
<1>8. \A g \in DOMAIN t : c.tab[g] = t[g]
  BY <1>2, <1>3, <1>4 DEF Adds
<1>9. c.tab[a.fd] = t[0] /\ c.tab[b.fd] = t[1] /\ c.tab[c.fd] = t[2]
  BY <1>1, <1>2, <1>3, <1>4 DEF Adds
<1>10. \A k \in 1 .. 3 : k = 1 \/ k = 2 \/ k = 3
  OBVIOUS
<1>11. 1 - 1 = 0 /\ 2 - 1 = 1 /\ 3 - 1 = 2
  OBVIOUS
<1>12. \A k \in 1 .. 3 : s.saved[k] \in Fd \ DOMAIN t
  BY <1>6, <1>7, <1>10
<1>13. \A k \in 1 .. 3 : s.tab[s.saved[k]] = t[k - 1]
  BY <1>6, <1>9, <1>10, <1>11
<1> QED
  BY <1>4, <1>6, <1>7, <1>8, <1>12, <1>13 DEF s

\* The six ends of the three pipes; in what follows they are p.in.read and so on.
LEMMA PipesFacts ==
  ASSUME NEW t, Room(t, 6), NEW g
  PROVE  LET p == MakePipes(t, g)
             new == <<p.in.read, p.in.write, p.out.read, p.out.write, p.err.read, p.err.write>>
         IN  /\ \A k \in 1 .. 6 : new[k] \in Fd \ DOMAIN t
             /\ \A k, l \in 1 .. 6 : k # l => new[k] # new[l]
             /\ DOMAIN p.tab = DOMAIN t \cup {new[k] : k \in 1 .. 6}
             /\ \A f \in DOMAIN t : p.tab[f] = t[f]
             /\ p.tab[p.in.read]  = PipeEnd(0, "RDONLY") /\ p.tab[p.in.write]  = PipeEnd(1, "WRONLY")
             /\ p.tab[p.out.read] = PipeEnd(2, "RDONLY") /\ p.tab[p.out.write] = PipeEnd(3, "WRONLY")
             /\ p.tab[p.err.read] = PipeEnd(4, "RDONLY") /\ p.tab[p.err.write] = PipeEnd(5, "WRONLY")
<1> DEFINE i == Pipe(t, PipeEnd(0, "RDONLY"), PipeEnd(1, "WRONLY"), g[1])
           o == Pipe(i.tab, PipeEnd(2, "RDONLY"), PipeEnd(3, "WRONLY"), g[2])
           e == Pipe(o.tab, PipeEnd(4, "RDONLY"), PipeEnd(5, "WRONLY"), g[3])
           p == MakePipes(t, g)
<1>1. /\ \E u : /\ Adds(u, t, i.read, PipeEnd(0, "RDONLY"))
                /\ Adds(i.tab, u, i.write, PipeEnd(1, "WRONLY"))
      /\ Room(i.tab, 4)
  <2>1. 4 + 2 = 6
    OBVIOUS
  <2> QED
    BY <2>1, PipeAdds
<1> HIDE DEF i
<1>2. /\ \E u : /\ Adds(u, i.tab, o.read, PipeEnd(2, "RDONLY"))
                /\ Adds(o.tab, u, o.write, PipeEnd(3, "WRONLY"))
      /\ Room(o.tab, 2)
  <2>1. 2 + 2 = 4
    OBVIOUS
  <2> QED
    BY <1>1, <2>1, PipeAdds
<1> HIDE DEF o
<1>3. \E u : /\ Adds(u, o.tab, e.read, PipeEnd(4, "RDONLY"))
             /\ Adds(e.tab, u, e.write, PipeEnd(5, "WRONLY"))
  <2>1. 0 + 2 = 2
    OBVIOUS
  <2> QED
    BY <1>2, <2>1, PipeAdds
<1> HIDE DEF e
<1>4. p = [tab |-> e.tab, in |-> i, out |-> o, err |-> e]
  BY DEF MakePipes, i, o, e
<1>5. p.tab = e.tab /\ p.in = i /\ p.out = o /\ p.err = e
  BY <1>4
<1> HIDE DEF p
<1>6. PICK u : /\ Adds(u, t, i.read, PipeEnd(0, "RDONLY"))
               /\ Adds(i.tab, u, i.write, PipeEnd(1, "WRONLY"))
  BY <1>1
<1>7. PICK v : /\ Adds(v, i.tab, o.read, PipeEnd(2, "RDONLY"))
               /\ Adds(o.tab, v, o.write, PipeEnd(3, "WRONLY"))
  BY <1>2
<1>8. PICK w : /\ Adds(w, o.tab, e.read, PipeEnd(4, "RDONLY"))
               /\ Adds(e.tab, w, e.write, PipeEnd(5, "WRONLY"))
  BY <1>3
<1>9. /\ DOMAIN i.tab = DOMAIN t \cup {i.read, i.write}
      /\ i.read \in Fd \ DOMAIN t /\ i.write \in Fd \ DOMAIN t /\ i.read # i.write
      /\ i.tab[i.read] = PipeEnd(0, "RDONLY") /\ i.tab[i.write] = PipeEnd(1, "WRONLY")
      /\ \A f \in DOMAIN t : i.tab[f] = t[f]
  BY <1>6 DEF Adds
<1>10. /\ DOMAIN o.tab = DOMAIN i.tab \cup {o.read, o.write}
       /\ o.read \in Fd \ DOMAIN i.tab /\ o.write \in Fd \ DOMAIN i.tab /\ o.read # o.write
       /\ o.tab[o.read] = PipeEnd(2, "RDONLY") /\ o.tab[o.write] = PipeEnd(3, "WRONLY")
       /\ \A f \in DOMAIN i.tab : o.tab[f] = i.tab[f]
  BY <1>7 DEF Adds
<1>11. /\ DOMAIN e.tab = DOMAIN o.tab \cup {e.read, e.write}
       /\ e.read \in Fd \ DOMAIN o.tab /\ e.write \in Fd \ DOMAIN o.tab /\ e.read # e.write
       /\ e.tab[e.read] = PipeEnd(4, "RDONLY") /\ e.tab[e.write] = PipeEnd(5, "WRONLY")
       /\ \A f \in DOMAIN o.tab : e.tab[f] = o.tab[f]
  BY <1>8 DEF Adds
<1> DEFINE new == <<i.read, i.write, o.read, o.write, e.read, e.write>>
<1>12. \A k \in 1 .. 6 : k \in {1, 2, 3, 4, 5, 6}
  OBVIOUS
<1>13. \A k \in 1 .. 6 : new[k] \in Fd \ DOMAIN t
  BY <1>9, <1>10, <1>11, <1>12
<1>14. \A k, l \in 1 .. 6 : k # l => new[k] # new[l]
  BY <1>9, <1>10, <1>11, <1>12
<1>15. {new[k] : k \in 1 .. 6} = {i.read, i.write, o.read, o.write, e.read, e.write}
  BY <1>12
<1>16. DOMAIN e.tab = DOMAIN t \cup {new[k] : k \in 1 .. 6}
  BY <1>9, <1>10, <1>11, <1>15
<1>17. \A f \in DOMAIN t : e.tab[f] = t[f]
  BY <1>9, <1>10, <1>11
<1>18. /\ e.tab[i.read] = PipeEnd(0, "RDONLY") /\ e.tab[i.write] = PipeEnd(1, "WRONLY")
       /\ e.tab[o.read] = PipeEnd(2, "RDONLY") /\ e.tab[o.write] = PipeEnd(3, "WRONLY")
       /\ e.tab[e.read] = PipeEnd(4, "RDONLY") /\ e.tab[e.write] = PipeEnd(5, "WRONLY")
  BY <1>9, <1>10, <1>11
<1> QED
  BY <1>5, <1>13, <1>14, <1>16, <1>17, <1>18 DEF p

\* Other descriptors in the place of 0, 1 and 2.
LEMMA ReplaceFacts ==
  ASSUME NEW t, Std \subseteq DOMAIN t, NEW src, \A k \in 1 .. 3 : src[k] \in DOMAIN t \ Std
  PROVE  LET u == ReplaceStd(t, src)
         IN  /\ DOMAIN u = DOMAIN t
             /\ u[0] = t[src[1]] /\ u[1] = t[src[2]] /\ u[2] = t[src[3]]
             /\ \A f \in DOMAIN t \ Std : u[f] = t[f]
<1> DEFINE a == CloseAll(t, Std)
           b == Dup2(a, src[1], 0)
           c == Dup2(b, src[2], 1)
           u == Dup2(c, src[3], 2)
<1>1. Std = {0, 1, 2}
  BY DEF Std
<1>2. /\ src[1] \in DOMAIN t \ Std /\ src[2] \in DOMAIN t \ Std /\ src[3] \in DOMAIN t \ Std
  <2>1. 1 \in 1 .. 3 /\ 2 \in 1 .. 3 /\ 3 \in 1 .. 3
    OBVIOUS
  <2> QED
    BY <2>1
<1>3. DOMAIN a = DOMAIN t \ Std /\ \A f \in DOMAIN t \ Std : a[f] = t[f]
  BY DEF CloseAll
<1> HIDE DEF a
<1>4. /\ DOMAIN b = DOMAIN a \cup {0} /\ b[0] = t[src[1]]
      /\ \A f \in DOMAIN t \ Std : b[f] = t[f]
  BY <1>1, <1>2, <1>3 DEF Dup2, Bind
<1> HIDE DEF b
<1>5. /\ DOMAIN c = DOMAIN b \cup {1} /\ c[0] = t[src[1]] /\ c[1] = t[src[2]]
      /\ \A f \in DOMAIN t \ Std : c[f] = t[f]
  BY <1>1, <1>2, <1>3, <1>4 DEF Dup2, Bind
<1> HIDE DEF c
<1>6. /\ DOMAIN u = DOMAIN c \cup {2}
      /\ u[0] = t[src[1]] /\ u[1] = t[src[2]] /\ u[2] = t[src[3]]
      /\ \A f \in DOMAIN t \ Std : u[f] = t[f]
  BY <1>1, <1>2, <1>3, <1>4, <1>5 DEF Dup2, Bind
<1> HIDE DEF u
<1>7. DOMAIN u = DOMAIN t
  BY <1>1, <1>3, <1>4, <1>5, <1>6
<1>8. ReplaceStd(t, src) = u
  BY DEF ReplaceStd, a, b, c, u
<1> QED
  BY <1>6, <1>7, <1>8

\* The whole of it.  The parent has what it had, copies s of 0, 1 and 2, and one end of
\* each pipe; the child has the other ends on 0, 1 and 2, and the copies.
Effect(forked, s, r, w, e, tab) ==
  /\ s[1] # s[2] /\ s[1] # s[3] /\ s[2] # s[3]
  /\ r # w /\ r # e /\ w # e /\ {r, w, e} \cap {s[1], s[2], s[3]} = {}
  /\ DOMAIN fds' = DOMAIN fds \cup {s[1], s[2], s[3], r, w, e}
  /\ \A f \in DOMAIN fds : fds'[f] = fds[f]
  /\ fds'[s[1]] = fds[0] /\ fds'[s[2]] = fds[1] /\ fds'[s[3]] = fds[2]
  /\ fds'[r] = PipeEnd(0, "RDONLY") /\ fds'[w] = PipeEnd(3, "WRONLY")
  /\ fds'[e] = PipeEnd(4, "RDONLY")
  /\ children' = IF forked
                 THEN Append(children, [tab |-> tab, first |-> descs,
                                        whole |-> TRUE, runs |-> TRUE])
                 ELSE children
  /\ DOMAIN tab = DOMAIN fds \cup {s[1], s[2], s[3]}
  /\ tab[0] = PipeEnd(2, "RDONLY") /\ tab[1] = PipeEnd(1, "WRONLY")
  /\ tab[2] = PipeEnd(5, "WRONLY")
  /\ \A f \in DOMAIN fds \ Std : tab[f] = fds[f]
  /\ tab[s[1]] = fds[0] /\ tab[s[2]] = fds[1] /\ tab[s[3]] = fds[2]

LEMMA CallFacts ==
  ASSUME TypeOK, Prepared, NEW g, NEW forked \in BOOLEAN, OS_popenImpl(g, forked)
  PROVE  \E s \in [1 .. 3 -> Fd \ DOMAIN fds], r \in Fd \ DOMAIN fds,
            w \in Fd \ DOMAIN fds, e \in Fd \ DOMAIN fds, tab \in Tables :
           Effect(forked, s, r, w, e, tab)
<1> DEFINE save == SaveStd(fds)
           s    == save.saved
           p    == MakePipes(save.tab, g)
           mid  == ReplaceStd(p.tab, Redirects(p))
           last == ReplaceStd(mid, Restores(s))
           tab  == CloseAll(mid, ChildCloses(p))
<1>1. Room(fds, 9) /\ Std \subseteq DOMAIN fds /\ Std = {0, 1, 2}
  BY DEF Prepared, Room, TypeOK, Std
<1>2. /\ Redirected(g).tab = mid /\ Redirected(g).saved = s /\ Redirected(g).pipes = p
  BY DEF Redirected
<1>3. /\ fds' = CloseAll(last, ParentCloses(p))
      /\ children' = IF forked
                     THEN Append(children, [tab |-> tab, first |-> descs,
                                            whole |-> TRUE, runs |-> TRUE])
                     ELSE children
  <2>1. Prepared = TRUE
    OBVIOUS
  <2> HIDE DEF mid, s, p
  <2> QED
    BY <1>2, <2>1 DEF OS_popenImpl
<1>4. /\ Room(save.tab, 6)
      /\ \A k \in 1 .. 3 : s[k] \in Fd \ DOMAIN fds
      /\ s[1] # s[2] /\ s[1] # s[3] /\ s[2] # s[3]
      /\ DOMAIN save.tab = DOMAIN fds \cup {s[1], s[2], s[3]}
      /\ \A f \in DOMAIN fds : save.tab[f] = fds[f]
      /\ \A k \in 1 .. 3 : save.tab[s[k]] = fds[k - 1]
  BY <1>1, SaveFacts
<1>5. s = <<s[1], s[2], s[3]>>
  BY DEF SaveStd
<1> HIDE DEF save, s
<1> DEFINE new == <<p.in.read, p.in.write, p.out.read, p.out.write, p.err.read, p.err.write>>
<1>6. /\ \A k \in 1 .. 6 : new[k] \in Fd \ DOMAIN save.tab
      /\ \A k, l \in 1 .. 6 : k # l => new[k] # new[l]
      /\ DOMAIN p.tab = DOMAIN save.tab \cup {new[k] : k \in 1 .. 6}
      /\ \A f \in DOMAIN save.tab : p.tab[f] = save.tab[f]
      /\ p.tab[p.in.read]  = PipeEnd(0, "RDONLY") /\ p.tab[p.in.write]  = PipeEnd(1, "WRONLY")
      /\ p.tab[p.out.read] = PipeEnd(2, "RDONLY") /\ p.tab[p.out.write] = PipeEnd(3, "WRONLY")
      /\ p.tab[p.err.read] = PipeEnd(4, "RDONLY") /\ p.tab[p.err.write] = PipeEnd(5, "WRONLY")
  BY <1>4, PipesFacts
<1> HIDE DEF p
<1> DEFINE ir == p.in.read  iw == p.in.write  or == p.out.read
           ow == p.out.write  er == p.err.read  ew == p.err.write
<1>7. /\ ir \in Fd \ DOMAIN save.tab /\ iw \in Fd \ DOMAIN save.tab
      /\ or \in Fd \ DOMAIN save.tab /\ ow \in Fd \ DOMAIN save.tab
      /\ er \in Fd \ DOMAIN save.tab /\ ew \in Fd \ DOMAIN save.tab
      /\ ir # iw /\ ir # or /\ ir # ow /\ ir # er /\ ir # ew
      /\ iw # or /\ iw # ow /\ iw # er /\ iw # ew
      /\ or # ow /\ or # er /\ or # ew /\ ow # er /\ ow # ew /\ er # ew
      /\ {new[k] : k \in 1 .. 6} = {ir, iw, or, ow, er, ew}
  <2>1. /\ new[1] = ir /\ new[2] = iw /\ new[3] = or /\ new[4] = ow
        /\ new[5] = er /\ new[6] = ew
    OBVIOUS
  <2>2. 1 .. 6 = {1, 2, 3, 4, 5, 6}
    OBVIOUS
  <2> HIDE DEF new, ir, iw, or, ow, er, ew
  <2> QED
    BY <1>6, <2>1, <2>2
<1> HIDE DEF new
<1>8. /\ Redirects(p) = <<or, iw, ew>>
      /\ ChildCloses(p) = {ir, iw, or, ow, er, ew}
      /\ ParentCloses(p) = {or, iw, ew}
      /\ Restores(s) = s
  BY DEF Redirects, ChildCloses, ParentCloses, Restores
<1>9. /\ DOMAIN p.tab = DOMAIN fds \cup {s[1], s[2], s[3], ir, iw, or, ow, er, ew}
      /\ \A f \in DOMAIN fds : p.tab[f] = fds[f]
      /\ p.tab[s[1]] = fds[0] /\ p.tab[s[2]] = fds[1] /\ p.tab[s[3]] = fds[2]
      /\ p.tab[ir] = PipeEnd(0, "RDONLY") /\ p.tab[iw] = PipeEnd(1, "WRONLY")
      /\ p.tab[or] = PipeEnd(2, "RDONLY") /\ p.tab[ow] = PipeEnd(3, "WRONLY")
      /\ p.tab[er] = PipeEnd(4, "RDONLY") /\ p.tab[ew] = PipeEnd(5, "WRONLY")
  <2>1. 1 \in 1 .. 3 /\ 2 \in 1 .. 3 /\ 3 \in 1 .. 3 /\ 1 - 1 = 0 /\ 2 - 1 = 1 /\ 3 - 1 = 2
    OBVIOUS
  <2>2. save.tab[s[1]] = fds[0] /\ save.tab[s[2]] = fds[1] /\ save.tab[s[3]] = fds[2]
    <3>1. save.tab[s[1]] = fds[1 - 1] /\ save.tab[s[2]] = fds[2 - 1] /\ save.tab[s[3]] = fds[3 - 1]
      BY <1>4, <2>1
    <3> QED
      BY <2>1, <3>1
  <2> QED
    BY <1>4, <1>6, <1>7, <2>2
<1> HIDE DEF ir, iw, or, ow, er, ew
<1>10. s[1] \in Fd \ DOMAIN fds /\ s[2] \in Fd \ DOMAIN fds /\ s[3] \in Fd \ DOMAIN fds
  <2>1. 1 \in 1 .. 3 /\ 2 \in 1 .. 3 /\ 3 \in 1 .. 3
    OBVIOUS
  <2> QED
    BY <1>4, <2>1
<1>11. /\ ir \in Fd \ DOMAIN fds /\ ow \in Fd \ DOMAIN fds /\ er \in Fd \ DOMAIN fds
       /\ iw \notin DOMAIN fds /\ or \notin DOMAIN fds /\ ew \notin DOMAIN fds
       /\ {ir, iw, or, ow, er, ew} \cap {s[1], s[2], s[3]} = {}
  BY <1>4, <1>7
<1>12. /\ DOMAIN mid = DOMAIN p.tab
       /\ mid[0] = PipeEnd(2, "RDONLY") /\ mid[1] = PipeEnd(1, "WRONLY")
       /\ mid[2] = PipeEnd(5, "WRONLY")
       /\ \A f \in DOMAIN p.tab \ Std : mid[f] = p.tab[f]
  <2> DEFINE src == <<or, iw, ew>>
  <2>1. src[1] = or /\ src[2] = iw /\ src[3] = ew
    OBVIOUS
  <2>2. Std \subseteq DOMAIN p.tab
    BY <1>1, <1>9
  <2>3. or \in DOMAIN p.tab \ Std /\ iw \in DOMAIN p.tab \ Std /\ ew \in DOMAIN p.tab \ Std
    BY <1>1, <1>9, <1>11
  <2>4. \A k \in 1 .. 3 : src[k] \in DOMAIN p.tab \ Std
    <3>1. \A k \in 1 .. 3 : k = 1 \/ k = 2 \/ k = 3
      OBVIOUS
    <3> HIDE DEF src
    <3> QED
      BY <2>1, <2>3, <3>1
  <2>5. mid = ReplaceStd(p.tab, src)
    BY <1>8
  <2> HIDE DEF mid, src
  <2>6. /\ DOMAIN mid = DOMAIN p.tab
        /\ mid[0] = p.tab[src[1]] /\ mid[1] = p.tab[src[2]] /\ mid[2] = p.tab[src[3]]
        /\ \A f \in DOMAIN p.tab \ Std : mid[f] = p.tab[f]
    BY <2>2, <2>4, <2>5, ReplaceFacts
  <2> QED
    BY <1>9, <2>1, <2>6
<1> HIDE DEF mid
<1>13. /\ DOMAIN last = DOMAIN p.tab
       /\ last[0] = fds[0] /\ last[1] = fds[1] /\ last[2] = fds[2]
       /\ \A f \in DOMAIN p.tab \ Std : last[f] = p.tab[f]
  <2>1. Std \subseteq DOMAIN mid
    BY <1>1, <1>9, <1>12
  <2>2. s[1] \in DOMAIN mid \ Std /\ s[2] \in DOMAIN mid \ Std /\ s[3] \in DOMAIN mid \ Std
    BY <1>1, <1>9, <1>10, <1>12
  <2>3. \A k \in 1 .. 3 : s[k] \in DOMAIN mid \ Std
    <3>1. \A k \in 1 .. 3 : k = 1 \/ k = 2 \/ k = 3
      OBVIOUS
    <3> QED
      BY <2>2, <3>1
  <2>4. /\ DOMAIN last = DOMAIN mid
        /\ last[0] = mid[s[1]] /\ last[1] = mid[s[2]] /\ last[2] = mid[s[3]]
        /\ \A f \in DOMAIN mid \ Std : last[f] = mid[f]
    BY <1>8, <2>1, <2>3, ReplaceFacts
  <2> HIDE DEF last
  <2> QED
    BY <1>9, <1>12, <2>2, <2>4
<1> HIDE DEF last
<1>14. /\ DOMAIN fds' = DOMAIN fds \cup {s[1], s[2], s[3], ir, ow, er}
       /\ \A f \in DOMAIN fds' : fds'[f] = last[f]
  <2>1. /\ DOMAIN fds' = DOMAIN last \ {or, iw, ew}
        /\ \A f \in DOMAIN fds' : fds'[f] = last[f]
    BY <1>3, <1>8 DEF CloseAll
  <2>2. {or, iw, ew} \cap (DOMAIN fds \cup {s[1], s[2], s[3], ir, ow, er}) = {}
    BY <1>7, <1>11
  <2>3. DOMAIN p.tab = (DOMAIN fds \cup {s[1], s[2], s[3], ir, ow, er}) \cup {or, iw, ew}
    BY <1>9
  <2>4. DOMAIN fds' = DOMAIN fds \cup {s[1], s[2], s[3], ir, ow, er}
    BY <1>13, <2>1, <2>2, <2>3
  <2> QED
    BY <2>1, <2>4
<1>15. /\ \A f \in DOMAIN fds : fds'[f] = fds[f]
       /\ fds'[s[1]] = fds[0] /\ fds'[s[2]] = fds[1] /\ fds'[s[3]] = fds[2]
       /\ fds'[ir] = PipeEnd(0, "RDONLY") /\ fds'[ow] = PipeEnd(3, "WRONLY")
       /\ fds'[er] = PipeEnd(4, "RDONLY")
  BY <1>1, <1>9, <1>10, <1>11, <1>13, <1>14
<1>16. /\ DOMAIN tab = DOMAIN fds \cup {s[1], s[2], s[3]}
       /\ \A f \in DOMAIN tab : tab[f] = mid[f]
       /\ tab = [f \in DOMAIN tab |-> mid[f]]
  <2>1. /\ DOMAIN tab = DOMAIN mid \ {ir, iw, or, ow, er, ew}
        /\ \A f \in DOMAIN tab : tab[f] = mid[f]
        /\ tab = [f \in DOMAIN tab |-> mid[f]]
    BY <1>8 DEF CloseAll
  <2> HIDE DEF tab
  <2>2. {ir, iw, or, ow, er, ew} \cap (DOMAIN fds \cup {s[1], s[2], s[3]}) = {}
    BY <1>11
  <2>3. DOMAIN mid = (DOMAIN fds \cup {s[1], s[2], s[3]}) \cup {ir, iw, or, ow, er, ew}
    BY <1>9, <1>12
  <2>4. DOMAIN tab = DOMAIN fds \cup {s[1], s[2], s[3]}
    BY <2>1, <2>2, <2>3
  <2> QED
    BY <2>1, <2>4
<1> HIDE DEF tab
<1>17. /\ tab[0] = PipeEnd(2, "RDONLY") /\ tab[1] = PipeEnd(1, "WRONLY")
       /\ tab[2] = PipeEnd(5, "WRONLY")
       /\ \A f \in DOMAIN fds \ Std : tab[f] = fds[f]
       /\ tab[s[1]] = fds[0] /\ tab[s[2]] = fds[1] /\ tab[s[3]] = fds[2]
  BY <1>1, <1>9, <1>10, <1>12, <1>16
<1>18. tab \in Tables
  <2>1. DOMAIN tab \subseteq Fd
    BY <1>10, <1>16 DEF TypeOK
  <2>2. ASSUME NEW f \in DOMAIN tab PROVE tab[f] \in Descriptions
    <3>1. /\ \A k \in DOMAIN fds : fds[k] \in Descriptions
          /\ PipeEnd(2, "RDONLY") \in Descriptions /\ PipeEnd(1, "WRONLY") \in Descriptions
          /\ PipeEnd(5, "WRONLY") \in Descriptions
      BY DEF TypeOK, PipeEnd, Descriptions
    <3>2. fds[0] \in Descriptions /\ fds[1] \in Descriptions /\ fds[2] \in Descriptions
      BY <1>1, <3>1
    <3> QED
      BY <1>1, <1>16, <1>17, <3>1, <3>2
  <2>3. tab = [f \in DOMAIN tab |-> tab[f]]
    BY <1>16
  <2> QED
    BY <2>1, <2>2, <2>3 DEF Tables
<1>19. s \in [1 .. 3 -> Fd \ DOMAIN fds]
  BY <1>4, <1>5
<1>20. /\ ir # ow /\ ir # er /\ ow # er /\ {ir, ow, er} \cap {s[1], s[2], s[3]} = {}
       /\ ir \in Fd \ DOMAIN fds /\ ow \in Fd \ DOMAIN fds /\ er \in Fd \ DOMAIN fds
  BY <1>7, <1>11
<1>21. Effect(forked, s, ir, ow, er, tab)
  BY <1>3, <1>4, <1>14, <1>15, <1>16, <1>17, <1>20 DEF Effect
<1> QED
  BY <1>18, <1>19, <1>20, <1>21

-----------------------------------------------------------------------------
(* A program that meets no limit: what the calls leave in its table.       *)

\* While the program runs and no call of it has met a limit: its objects are what they
\* are without os.popen, six descriptors for each call belong to none of them, and
\* among these is the write end of every child's standard input.
Calm ==
  running /\ ~degraded =>
    /\ Coherent
    /\ Cardinality(Orphans) = 6 * popens
    /\ \A i \in DOMAIN children :
         /\ children[i].runs /\ children[i].whole
         /\ \E f \in Orphans : fds[f].id = children[i].first + 3

\* What a step that is not a call does to the table.
LEMMA StepTable ==
  ASSUME TypeOK, [Next]_vars
  PROVE  /\ \A f \in DOMAIN fds \cap DOMAIN fds' : fds'[f] = fds[f]
         /\ \/ descs' = descs /\ DOMAIN fds' \subseteq DOMAIN fds
            \/ /\ descs' = descs + 1
               /\ \A f \in DOMAIN fds' \ DOMAIN fds : fds'[f].id = descs
<1>1. ASSUME NEW o \in FileIOs, NEW m \in Modes, F_FileIO(o, m)
      PROVE  /\ descs' = descs + 1
             /\ \A f \in DOMAIN fds : fds'[f] = fds[f]
             /\ \A f \in DOMAIN fds' \ DOMAIN fds : fds'[f].id = descs
  <2> DEFINE desc == [id |-> descs, access |-> Access(m)]
             n    == Install(fds, desc).fd
  <2>1. /\ DOMAIN fds' = DOMAIN fds \cup {n} /\ fds'[n] = desc
        /\ \A g \in DOMAIN fds : fds'[g] = fds[g]
        /\ descs' = descs + 1
    BY <1>1, OpenFacts
  <2>2. desc.id = descs
    OBVIOUS
  <2> HIDE DEF n, desc
  <2> QED
    BY <2>1, <2>2
<1>2. ASSUME NEW o \in DOMAIN io, IO_close(o)
      PROVE  /\ descs' = descs /\ DOMAIN fds' \subseteq DOMAIN fds
             /\ \A f \in DOMAIN fds' : fds'[f] = fds[f]
  BY <1>2, CloseFacts
<1>3. CASE \E o \in FileIOs, m \in Modes : F_FileIO(o, m)
  BY <1>1, <1>3
<1>4. CASE \E s \in TextStreams, o \in FileIOs : TextIOWrapper(s, o)
  BY <1>4 DEF TextIOWrapper
<1>5. CASE \E o \in DOMAIN io : IO_close(o)
  BY <1>2, <1>5
<1>6. CASE \E s \in DOMAIN stream : TextStream_close(s)
  <2>1. \A s \in DOMAIN stream : stream[s].raw \in DOMAIN io
    BY DEF TypeOK
  <2> QED
    BY <1>2, <1>6, <2>1 DEF TextStream_close
<1>7. CASE UNCHANGED vars
  BY <1>7 DEF vars
<1> QED
  BY <1>3, <1>4, <1>5, <1>6, <1>7 DEF Next

\* Three elements more.
LEMMA AddThree ==
  ASSUME NEW S, IsFiniteSet(S), NEW a, NEW b, NEW c,
         a \notin S, b \notin S, c \notin S, a # b, a # c, b # c
  PROVE  /\ IsFiniteSet(S \cup {a, b, c})
         /\ Cardinality(S \cup {a, b, c}) = Cardinality(S) + 3
<1>1. IsFiniteSet(S \cup {a}) /\ Cardinality(S \cup {a}) = Cardinality(S) + 1
  BY FS_AddElement
<1>2. /\ IsFiniteSet((S \cup {a}) \cup {b})
      /\ Cardinality((S \cup {a}) \cup {b}) = Cardinality(S \cup {a}) + 1
  <2>1. b \notin S \cup {a}
    OBVIOUS
  <2> QED
    BY <1>1, <2>1, FS_AddElement
<1>3. /\ IsFiniteSet(((S \cup {a}) \cup {b}) \cup {c})
      /\ Cardinality(((S \cup {a}) \cup {b}) \cup {c}) = Cardinality((S \cup {a}) \cup {b}) + 1
  <2>1. c \notin (S \cup {a}) \cup {b}
    OBVIOUS
  <2> QED
    BY <1>2, <2>1, FS_AddElement
<1>4. ((S \cup {a}) \cup {b}) \cup {c} = S \cup {a, b, c}
  OBVIOUS
<1>5. Cardinality(S) \in Nat
  BY FS_CardinalityType
<1> QED
  BY <1>1, <1>2, <1>3, <1>4, <1>5

LEMMA CalmInit == PopenInit => Calm
<1> SUFFICES ASSUME PopenInit PROVE Calm
  OBVIOUS
<1>1. Coherent /\ Orphans = {}
  BY InitHolds DEF PopenInit, IInv, NoOrphans
<1>2. Cardinality(Orphans) = 6 * popens
  BY <1>1, FS_EmptySet DEF PopenInit
<1>3. DOMAIN children = {}
  BY DEF PopenInit
<1> QED
  BY <1>1, <1>2, <1>3 DEF Calm

LEMMA OrphansFinite == TypeOK => IsFiniteSet(Orphans) /\ Cardinality(Orphans) \in Nat
<1> SUFFICES ASSUME TypeOK PROVE IsFiniteSet(Orphans) /\ Cardinality(Orphans) \in Nat
  OBVIOUS
<1>1. IsFiniteSet(Fd)
  BY FS_Interval, MaxFdAssumption DEF Fd
<1>2. Orphans \subseteq Fd
  BY DEF Orphans, TypeOK
<1> QED
  BY <1>1, <1>2, FS_Subset, FS_CardinalityType

\* The six descriptors that a call leaves are new, so no object holds them.
LEMMA CallKeepsCalm ==
  ASSUME Types, Calm, running, ~degraded, Prepared,
         NEW g, NEW forked \in BOOLEAN, OS_popenImpl(g, forked)
  PROVE  Calm'
<1>1. /\ Coherent /\ Cardinality(Orphans) = 6 * popens
      /\ \A i \in DOMAIN children :
           /\ children[i].runs /\ children[i].whole
           /\ \E f \in Orphans : fds[f].id = children[i].first + 3
  BY DEF Calm
<1>2. PICK s \in [1 .. 3 -> Fd \ DOMAIN fds], r \in Fd \ DOMAIN fds,
           w \in Fd \ DOMAIN fds, e \in Fd \ DOMAIN fds, tab \in Tables :
             Effect(forked, s, r, w, e, tab)
  BY CallFacts DEF Types
<1>3. /\ io' = io /\ given' = given /\ stream' = stream
      /\ popens' = popens + 1 /\ descs' = descs + 6
  BY DEF OS_popenImpl
<1> DEFINE a == s[1]  b == s[2]  c == s[3]
<1>4. /\ a \notin DOMAIN fds /\ b \notin DOMAIN fds /\ c \notin DOMAIN fds
      /\ r \notin DOMAIN fds /\ w \notin DOMAIN fds /\ e \notin DOMAIN fds
  OBVIOUS
<1>5. /\ a # b /\ a # c /\ b # c /\ r # w /\ r # e /\ w # e
      /\ {r, w, e} \cap {a, b, c} = {}
      /\ DOMAIN fds' = DOMAIN fds \cup {a, b, c, r, w, e}
      /\ \A f \in DOMAIN fds : fds'[f] = fds[f]
      /\ fds'[w] = PipeEnd(3, "WRONLY")
  BY <1>2 DEF Effect
<1>6. children' = IF forked
                  THEN Append(children, [tab |-> tab, first |-> descs,
                                         whole |-> TRUE, runs |-> TRUE])
                  ELSE children
  BY <1>2 DEF Effect
<1> HIDE DEF a, b, c
<1>7. \A o \in DOMAIN io : Held(o) \subseteq DOMAIN fds /\ Held(o)' = Held(o)
  BY <1>1, <1>3 DEF Coherent, Ownership, Held
<1>8. Coherent'
  <2>1. TypeOK'
    BY CallKeepsTypes DEF Types
  <2>2. Ownership'
    BY <1>1, <1>3, <1>5, <1>7 DEF Coherent, Ownership
  <2>3. Exclusive'
    BY <1>1, <1>3, <1>7 DEF Coherent, Exclusive
  <2>4. ModeCoherent'
    BY <1>1, <1>3 DEF Coherent, ModeCoherent, IsOpen, Held, WrapperKind
  <2>5. CacheCoherent'
    BY <1>1, <1>3 DEF Coherent, CacheCoherent, IsOpen, Held
  <2> QED
    BY <2>1, <2>2, <2>3, <2>4, <2>5 DEF Coherent
<1>9. Orphans' = (Orphans \cup {a, b, c}) \cup {r, w, e}
  BY <1>3, <1>4, <1>5, <1>7 DEF Orphans
<1>10. Cardinality(Orphans)' = 6 * popens'
  <2>1. IsFiniteSet(Orphans) /\ Cardinality(Orphans) \in Nat
    BY OrphansFinite DEF Types
  <2>2. Orphans \subseteq DOMAIN fds
    BY DEF Orphans
  <2>3. /\ IsFiniteSet(Orphans \cup {a, b, c})
        /\ Cardinality(Orphans \cup {a, b, c}) = Cardinality(Orphans) + 3
    BY <1>4, <1>5, <2>1, <2>2, AddThree
  <2>4. r \notin Orphans \cup {a, b, c} /\ w \notin Orphans \cup {a, b, c}
        /\ e \notin Orphans \cup {a, b, c}
    BY <1>4, <1>5, <2>2
  <2>5. Cardinality((Orphans \cup {a, b, c}) \cup {r, w, e})
          = Cardinality(Orphans \cup {a, b, c}) + 3
    <3> DEFINE S == Orphans \cup {a, b, c}
    <3>1. IsFiniteSet(S) /\ r \notin S /\ w \notin S /\ e \notin S
      BY <2>3, <2>4
    <3> HIDE DEF S
    <3>2. Cardinality(S \cup {r, w, e}) = Cardinality(S) + 3
      BY <1>5, <3>1, AddThree
    <3> QED
      BY <3>2 DEF S
  <2>6. Cardinality(Orphans)' = Cardinality(Orphans) + 6
    BY <1>9, <2>1, <2>3, <2>5
  <2> QED
    BY <1>1, <1>3, <2>6 DEF Types
<1>11. ASSUME NEW i \in DOMAIN children'
       PROVE  /\ children'[i].runs /\ children'[i].whole
              /\ \E f \in Orphans' : fds'[f].id = children'[i].first + 3
  <2> DEFINE new == [tab |-> tab, first |-> descs, whole |-> TRUE, runs |-> TRUE]
  <2>1. children \in Seq(Child)
    BY DEF Types
  <2>2. new.first = descs /\ new.whole = TRUE /\ new.runs = TRUE
    OBVIOUS
  <2>3. children' = Append(children, new) \/ children' = children
    BY <1>6
  <2> HIDE DEF new
  <2>4. (i \in DOMAIN children /\ children'[i] = children[i]) \/ children'[i] = new
    BY <2>1, <2>3
  <2>5. CASE i \in DOMAIN children /\ children'[i] = children[i]
    <3>1. PICK f \in Orphans : fds[f].id = children[i].first + 3
      BY <1>1, <2>5
    <3>2. f \in Orphans' /\ fds'[f] = fds[f]
      BY <1>5, <1>9 DEF Orphans
    <3> QED
      BY <1>1, <2>5, <3>1, <3>2
  <2>6. CASE children'[i] = new
    <3>1. w \in Orphans' /\ fds'[w].id = descs + 3
      BY <1>5, <1>9 DEF PipeEnd
    <3> QED
      BY <2>2, <2>6, <3>1
  <2> QED
    BY <2>4, <2>5, <2>6
<1> QED
  BY <1>8, <1>10, <1>11 DEF Calm

LEMMA CalmNext == Types /\ Calm /\ [PopenNext]_popenVars => Calm'
<1> SUFFICES ASSUME Types, Calm, [PopenNext]_popenVars, running', ~degraded'
             PROVE  Calm'
  BY DEF Calm
<1>1. ASSUME [Next]_vars, UNCHANGED <<popens, running, children, degraded>>
      PROVE  Calm'
  <2>1. running /\ ~degraded
    BY <1>1
  <2>2. /\ Coherent /\ Cardinality(Orphans) = 6 * popens
        /\ \A i \in DOMAIN children :
             /\ children[i].runs /\ children[i].whole
             /\ \E f \in Orphans : fds[f].id = children[i].first + 3
    BY <2>1 DEF Calm
  <2>3. Coherent' /\ Orphans' = Orphans
    BY <1>1, <2>2, StepKeeps
  <2>4. \A f \in Orphans : fds'[f] = fds[f]
    <3>1. Orphans \subseteq DOMAIN fds /\ Orphans' \subseteq DOMAIN fds'
      BY DEF Orphans
    <3> QED
      BY <1>1, <2>3, <3>1, StepTable DEF Types
  <2>5. Cardinality(Orphans)' = 6 * popens'
    BY <1>1, <2>2, <2>3
  <2>6. \A i \in DOMAIN children' :
          /\ children'[i].runs /\ children'[i].whole
          /\ \E f \in Orphans' : fds'[f].id = children'[i].first + 3
    BY <1>1, <2>2, <2>3, <2>4
  <2> QED
    BY <2>3, <2>5, <2>6 DEF Calm
<1>2. CASE UNCHANGED popenVars
  BY <1>1, <1>2 DEF popenVars, vars
<1>3. CASE running /\ Next /\ UNCHANGED <<popens, running, children, degraded>>
  BY <1>1, <1>3
<1>4. CASE \E g \in GarbageNow, forked \in BOOLEAN : OS_popenImpl(g, forked)
  <2>1. PICK g \in GarbageNow, forked \in BOOLEAN : OS_popenImpl(g, forked)
    BY <1>4
  <2>2. running /\ ~degraded /\ Prepared
    BY <2>1, Zenon DEF OS_popenImpl
  <2> QED
    BY <2>1, <2>2, CallKeepsCalm
<1>5. CASE \E g \in GarbageNow : OS_popenImpl_OOM(g)
  BY <1>5 DEF OS_popenImpl_OOM
<1>6. CASE OS_exit
  BY <1>6 DEF OS_exit
\* The program has the write end of the child's input, so the child does not end.
<1>7. CASE \E i \in DOMAIN children : ChildEnds(i)
  <2>1. PICK i \in DOMAIN children : ChildEnds(i)
    BY <1>7
  <2>2. running /\ ~degraded
    BY <2>1 DEF ChildEnds
  <2>3. children[i].whole /\ \E f \in Orphans : fds[f].id = children[i].first + 3
    BY <2>2 DEF Calm
  <2>4. PICK f \in Orphans : fds[f].id = children[i].first + 3
    BY <2>3
  <2>5. children[i].first + 3 \in Open
    BY <2>4 DEF Orphans, Open
  <2>6. Writers(children[i]) \cap Open = {}
    BY <2>1, <2>3 DEF ChildEnds
  <2> QED
    BY <2>5, <2>6 DEF Writers
<1> QED
  BY <1>2, <1>3, <1>4, <1>5, <1>6, <1>7 DEF PopenNext

LEMMA CalmHolds == PopenSpec => []Calm
<1>1. PopenInit => Types /\ Calm
  BY TypesInit, CalmInit
<1>2. (Types /\ Calm) /\ [PopenNext]_popenVars => (Types /\ Calm)'
  BY TypesNext, CalmNext
<1> QED
  BY <1>1, <1>2, PTL DEF PopenSpec

\* LeaksSixPerCall: however calls, opens, wraps and closes interleave, each call has
\* left exactly six descriptors in the program that no IO object owns.
THEOREM LeaksSixPerCallHolds == PopenSpec => []LeaksSixPerCall
<1>1. Calm => LeaksSixPerCall
  BY DEF Calm, LeaksSixPerCall
<1> QED
  BY <1>1, CalmHolds, PTL

\* ChildrenWait: a child of a program that runs never sees the end of its input.
THEOREM ChildrenWaitHolds == PopenSpec => []ChildrenWait
<1>1. Calm => ChildrenWait
  BY DEF Calm, ChildrenWait
<1> QED
  BY <1>1, CalmHolds, PTL

\* The objects of a program that calls os.popen and meets no limit are as they are in a
\* program that does not (theorem OwnershipHolds): what a call leaves
\* in the table never gets into the way of an open, a read or a close.
THEOREM PopenOwnership ==
  PopenSpec => [](running /\ ~degraded => Ownership /\ Exclusive)
<1>1. Calm => (running /\ ~degraded => Ownership /\ Exclusive)
  BY DEF Calm, Coherent
<1> QED
  BY <1>1, CalmHolds, PTL

\* PreservesCallersFds: the dups, the pipes, the redirection and its undoing give every
\* descriptor of the caller back, on the same description (os-engine.cc:66-141).
THEOREM PreservesCallersFdsHolds == PopenSpec => PreservesCallersFds
<1> DEFINE A == popens' # popens /\ ~degraded' =>
                  \A f \in DOMAIN fds : f \in DOMAIN fds' /\ fds'[f] = fds[f]
<1>1. Types /\ [PopenNext]_popenVars => [A]_popenVars
  <2> SUFFICES ASSUME Types, PopenNext, popens' # popens, ~degraded'
               PROVE  \A f \in DOMAIN fds : f \in DOMAIN fds' /\ fds'[f] = fds[f]
    OBVIOUS
  <2>1. CASE \E g \in GarbageNow, forked \in BOOLEAN : OS_popenImpl(g, forked)
    <3>1. PICK g \in GarbageNow, forked \in BOOLEAN : OS_popenImpl(g, forked)
      BY <2>1
    <3>2. Prepared
      BY <3>1, Zenon DEF OS_popenImpl
    <3>3. PICK s \in [1 .. 3 -> Fd \ DOMAIN fds], r \in Fd \ DOMAIN fds,
               w \in Fd \ DOMAIN fds, e \in Fd \ DOMAIN fds, tab \in Tables :
                 Effect(forked, s, r, w, e, tab)
      BY <3>1, <3>2, CallFacts DEF Types
    <3> QED
      BY <3>3 DEF Effect
  <2>2. CASE \E g \in GarbageNow : OS_popenImpl_OOM(g)
    BY <2>2 DEF OS_popenImpl_OOM
  <2>3. CASE running /\ Next /\ UNCHANGED <<popens, running, children, degraded>>
    BY <2>3
  <2>4. CASE OS_exit
    BY <2>4 DEF OS_exit
  <2>5. CASE \E i \in DOMAIN children : ChildEnds(i)
    BY <2>5 DEF ChildEnds
  <2> QED
    BY <2>1, <2>2, <2>3, <2>4, <2>5 DEF PopenNext
<1>2. PopenSpec => [][A]_popenVars
  BY <1>1, TypesHold, PTL DEF PopenSpec
<1> QED
  BY <1>2 DEF PreservesCallersFds

-----------------------------------------------------------------------------
(* What the children have, and go on having when calls fail around them.   *)

\* Descriptions are numbered as they are opened, a call takes six numbers, and of the
\* six of a call that was prepared the program keeps none that it gave the child.
Lineage ==
  /\ \A f \in DOMAIN fds : fds[f].id < descs
  /\ \A i \in DOMAIN children :
       /\ children[i].first + 6 <= descs
       /\ \A f \in DOMAIN children[i].tab : children[i].tab[f].id < children[i].first + 6
       /\ children[i].whole =>
            \A f \in DOMAIN fds : fds[f].id - children[i].first \notin {1, 2, 5}
  /\ \A i, j \in DOMAIN children : i < j => children[i].first + 6 <= children[j].first

\* A child with its own ends, and one with no end that is for d.
OwnEnds(c)  == Wired(c) /\ \A f \in DOMAIN c.tab : c.tab[f].id - c.first \notin {0, 3, 4}
Apart(c, d) == \A f \in DOMAIN c.tab : c.tab[f].id - d.first \notin {1, 2, 5}

EndsApart ==
  \A i, j \in DOMAIN children :
    children[i].whole /\ children[j].whole =>
      IF i = j THEN OwnEnds(children[i]) ELSE Apart(children[i], children[j])

LEMMA EndsApartIsThat == EndsApart => ChildHoldsItsEndsOnly
<1> DEFINE Ends(c, d) == {c.tab[f].id - d.first : f \in DOMAIN c.tab}
<1> SUFFICES ASSUME EndsApart,
                    NEW i \in DOMAIN children, NEW j \in DOMAIN children,
                    children[i].whole, children[j].whole
             PROVE  IF i = j THEN Wired(children[i]) /\ Ends(children[i], children[j]) \cap {0, 3, 4} = {}
                    ELSE Ends(children[i], children[j]) \cap {1, 2, 5} = {}
  BY Zenon DEF ChildHoldsItsEndsOnly
<1>1. CASE i = j
  <2>1. OwnEnds(children[i])
    BY <1>1 DEF EndsApart
  <2> QED
    BY <1>1, <2>1 DEF OwnEnds
<1>2. CASE i # j
  <2>1. Apart(children[i], children[j])
    BY <1>2 DEF EndsApart
  <2> QED
    BY <1>2, <2>1 DEF Apart
<1> QED
  BY <1>1, <1>2

Kin == Lineage /\ EndsApart

\* The descriptions that the program may have after a call.
Late == {d \in Descriptions :
           /\ d.id < descs + 6
           /\ \A i \in DOMAIN children :
                children[i].whole => d.id - children[i].first \notin {1, 2, 5}}

LEMMA ChildTypes ==
  ASSUME Types, NEW i \in DOMAIN children
  PROVE  /\ children[i] \in Child /\ children[i].first \in Nat /\ i \in Nat
         /\ \A f \in DOMAIN children[i].tab : children[i].tab[f].id \in Nat
<1>1. children[i] \in Child /\ i \in Nat
  BY DEF Types
<1>2. children[i].first \in Nat /\ children[i].tab \in Tables
  BY <1>1 DEF Child
<1>3. \A f \in DOMAIN children[i].tab : children[i].tab[f] \in Descriptions
  BY <1>2 DEF Tables
<1> QED
  BY <1>1, <1>2, <1>3 DEF Descriptions

LEMMA LateFacts ==
  ASSUME Types, Lineage
  PROVE  TableOf(fds, Late) /\ NewEnds \subseteq Late
<1>1. descs \in Nat /\ DOMAIN fds \subseteq Fd
  BY DEF Types, TypeOK
<1>2. ASSUME NEW f \in DOMAIN fds PROVE fds[f] \in Late
  <2>1. fds[f] \in Descriptions /\ fds[f].id \in Nat
    BY DEF Types, TypeOK, Descriptions
  <2>2. fds[f].id < descs + 6
    BY <1>1, <2>1 DEF Lineage
  <2> QED
    BY <2>1, <2>2 DEF Late, Lineage
<1>3. ASSUME NEW n \in 0 .. 5, NEW a \in {"RDONLY", "WRONLY"} PROVE PipeEnd(n, a) \in Late
  <2>1. PipeEnd(n, a) \in Descriptions /\ PipeEnd(n, a).id = descs + n
    BY <1>1 DEF PipeEnd, Descriptions
  <2>2. ASSUME NEW i \in DOMAIN children
        PROVE  PipeEnd(n, a).id - children[i].first \notin {1, 2, 5}
    <3>1. children[i].first \in Nat /\ children[i].first + 6 <= descs
      BY ChildTypes DEF Lineage
    <3> QED
      BY <1>1, <2>1, <3>1
  <2>3. PipeEnd(n, a).id < descs + 6
    BY <1>1, <2>1
  <2> QED
    BY <2>1, <2>2, <2>3, Zenon DEF Late
<1> QED
  BY <1>1, <1>2, <1>3 DEF TableOf, NewEnds

\* One child more, or none.  What the program and the child have is in Late; if the call
\* was prepared, the child has its own ends and the program none of them.
LEMMA CallKeepsKin ==
  ASSUME Types, Kin, TableOf(fds', Late), descs' = descs + 6,
         NEW tab \in Tables, TableOf(tab, Late), NEW b \in BOOLEAN,
         NEW new, new = [tab |-> tab, first |-> descs, whole |-> b, runs |-> TRUE],
         b => /\ OwnEnds(new)
              /\ \A f \in DOMAIN fds' : fds'[f].id - descs \notin {1, 2, 5},
         children' = Append(children, new) \/ children' = children
  PROVE  Kin'
<1>1. descs \in Nat
  BY DEF Types, TypeOK
<1>2. children \in Seq(Child)
  BY DEF Types
<1>3. new.tab = tab /\ new.first = descs /\ new.whole = b
  OBVIOUS
<1>4. /\ \A d \in Late : d.id \in Nat /\ d.id < descs + 6
      /\ \A d \in Late : \A i \in DOMAIN children :
           children[i].whole => d.id - children[i].first \notin {1, 2, 5}
  BY DEF Late, Descriptions
<1>5. /\ \A f \in DOMAIN fds' : fds'[f] \in Late
      /\ \A f \in DOMAIN tab : tab[f] \in Late
  BY DEF TableOf
<1>6. ASSUME NEW i \in DOMAIN children'
      PROVE  \/ i \in DOMAIN children /\ children'[i] = children[i]
             \/ i = Len(children) + 1 /\ children'[i] = new
  BY <1>2
<1>7. \A i \in DOMAIN children : i \in Nat /\ i <= Len(children) /\ Len(children) \in Nat
  BY <1>2
<1>8. Lineage'
  <2>1. ASSUME NEW i \in DOMAIN children'
        PROVE  /\ children'[i].first + 6 <= descs'
               /\ \A f \in DOMAIN children'[i].tab :
                    children'[i].tab[f].id < children'[i].first + 6
               /\ children'[i].whole =>
                    \A f \in DOMAIN fds' : fds'[f].id - children'[i].first \notin {1, 2, 5}
    <3>1. CASE i \in DOMAIN children /\ children'[i] = children[i]
      <4>1. /\ children[i].first \in Nat /\ children[i].first + 6 <= descs
            /\ \A f \in DOMAIN children[i].tab : children[i].tab[f].id < children[i].first + 6
        BY <3>1, ChildTypes DEF Kin, Lineage
      <4>2. children[i].first + 6 <= descs'
        BY <1>1, <4>1
      <4> QED
        BY <1>4, <1>5, <3>1, <4>1, <4>2
    <3>2. CASE children'[i] = new
      BY <1>1, <1>3, <1>4, <1>5, <3>2
    <3> QED
      BY <1>6, <3>1, <3>2
  <2>2. ASSUME NEW i \in DOMAIN children', NEW j \in DOMAIN children', i < j
        PROVE  children'[i].first + 6 <= children'[j].first
    <3>1. CASE j \in DOMAIN children /\ children'[j] = children[j]
      <4>1. i \in DOMAIN children /\ children'[i] = children[i]
        <5>1. ~(i = Len(children) + 1)
          BY <1>7, <2>2, <3>1
        <5> QED
          BY <1>6, <5>1
      <4> QED
        BY <2>2, <3>1, <4>1 DEF Kin, Lineage
    <3>2. CASE j = Len(children) + 1 /\ children'[j] = new
      <4>1. i \in DOMAIN children /\ children'[i] = children[i]
        <5>1. ~(i = Len(children) + 1)
          BY <1>2, <2>2, <3>2
        <5> QED
          BY <1>6, <5>1
      <4> QED
        BY <1>3, <3>2, <4>1 DEF Kin, Lineage
    <3> QED
      BY <1>6, <3>1, <3>2
  <2>3. \A f \in DOMAIN fds' : fds'[f].id < descs'
    BY <1>4, <1>5
  <2> QED
    BY <2>1, <2>2, <2>3 DEF Lineage
<1>9. EndsApart'
  <2> SUFFICES ASSUME NEW i \in DOMAIN children', NEW j \in DOMAIN children',
                      NEW c, NEW d, c = children'[i], d = children'[j], c.whole, d.whole
               PROVE  IF i = j THEN OwnEnds(c) ELSE Apart(c, d)
    BY DEF EndsApart, OwnEnds, Apart, Wired, Std
  <2>1. CASE (i \in DOMAIN children /\ c = children[i]) /\ (j \in DOMAIN children /\ d = children[j])
    BY <2>1 DEF Kin, EndsApart
  <2>2. CASE c = new /\ (j \in DOMAIN children /\ d = children[j]) /\ i # j
    <3>1. Apart(c, d)
      BY <1>3, <1>4, <1>5, <2>2 DEF Apart
    <3> QED
      BY <2>2, <3>1
  <2>3. CASE (i \in DOMAIN children /\ c = children[i]) /\ d = new /\ i # j
    <3>1. /\ c.first \in Nat /\ c.first + 6 <= descs
          /\ \A f \in DOMAIN c.tab : c.tab[f].id \in Nat /\ c.tab[f].id < c.first + 6
      BY <2>3, ChildTypes DEF Kin, Lineage
    <3>2. Apart(c, d)
      BY <1>1, <1>3, <2>3, <3>1 DEF Apart
    <3> QED
      BY <2>3, <3>2
  <2>4. CASE c = new /\ d = new /\ i = j
    BY <1>3, <2>4
  <2> QED
    BY <1>2, <1>6, <1>7, <2>1, <2>2, <2>3, <2>4
<1> QED
  BY <1>8, <1>9 DEF Kin

LEMMA KinInit == PopenInit => Kin
<1> SUFFICES ASSUME PopenInit PROVE Kin
  OBVIOUS
<1>1. DOMAIN children = {}
  BY DEF PopenInit
<1>2. \A f \in DOMAIN fds : fds[f].id < descs
  BY DEF PopenInit, Init, StdDescription
<1> QED
  BY <1>1, <1>2 DEF Kin, Lineage, EndsApart

LEMMA KinCall ==
  ASSUME Types, Kin, NEW g, NEW forked \in BOOLEAN, OS_popenImpl(g, forked)
  PROVE  Kin'
<1>1. TableOf(fds, Late) /\ NewEnds \subseteq Late /\ descs' = descs + 6
  BY LateFacts DEF Kin, OS_popenImpl
<1>2. TableOf(fds', Late)
  BY <1>1, CallIsTable
<1>3. CASE ~Prepared
  <2>1. PICK tab : /\ TableOf(tab, Late)
                   /\ tab = [f \in DOMAIN tab |-> tab[f]]
                   /\ children' = IF forked
                                  THEN Append(children, [tab |-> tab, first |-> descs,
                                                         whole |-> Prepared, runs |-> TRUE])
                                  ELSE children
    BY <1>1, CallIsTable
  <2>2. tab \in Tables
    BY <2>1 DEF Tables, TableOf, Late
  <2> DEFINE new == [tab |-> tab, first |-> descs, whole |-> FALSE, runs |-> TRUE]
  <2>3. Prepared = FALSE
    BY <1>3 DEF Prepared
  <2>4. children' = Append(children, new) \/ children' = children
    BY <2>1, <2>3
  <2> QED
    BY <1>1, <1>2, <2>1, <2>2, <2>4, CallKeepsKin
<1>4. CASE Prepared
  <2>1. PICK s \in [1 .. 3 -> Fd \ DOMAIN fds], r \in Fd \ DOMAIN fds,
             w \in Fd \ DOMAIN fds, e \in Fd \ DOMAIN fds, tab \in Tables :
               Effect(forked, s, r, w, e, tab)
    BY <1>4, CallFacts DEF Types
  <2> DEFINE new == [tab |-> tab, first |-> descs, whole |-> TRUE, runs |-> TRUE]
             old == {fds[f] : f \in DOMAIN fds}
  <2>2. children' = Append(children, new) \/ children' = children
    BY <2>1 DEF Effect
  <2>3. Std = {0, 1, 2} /\ Std \subseteq DOMAIN fds
    BY <1>4 DEF Prepared, Std
  <2>4. /\ DOMAIN tab = DOMAIN fds \cup {s[1], s[2], s[3]}
        /\ tab[0] = PipeEnd(2, "RDONLY") /\ tab[1] = PipeEnd(1, "WRONLY")
        /\ tab[2] = PipeEnd(5, "WRONLY")
        /\ \A f \in DOMAIN fds \ Std : tab[f] = fds[f]
        /\ tab[s[1]] = fds[0] /\ tab[s[2]] = fds[1] /\ tab[s[3]] = fds[2]
    BY <2>1 DEF Effect
  <2>5. \A f \in DOMAIN tab :
          tab[f] \in old \cup {PipeEnd(2, "RDONLY"), PipeEnd(1, "WRONLY"), PipeEnd(5, "WRONLY")}
    BY <2>3, <2>4
  <2>6. /\ DOMAIN fds' = DOMAIN fds \cup {s[1], s[2], s[3], r, w, e}
        /\ \A f \in DOMAIN fds : fds'[f] = fds[f]
        /\ fds'[s[1]] = fds[0] /\ fds'[s[2]] = fds[1] /\ fds'[s[3]] = fds[2]
        /\ fds'[r] = PipeEnd(0, "RDONLY") /\ fds'[w] = PipeEnd(3, "WRONLY")
        /\ fds'[e] = PipeEnd(4, "RDONLY")
    BY <2>1 DEF Effect
  <2>7. \A f \in DOMAIN fds' :
          fds'[f] \in old \cup {PipeEnd(0, "RDONLY"), PipeEnd(3, "WRONLY"), PipeEnd(4, "RDONLY")}
    BY <2>3, <2>6
  <2>8. \A d \in old : d.id \in Nat /\ d.id < descs
    BY DEF Kin, Lineage, Types, TypeOK, Descriptions
  <2>9. descs \in Nat /\ \A n \in Nat, a \in {"RDONLY", "WRONLY"} : PipeEnd(n, a).id = descs + n
    BY DEF PipeEnd, Types, TypeOK
  <2>10. TableOf(tab, Late)
    <3>1. old \subseteq Late
      BY <1>1 DEF TableOf
    <3>2. {PipeEnd(2, "RDONLY"), PipeEnd(1, "WRONLY"), PipeEnd(5, "WRONLY")} \subseteq Late
      BY <1>1 DEF NewEnds
    <3>3. DOMAIN tab \subseteq Fd
      BY DEF Tables
    <3> QED
      BY <2>5, <3>1, <3>2, <3>3 DEF TableOf
  <2> HIDE DEF old
  <2>11. \A f \in DOMAIN fds' : fds'[f].id - descs \notin {1, 2, 5}
    BY <2>7, <2>8, <2>9
  <2>12. \A f \in DOMAIN tab : tab[f].id - descs \notin {0, 3, 4}
    BY <2>5, <2>8, <2>9
  <2>13. new.tab = tab /\ new.first = descs
    OBVIOUS
  <2>14. OwnEnds(new)
    <3> HIDE DEF new
    <3>1. Wired(new)
      BY <2>3, <2>4, <2>13 DEF Wired, PipeEnd
    <3> QED
      BY <2>12, <2>13, <3>1 DEF OwnEnds
  <2> QED
    BY <1>1, <1>2, <2>2, <2>10, <2>11, <2>14, CallKeepsKin
<1> QED
  BY <1>3, <1>4

LEMMA KinNext == Types /\ Kin /\ [PopenNext]_popenVars => Kin'
<1> SUFFICES ASSUME Types, Kin, [PopenNext]_popenVars PROVE Kin'
  OBVIOUS
<1> USE DEF Kin
<1>1. ASSUME [Next]_vars, children' = children PROVE Kin'
  <2>1. /\ \A f \in DOMAIN fds \cap DOMAIN fds' : fds'[f] = fds[f]
        /\ \/ descs' = descs /\ DOMAIN fds' \subseteq DOMAIN fds
           \/ /\ descs' = descs + 1
              /\ \A f \in DOMAIN fds' \ DOMAIN fds : fds'[f].id = descs
    BY <1>1, StepTable DEF Types
  <2>2. descs \in Nat
    BY DEF Types, TypeOK
  <2>3. \A f \in DOMAIN fds' : \/ f \in DOMAIN fds /\ fds'[f] = fds[f]
                               \/ fds'[f].id = descs /\ descs' = descs + 1
    BY <2>1
  <2>4. ASSUME NEW f \in DOMAIN fds' PROVE fds'[f].id < descs'
    <3>1. CASE f \in DOMAIN fds /\ fds'[f] = fds[f]
      <4>1. fds[f].id \in Nat /\ fds[f].id < descs
        BY <3>1 DEF Lineage, Types, TypeOK, Descriptions
      <4> QED
        BY <2>1, <2>2, <3>1, <4>1
    <3> QED
      BY <2>2, <2>3, <3>1
  <2>5. ASSUME NEW i \in DOMAIN children
        PROVE  /\ children[i].first + 6 <= descs'
               /\ children[i].whole =>
                    \A f \in DOMAIN fds' : fds'[f].id - children[i].first \notin {1, 2, 5}
    <3>1. children[i].first \in Nat /\ children[i].first + 6 <= descs
      BY ChildTypes DEF Lineage
    <3>2. children[i].first + 6 <= descs'
      BY <2>1, <2>2, <3>1
    <3>3. descs - children[i].first \notin {1, 2, 5}
      BY <2>2, <3>1
    <3> QED
      BY <2>3, <3>2, <3>3 DEF Lineage
  <2>6. Lineage'
    BY <1>1, <2>4, <2>5 DEF Lineage
  <2>7. EndsApart'
    BY <1>1 DEF EndsApart, OwnEnds, Apart, Wired
  <2> QED
    BY <2>6, <2>7
<1>2. CASE UNCHANGED popenVars
  BY <1>1, <1>2 DEF popenVars, vars
<1>3. CASE running /\ Next /\ UNCHANGED <<popens, running, children, degraded>>
  BY <1>1, <1>3
<1>4. CASE \E g \in GarbageNow, forked \in BOOLEAN : OS_popenImpl(g, forked)
  BY <1>4, KinCall
<1>5. CASE \E g \in GarbageNow : OS_popenImpl_OOM(g)
  <2>1. PICK g \in GarbageNow : OS_popenImpl_OOM(g)
    BY <1>5
  <2>2. /\ fds' = Redirected(g).tab /\ descs' = descs + 6 /\ children' = children
    BY <2>1 DEF OS_popenImpl_OOM
  <2>3. TableOf(fds, Late) /\ TableOf(fds', Late)
    BY <2>2, LateFacts, RedirectedIsTable
  <2> DEFINE tab == [f \in {} |-> 0]
             new == [tab |-> tab, first |-> descs, whole |-> FALSE, runs |-> TRUE]
  <2>4. TableOf(tab, Late)
    BY DEF TableOf
  <2>5. tab \in Tables
    <3>1. tab \in [{} -> Descriptions] /\ {} \in SUBSET Fd
      OBVIOUS
    <3> QED
      BY <3>1, Zenon DEF Tables
  <2> HIDE DEF tab
  <2> QED
    BY <2>2, <2>3, <2>4, <2>5, CallKeepsKin
<1>6. CASE OS_exit
  <2>1. DOMAIN fds' = {} /\ descs' = descs /\ children' = children
    BY <1>6 DEF OS_exit, CloseAll
  <2> QED
    BY <2>1 DEF Lineage, EndsApart, OwnEnds, Apart, Wired
<1>7. CASE \E i \in DOMAIN children : ChildEnds(i)
  <2>1. PICK i \in DOMAIN children : ChildEnds(i)
    BY <1>7
  <2>2. /\ fds' = fds /\ descs' = descs
        /\ DOMAIN children' = DOMAIN children
        /\ \A j \in DOMAIN children : /\ children'[j].tab = children[j].tab
                                      /\ children'[j].first = children[j].first
                                      /\ children'[j].whole = children[j].whole
    BY <2>1, ChildEndsFacts DEF ChildEnds, Types
  <2>3. Lineage'
    BY <2>2 DEF Lineage
  <2>4. EndsApart'
    BY <2>2 DEF EndsApart, OwnEnds, Apart, Wired
  <2> QED
    BY <2>3, <2>4
<1> QED
  BY <1>2, <1>3, <1>4, <1>5, <1>6, <1>7 DEF PopenNext

\* ChildHoldsItsEndsOnly: of its own pipes a child has the three ends that it is wired
\* to, and of another child's none that the program does not keep, however many calls,
\* whole or failing, came before and after.
THEOREM ChildHoldsItsEndsOnlyHolds == PopenSpec => []ChildHoldsItsEndsOnly
<1>1. PopenInit => Types /\ Kin
  BY TypesInit, KinInit
<1>2. (Types /\ Kin) /\ [PopenNext]_popenVars => (Types /\ Kin)'
  BY TypesNext, KinNext
<1>3. Kin => ChildHoldsItsEndsOnly
  BY EndsApartIsThat DEF Kin
<1> QED
  BY <1>1, <1>2, <1>3, PTL DEF PopenSpec
=============================================================================
