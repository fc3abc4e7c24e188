----------------------------- MODULE RunnerProofs -----------------------------
(* What holds of freePort for any targets, programs and ids of processes,    *)
(* of the choice of a device for any requests and hosts, and of the runner as *)
(* MCRunner joins it: its plans, the port, the hooks and the device.         *)
EXTENDS MCRunner, PlanExecutorProofs, TargetHooksProofs

-----------------------------------------------------------------------------
(* Whose a listener is.                                                      *)

(* Words of a command line.                                                  *)
Words == STRING \cup Numbers \cup
         {"pymobiledevice3", "python", "-m", "usbmux", "forward", "--serial"}

(* A line that begins with one of the heads, and what follows it.            *)
LEMMA HeadAndRest ==
  ASSUME NEW a \in Seq(Words), NEW h \in Seq(Words), NEW r \in Seq(Words)
  PROVE  a = h \o r <=>
           /\ Len(h) <= Len(a) /\ \A i \in 1 .. Len(h) : a[i] = h[i]
           /\ SubSeq(a, Len(h) + 1, Len(a)) = r
<1> DEFINE d == Len(h)
           n == Len(a)
<1>1. d \in Nat /\ n \in Nat /\ Len(r) \in Nat
  OBVIOUS
<1>2. /\ h \o r \in Seq(Words) /\ Len(h \o r) = Len(h) + Len(r)
      /\ \A i \in 1 .. Len(h) + Len(r) :
           (h \o r)[i] = IF i <= Len(h) THEN h[i] ELSE r[i - Len(h)]
  BY ConcatProperties, Zenon
<1>3. ASSUME d <= n
      PROVE  /\ SubSeq(a, d + 1, n) \in Seq(Words) /\ Len(SubSeq(a, d + 1, n)) = n - d
             /\ \A i \in 1 .. n - d : SubSeq(a, d + 1, n)[i] = a[d + i]
  <2>1. \A i \in d + 1 .. n : a[i] \in Words
    BY <1>1, <1>3
  <2>2. d + 1 \in Int /\ n \in Int
    BY <1>1
  <2> DEFINE s == SubSeq(a, d + 1, n)
  <2>3. /\ s \in Seq(Words)
        /\ Len(s) = IF d + 1 <= n THEN n - (d + 1) + 1 ELSE 0
        /\ \A i \in 1 .. n - (d + 1) + 1 : s[i] = a[d + 1 + i - 1]
    BY <2>1, <2>2, SubSeqProperties
  <2> HIDE DEF s, d, n
  <2>4. n - (d + 1) + 1 = n - d /\ (~(d + 1 <= n) => n - d = 0)
    BY <1>1, <1>3
  <2>5. \A i \in 1 .. n - d : d + 1 + i - 1 = d + i
    BY <1>1
  <2> QED BY <2>3, <2>4, <2>5 DEF s
<1> DEFINE rest == SubSeq(a, d + 1, n)
<1> HIDE DEF rest
<1>4. ASSUME a = h \o r PROVE d <= n /\ (\A i \in 1 .. d : a[i] = h[i]) /\ rest = r
  <2>1. d <= n /\ n - d = Len(r)
    BY <1>1, <1>2, <1>4
  <2>2. \A i \in 1 .. d : a[i] = h[i]
    BY <1>1, <1>2, <1>4
  <2>3. \A i \in 1 .. Len(r) : rest[i] = r[i]
    <3> TAKE i \in 1 .. Len(r)
    <3>1. rest[i] = a[d + i]
      BY <1>3, <2>1 DEF rest
    <3>2. d + i \in 1 .. d + Len(r) /\ ~(d + i <= d) /\ d + i - d = i
      BY <1>1
    <3> QED BY <1>2, <1>4, <3>1, <3>2
  <2>4. rest \in Seq(Words) /\ Len(rest) = Len(r)
    BY <1>3, <2>1 DEF rest
  <2> QED BY <2>1, <2>2, <2>3, <2>4, SeqEqual
<1>5. ASSUME d <= n, \A i \in 1 .. d : a[i] = h[i], rest = r PROVE a = h \o r
  <2>1. Len(r) = n - d
    BY <1>3, <1>5 DEF rest
  <2>2. Len(h \o r) = n
    BY <1>1, <1>2, <2>1
  <2>3. \A i \in 1 .. n : a[i] = (h \o r)[i]
    <3> TAKE i \in 1 .. n
    <3>1. CASE i <= d
      BY <1>1, <1>2, <1>5, <2>1, <3>1
    <3>2. CASE i > d
      <4>1. i - d \in 1 .. n - d /\ d + (i - d) = i
        BY <1>1, <3>2
      <4>2. r[i - d] = a[i]
        BY <1>3, <1>5, <4>1 DEF rest
      <4>3. i \in 1 .. d + Len(r) /\ ~(i <= d)
        BY <1>1, <2>1, <3>2
      <4>4. (h \o r)[i] = r[i - d]
        BY <1>2, <4>3
      <4> QED BY <4>2, <4>4
    <3>3. i <= d \/ i > d
      BY <1>1
    <3> QED BY <3>1, <3>2, <3>3
  <2> QED BY <1>2, <2>2, <2>3, SeqEqual
<1> QED BY <1>4, <1>5 DEF rest

LEMMA HeadsTyped ==
  /\ \A h \in Heads : h \in Seq(Words) /\ Len(h) \in 1 .. 3
  /\ \A id \in STRING : \A w \in Forwards(id) : w \in Seq(Words) /\ Len(w) = 6
<1>1. \A h \in Heads : h \in Seq(Words) /\ Len(h) \in 1 .. 3
  <2>1. "python" \in Words /\ "-m" \in Words /\ "pymobiledevice3" \in Words
    BY DEF Words
  <2> TAKE h \in Heads
  <2>2. CASE h = <<"pymobiledevice3">>
    BY <2>1, <2>2
  <2>3. CASE h = <<"python", "pymobiledevice3">>
    BY <2>1, <2>3
  <2>4. CASE h = <<"python", "-m", "pymobiledevice3">>
    BY <2>1, <2>4
  <2> QED BY <2>2, <2>3, <2>4 DEF Heads
<1>2. ASSUME NEW id \in STRING, NEW w \in Forwards(id)
      PROVE  w \in Seq(Words) /\ Len(w) = 6
  <2>1. PICK to \in Numbers : \/ w = <<"usbmux", "forward", "--serial", id, ThePort, to>>
                              \/ w = <<"usbmux", "forward", ThePort, "--serial", id, to>>
                              \/ w = <<"usbmux", "forward", ThePort, to, "--serial", id>>
    BY DEF Forwards
  <2>2. to \in Words /\ id \in Words /\ ThePort \in Words /\ "usbmux" \in Words
        /\ "forward" \in Words /\ "--serial" \in Words
    BY DEF Words, Numbers, ThePort
  <2> HIDE DEF ThePort
  <2>3. CASE w = <<"usbmux", "forward", "--serial", id, ThePort, to>>
    BY <2>2, <2>3
  <2>4. CASE w = <<"usbmux", "forward", ThePort, "--serial", id, to>>
    BY <2>2, <2>4
  <2>5. CASE w = <<"usbmux", "forward", ThePort, to, "--serial", id>>
    BY <2>2, <2>5
  <2> QED BY <2>1, <2>3, <2>4, <2>5
<1> QED BY <1>1, <1>2

(* forwardArgv strips the three heads and nothing else.                      *)
LEMMA ForwardArgvStrips ==
  ASSUME NEW a \in Seq(Words), NEW r \in Seq(Words), r # <<>>
  PROVE  ForwardArgv(a) = r <=> \E head \in Heads : a = head \o r
<1> DEFINE n == Len(a)
           A1 == n >= 1 /\ a[1] = "pymobiledevice3"
           A2 == n >= 2 /\ a[1] = "python" /\ a[2] = "pymobiledevice3"
           A3 == n >= 3 /\ a[1] = "python" /\ a[2] = "-m" /\ a[3] = "pymobiledevice3"
<1>1. n \in Nat
  OBVIOUS
<1>2. ForwardArgv(a) = CASE A1 -> SubSeq(a, 2, n) [] A2 -> SubSeq(a, 3, n)
                         [] A3 -> SubSeq(a, 4, n) [] OTHER -> <<>>
  <2> DEFINE word(i) == IF i <= n THEN a[i] ELSE ""
  <2>1. /\ word(1) = "pymobiledevice3" <=> A1
        /\ word(1) = "python" /\ word(2) = "pymobiledevice3" <=> A2
        /\ word(1) = "python" /\ word(2) = "-m" /\ word(3) = "pymobiledevice3" <=> A3
    BY <1>1
  <2> HIDE DEF A1, A2, A3
  <2> QED BY <2>1 DEF ForwardArgv
<1>3. ASSUME NEW h \in Heads
      PROVE  a = h \o r <=> /\ Len(h) <= n /\ \A i \in 1 .. Len(h) : a[i] = h[i]
                            /\ SubSeq(a, Len(h) + 1, n) = r
  <2>1. h \in Seq(Words)
    BY HeadsTyped
  <2> QED BY <2>1, HeadAndRest
<1>4. a = <<"pymobiledevice3">> \o r <=> A1 /\ SubSeq(a, 2, n) = r
  <2> DEFINE h == <<"pymobiledevice3">>
  <2>1. h \in Heads /\ Len(h) = 1 /\ h[1] = "pymobiledevice3"
    BY DEF Heads
  <2> HIDE DEF h
  <2> QED BY <1>1, <1>3, <2>1 DEF h
<1>5. a = <<"python", "pymobiledevice3">> \o r <=> A2 /\ SubSeq(a, 3, n) = r
  <2> DEFINE h == <<"python", "pymobiledevice3">>
  <2>1. h \in Heads /\ Len(h) = 2 /\ h[1] = "python" /\ h[2] = "pymobiledevice3"
    BY DEF Heads
  <2> HIDE DEF h
  <2> QED BY <1>1, <1>3, <2>1 DEF h
<1>6. a = <<"python", "-m", "pymobiledevice3">> \o r <=> A3 /\ SubSeq(a, 4, n) = r
  <2> DEFINE h == <<"python", "-m", "pymobiledevice3">>
  <2>1. h \in Heads /\ Len(h) = 3 /\ h[1] = "python" /\ h[2] = "-m" /\ h[3] = "pymobiledevice3"
    BY DEF Heads
  <2> HIDE DEF h
  <2> QED BY <1>1, <1>3, <2>1 DEF h
<1>7. ~(A1 /\ A2) /\ ~(A1 /\ A3) /\ ~(A2 /\ A3)
  OBVIOUS
<1> HIDE DEF A1, A2, A3, n
<1>8. (\E head \in Heads : a = head \o r) <=>
        \/ a = <<"pymobiledevice3">> \o r \/ a = <<"python", "pymobiledevice3">> \o r
        \/ a = <<"python", "-m", "pymobiledevice3">> \o r
  BY DEF Heads
<1> QED BY <1>2, <1>4, <1>5, <1>6, <1>7, <1>8

LEMMA ForwardArgvTyped ==
  ASSUME NEW a \in Seq(Words)
  PROVE  ForwardArgv(a) \in Seq(Words)
<1>1. \A d \in 2 .. 4 : SubSeq(a, d, Len(a)) \in Seq(Words)
  <2> TAKE d \in 2 .. 4
  <2>1. d \in Int /\ Len(a) \in Int /\ \A i \in d .. Len(a) : a[i] \in Words
    OBVIOUS
  <2> QED BY <2>1, SubSeqProperties
<1>2. SubSeq(a, 2, Len(a)) \in Seq(Words) /\ SubSeq(a, 3, Len(a)) \in Seq(Words)
      /\ SubSeq(a, 4, Len(a)) \in Seq(Words) /\ <<>> \in Seq(Words)
  BY <1>1
<1> QED BY <1>2 DEF ForwardArgv

(* What the words after the head must be, in any order of the options.       *)
IsForward(rest, id) ==
  /\ Len(rest) = 6 /\ rest[1] = "usbmux" /\ rest[2] = "forward"
  /\ \E i \in 3 .. 5 :
       LET ports == (3 .. 6) \ {i, i + 1} IN
       /\ rest[i] = "--serial" /\ rest[i + 1] = id
       /\ \A n \in ports : rest[n] \in Numbers
       /\ \A n \in ports : (\A m \in ports : n <= m) => rest[n] = ThePort

LEMMA ForwardWords ==
  ASSUME NEW id \in STRING, NEW rest \in Seq(Words)
  PROVE  rest \in Forwards(id) <=> IsForward(rest, id)
<1> DEFINE Shape(i) ==
             LET ports == (3 .. 6) \ {i, i + 1} IN
             /\ rest[i] = "--serial" /\ rest[i + 1] = id
             /\ \A n \in ports : rest[n] \in Numbers
             /\ \A n \in ports : (\A m \in ports : n <= m) => rest[n] = ThePort
           Six == Len(rest) = 6 /\ rest[1] = "usbmux" /\ rest[2] = "forward"
<1>1. Shape(3) <=> /\ rest[3] = "--serial" /\ rest[4] = id
                   /\ rest[5] = ThePort /\ rest[6] \in Numbers
  <2>1. (3 .. 6) \ {3, 3 + 1} = {5, 6}
    OBVIOUS
  <2>2. \A n \in {5, 6} : (\A m \in {5, 6} : n <= m) <=> n = 5
    OBVIOUS
  <2> QED BY <2>1, <2>2 DEF Numbers, ThePort
<1>2. Shape(4) <=> /\ rest[4] = "--serial" /\ rest[5] = id
                   /\ rest[3] = ThePort /\ rest[6] \in Numbers
  <2>1. (3 .. 6) \ {4, 4 + 1} = {3, 6}
    OBVIOUS
  <2>2. \A n \in {3, 6} : (\A m \in {3, 6} : n <= m) <=> n = 3
    OBVIOUS
  <2> QED BY <2>1, <2>2 DEF Numbers, ThePort
<1>3. Shape(5) <=> /\ rest[5] = "--serial" /\ rest[6] = id
                   /\ rest[3] = ThePort /\ rest[4] \in Numbers
  <2>1. (3 .. 6) \ {5, 5 + 1} = {3, 4}
    OBVIOUS
  <2>2. \A n \in {3, 4} : (\A m \in {3, 4} : n <= m) <=> n = 3
    OBVIOUS
  <2> QED BY <2>1, <2>2 DEF Numbers, ThePort
<1> HIDE DEF Shape
<1>4. (\E i \in 3 .. 5 : Shape(i)) <=> Shape(3) \/ Shape(4) \/ Shape(5)
  <2>1. 3 .. 5 = {3, 4, 5}
    OBVIOUS
  <2> QED BY <2>1
<1>5. ASSUME NEW w1, NEW w2, NEW w3, NEW w4,
             w1 \in Words, w2 \in Words, w3 \in Words, w4 \in Words
      PROVE  rest = <<"usbmux", "forward", w1, w2, w3, w4>> <=>
               Six /\ rest[3] = w1 /\ rest[4] = w2 /\ rest[5] = w3 /\ rest[6] = w4
  <2> DEFINE w == <<"usbmux", "forward", w1, w2, w3, w4>>
  <2>1. Len(w) = 6 /\ w[1] = "usbmux" /\ w[2] = "forward" /\ w[3] = w1 /\ w[4] = w2
        /\ w[5] = w3 /\ w[6] = w4
    OBVIOUS
  <2>2. w \in Seq(Words)
    BY <1>5 DEF Words
  <2> HIDE DEF w
  <2>3. rest = w => Six /\ rest[3] = w1 /\ rest[4] = w2 /\ rest[5] = w3 /\ rest[6] = w4
    BY <2>1
  <2>4. ASSUME Six, rest[3] = w1, rest[4] = w2, rest[5] = w3, rest[6] = w4 PROVE rest = w
    <3>1. \A i \in 1 .. Len(rest) : rest[i] = w[i]
      BY <2>1, <2>4
    <3> QED BY <2>1, <2>2, <2>4, <3>1, SeqEqual
  <2> QED BY <2>3, <2>4 DEF w
<1>6. id \in Words /\ ThePort \in Words /\ "--serial" \in Words /\ Numbers \subseteq Words
  BY DEF Words, Numbers, ThePort
<1> HIDE DEF Six
<1>7. rest \in Forwards(id) <=>
        \E to \in Numbers : \/ rest = <<"usbmux", "forward", "--serial", id, ThePort, to>>
                            \/ rest = <<"usbmux", "forward", ThePort, "--serial", id, to>>
                            \/ rest = <<"usbmux", "forward", ThePort, to, "--serial", id>>
  BY DEF Forwards
<1>8. \A to \in Numbers :
        /\ rest = <<"usbmux", "forward", "--serial", id, ThePort, to>> <=>
             Six /\ rest[3] = "--serial" /\ rest[4] = id /\ rest[5] = ThePort /\ rest[6] = to
        /\ rest = <<"usbmux", "forward", ThePort, "--serial", id, to>> <=>
             Six /\ rest[3] = ThePort /\ rest[4] = "--serial" /\ rest[5] = id /\ rest[6] = to
        /\ rest = <<"usbmux", "forward", ThePort, to, "--serial", id>> <=>
             Six /\ rest[3] = ThePort /\ rest[4] = to /\ rest[5] = "--serial" /\ rest[6] = id
  BY <1>5, <1>6
<1>9. rest \in Forwards(id) <=> Six /\ (Shape(3) \/ Shape(4) \/ Shape(5))
  BY <1>1, <1>2, <1>3, <1>7, <1>8
<1> QED BY <1>4, <1>9 DEF Shape, Six, IsForward

(* The rule of port-ownership.ts claims a listener exactly if it runs for    *)
(* the target.                                                               *)
LEMMA OwnsExactlyItsOwn ==
  ASSUME NEW l \in Lanes, NEW p \in Programs
  PROVE  OwnsListener(Owners[l], p) <=> RunsFor(Owners[l], p)
<1> DEFINE o == Owners[l]
<1>1. /\ o.platform \in {"ios", "android"} /\ o.kind \in {"simulator", "device"} /\ o.id \in STRING
      /\ p.executables \subseteq [name : STRING, simulator : STRING]
      /\ p.argv \in Seq(STRING)
  BY PortBounds
<1> HIDE DEF o
<1>2. p.argv \in Seq(Words)
  <2>1. STRING \subseteq Words
    BY DEF Words
  <2> QED BY <1>1, <2>1, SeqMonotonic
<1>3. OwnsSimulatorCompanion(o, p) <=> [name |-> "runner", simulator |-> o.id] \in p.executables
  <2>1. ASSUME NEW x \in p.executables, x.name = "runner", x.simulator = o.id
        PROVE  [name |-> "runner", simulator |-> o.id] \in p.executables
    <3>1. x = [name |-> x.name, simulator |-> x.simulator]
      BY <1>1
    <3> QED BY <2>1, <3>1
  <2> QED BY <2>1 DEF OwnsSimulatorCompanion
<1>4. OwnsDeviceForward(o, p) <=>
        /\ \E x \in p.executables : x.name \in {"python", "pymobiledevice3"}
        /\ \E head \in Heads, words \in Forwards(o.id) : p.argv = head \o words
  <2> DEFINE rest == ForwardArgv(p.argv)
             interpreter == \E x \in p.executables : x.name \in {"pymobiledevice3", "python"}
  <2>1. rest \in Seq(Words)
    BY <1>2, ForwardArgvTyped
  <2> HIDE DEF rest
  <2>2. OwnsDeviceForward(o, p) <=> interpreter /\ rest \in Forwards(o.id)
    <3>1. OwnsDeviceForward(o, p) <=> interpreter /\ IsForward(rest, o.id)
      BY Zenon DEF OwnsDeviceForward, IsForward, rest
    <3>2. o.id \in STRING
      BY <1>1
    <3>3. rest \in Forwards(o.id) <=> IsForward(rest, o.id)
      BY <2>1, <3>2, ForwardWords
    <3> QED BY <3>1, <3>3
  <2>3. \A words \in Forwards(o.id) :
          rest = words <=> \E head \in Heads : p.argv = head \o words
    <3> TAKE words \in Forwards(o.id)
    <3>1. words \in Seq(Words) /\ words # <<>>
      <4>1. o.id \in STRING
        BY <1>1
      <4>2. words \in Seq(Words) /\ Len(words) = 6
        BY <4>1, HeadsTyped
      <4>3. ASSUME words = <<>> PROVE FALSE
        BY <4>2, <4>3
      <4> QED BY <4>2, <4>3
    <3> QED BY <1>2, <3>1, ForwardArgvStrips DEF rest
  <2> QED BY <2>2, <2>3
<1> QED BY <1>1, <1>3, <1>4 DEF OwnsListener, RunsFor, o

-----------------------------------------------------------------------------
(* The inductive invariant.                                                  *)

Serials == {Owners[l].id : l \in Lanes}
LaneSteps == {"idle", "observing", "freeing", "foreign", "freed", "error"}
LaneStates ==
  [step : LaneSteps, pids : SUBSET Pids, seen : SUBSET [pid : Pids, program : Programs],
   listed : SUBSET Serials, kill : SUBSET Pids, remove : SUBSET Serials,
   killed : SUBSET (Pids \X Programs), removed : SUBSET Serials]

PortTypes ==
  /\ process \in [Pids -> [alive : BOOLEAN, listens : BOOLEAN, program : Programs]]
  /\ rows \subseteq Serials
  /\ lane \in [Lanes -> LaneStates]
  /\ starts \in 0 .. MaxStarts
  /\ reused \in [Lanes -> SUBSET Pids]

(* What was seen under an id still runs there, unless it exited or the id    *)
(* was used again meanwhile.                                                 *)
Attributed(l) ==
  \A s \in lane[l].seen :
    s.pid \in reused[l] \/ ~process[s.pid].alive \/ process[s.pid].program = s.program

MayEnd(l, program) ==
  ~IsAdbServer(program) /\ (FreeUnowned[l] \/ OwnsListener(Owners[l], program))
MayRemove(l, r) == FreeUnowned[l] \/ OwnsForward(Owners[l], r)
Holders(l) == {s \in lane[l].seen : ~IsAdbServer(s.program)}

(* Freed is only what the rule allows, and nothing before it was applied or  *)
(* after it found a foreign holder.                                          *)
AsRuled(l) ==
  /\ lane[l].kill \subseteq {s.pid : s \in {t \in lane[l].seen : MayEnd(l, t.program)}}
  /\ \A r \in lane[l].remove \cup lane[l].removed : MayRemove(l, r)
  /\ lane[l].step \in {"idle", "observing", "foreign"} => lane[l].removed = {}
  /\ lane[l].step # "freed" => lane[l].killed = {}
  /\ lane[l].step \in {"freeing", "freed"} => \A s \in Holders(l) : MayEnd(l, s.program)
  /\ lane[l].step = "foreign" =>
       \/ \E s \in Holders(l) : ~MayEnd(l, s.program)
       \/ \E r \in lane[l].listed : ~MayRemove(l, r)

EndedOwn(l) ==
  \A k \in lane[l].killed : MayEnd(l, k[2]) \/ k[1] \in reused[l]

PortInv == PortTypes /\ \A l \in Lanes : Attributed(l) /\ AsRuled(l) /\ EndedOwn(l)

LEMMA PortStarts == PoInit => PortInv
<1> SUFFICES ASSUME PoInit PROVE PortInv
  OBVIOUS
<1>1. PortTypes
  <2>1. Gone \in [alive : BOOLEAN, listens : BOOLEAN, program : Programs]
    BY PortBounds DEF Gone
  <2>2. Fresh \in LaneStates
    BY DEF Fresh, LaneStates, LaneSteps
  <2> QED BY <2>1, <2>2, PortBounds DEF PoInit, PortTypes
<1>2. ASSUME NEW l \in Lanes PROVE lane[l] = Fresh
  BY DEF PoInit
<1>3. \A l \in Lanes : Attributed(l) /\ AsRuled(l) /\ EndedOwn(l)
  BY <1>2 DEF Attributed, AsRuled, EndedOwn, Fresh
<1> QED BY <1>1, <1>3 DEF PortInv

(* A lane that does not move: what is said of it holds if what was seen is   *)
(* still there, or gone, or its id is among the reused.                      *)
LEMMA LaneRests ==
  ASSUME PortInv, NEW l \in Lanes, lane'[l] = lane[l], reused[l] \subseteq reused'[l],
         \A s \in lane[l].seen :
           s.pid \in reused'[l] \/ ~process'[s.pid].alive \/ process'[s.pid] = process[s.pid]
  PROVE  Attributed(l)' /\ AsRuled(l)' /\ EndedOwn(l)'
<1>1. Attributed(l) /\ AsRuled(l) /\ EndedOwn(l)
  BY DEF PortInv
<1>2. Attributed(l)'
  BY <1>1 DEF Attributed
<1>3. AsRuled(l)'
  BY <1>1 DEF AsRuled, Holders, MayEnd, MayRemove
<1>4. EndedOwn(l)'
  BY <1>1 DEF EndedOwn, MayEnd
<1> QED BY <1>2, <1>3, <1>4

(* A lane that stops with an error or is not as far as to free anything.     *)
LEMMA LaneStops ==
  ASSUME PortInv, NEW l \in Lanes, lane' = [lane EXCEPT ![l].step = "error"],
         lane[l].step \in {"idle", "observing", "freeing"}, UNCHANGED <<process, starts, reused>>,
         rows' \subseteq rows
  PROVE  PortInv'
<1>1. lane \in [Lanes -> LaneStates]
  BY DEF PortInv, PortTypes
<1>2. lane'[l] = [lane[l] EXCEPT !.step = "error"] /\ \A m \in Lanes \ {l} : lane'[m] = lane[m]
  BY <1>1
<1>3. lane'[l] \in LaneStates /\ lane' \in [Lanes -> LaneStates]
  BY <1>1, <1>2 DEF LaneStates, LaneSteps
<1>4. PortTypes'
  BY <1>3 DEF PortInv, PortTypes
<1>5. lane[l] \in LaneStates /\ Attributed(l) /\ AsRuled(l) /\ EndedOwn(l)
  BY <1>1 DEF PortInv
<1>6. /\ lane'[l].step = "error" /\ lane'[l].seen = lane[l].seen /\ lane'[l].kill = lane[l].kill
      /\ lane'[l].remove = lane[l].remove /\ lane'[l].removed = lane[l].removed
      /\ lane'[l].killed = lane[l].killed /\ lane[l].killed = {}
  BY <1>2, <1>5 DEF LaneStates, AsRuled
<1>7. Attributed(l)' /\ EndedOwn(l)'
  BY <1>5, <1>6 DEF Attributed, EndedOwn
<1>8. AsRuled(l)'
  BY <1>5, <1>6 DEF AsRuled, MayEnd, MayRemove
<1>9. \A m \in Lanes \ {l} : Attributed(m)' /\ AsRuled(m)' /\ EndedOwn(m)'
  BY <1>2, LaneRests
<1> QED BY <1>4, <1>7, <1>8, <1>9 DEF PortInv

LEMMA ListsListenersKeeps == \A l \in Lanes : PortInv /\ ListsListeners(l) => PortInv'
<1> TAKE l \in Lanes
<1> SUFFICES ASSUME PortInv, ListsListeners(l) PROVE PortInv'
  OBVIOUS
<1>1. CASE Refuses(l, "error")
  BY <1>1, LaneStops DEF ListsListeners, Refuses, LaneAt
<1>2. CASE lane' = [lane EXCEPT ![l].step = "observing", ![l].pids = Listeners]
  <2>1. UNCHANGED <<process, rows, starts, reused>> /\ lane[l].step = "idle"
    BY DEF ListsListeners, LaneAt
  <2>2. lane \in [Lanes -> LaneStates] /\ lane[l] \in LaneStates
    BY DEF PortInv, PortTypes
  <2>3. /\ lane'[l] = [lane[l] EXCEPT !.step = "observing", !.pids = Listeners]
        /\ \A m \in Lanes \ {l} : lane'[m] = lane[m]
    BY <1>2, <2>2
  <2>4. lane'[l] \in LaneStates /\ lane' \in [Lanes -> LaneStates]
    <3>1. Listeners \in SUBSET Pids /\ "observing" \in LaneSteps
      BY DEF Listeners, LaneSteps
    <3>2. lane'[l] \in LaneStates
      BY <2>2, <2>3, <3>1 DEF LaneStates
    <3> QED BY <1>2, <2>2, <3>2
  <2>5. PortTypes'
    BY <2>1, <2>4 DEF PortInv, PortTypes
  <2>6. Attributed(l) /\ AsRuled(l) /\ EndedOwn(l)
    BY DEF PortInv
  <2>7. /\ lane'[l].step = "observing" /\ lane'[l].seen = lane[l].seen /\ lane'[l].kill = lane[l].kill
        /\ lane'[l].remove = lane[l].remove /\ lane'[l].removed = lane[l].removed
        /\ lane'[l].killed = lane[l].killed
    BY <2>2, <2>3 DEF LaneStates
  <2>8. Attributed(l)' /\ EndedOwn(l)'
    BY <2>1, <2>6, <2>7 DEF Attributed, EndedOwn
  <2>9. AsRuled(l)'
    BY <2>1, <2>6, <2>7 DEF AsRuled, MayEnd, MayRemove
  <2>10. \A m \in Lanes \ {l} : Attributed(m)' /\ AsRuled(m)' /\ EndedOwn(m)'
    BY <2>1, <2>3, LaneRests
  <2> QED BY <2>5, <2>8, <2>9, <2>10 DEF PortInv
<1> QED BY <1>1, <1>2 DEF ListsListeners

LEMMA ObservesProcessKeeps == \A l \in Lanes : PortInv /\ ObservesProcess(l) => PortInv'
<1> TAKE l \in Lanes
<1> SUFFICES ASSUME PortInv, ObservesProcess(l) PROVE PortInv'
  OBVIOUS
<1>1. PICK pid \in lane[l].pids :
        /\ lane[l].step = "observing" /\ UNCHANGED <<process, rows, starts, reused>>
        /\ LET rest == [lane EXCEPT ![l].pids = @ \ {pid}] IN
           \/ /\ process[pid].alive
              /\ lane' = [rest EXCEPT ![l].seen = @ \union {[pid |-> pid, program |-> process[pid].program]}]
           \/ ~process[pid].alive /\ lane' = rest
           \/ Refuses(l, "error")
  BY DEF ObservesProcess, LaneAt
<1>2. CASE Refuses(l, "error")
  BY <1>1, <1>2, LaneStops DEF Refuses
<1>3. CASE ~Refuses(l, "error")
  <2> DEFINE now == [pid |-> pid, program |-> process[pid].program]
  <2>1. lane \in [Lanes -> LaneStates] /\ lane[l] \in LaneStates
    BY DEF PortInv, PortTypes
  <2>2. pid \in Pids /\ process[pid].program \in Programs
    BY <1>1, <2>1 DEF PortInv, PortTypes, LaneStates
  <2>3. PICK new \in {{}, {now}} :
          /\ lane'[l] = [lane[l] EXCEPT !.pids = @ \ {pid}, !.seen = @ \cup new]
          /\ \A m \in Lanes \ {l} : lane'[m] = lane[m]
          /\ lane' = [lane EXCEPT ![l] = lane'[l]]
    <3>1. CASE process[pid].alive
      <4>1. lane' = [lane EXCEPT ![l].pids = @ \ {pid}, ![l].seen = @ \cup {now}]
        BY <1>1, <1>3, <2>1, <3>1
      <4>2. lane'[l] = [lane[l] EXCEPT !.pids = @ \ {pid}, !.seen = @ \cup {now}]
        BY <2>1, <4>1
      <4> QED BY <2>1, <4>1, <4>2
    <3>2. CASE ~process[pid].alive
      <4>1. lane' = [lane EXCEPT ![l].pids = @ \ {pid}]
        BY <1>1, <1>3, <3>2
      <4>2. lane'[l] = [lane[l] EXCEPT !.pids = @ \ {pid}, !.seen = @ \cup {}]
        BY <2>1, <4>1 DEF LaneStates
      <4> QED BY <2>1, <4>1, <4>2
    <3> QED BY <3>1, <3>2
  <2>4. /\ lane'[l].step = "observing" /\ lane'[l].seen = lane[l].seen \cup new
        /\ lane'[l].kill = lane[l].kill
        /\ lane'[l].remove = lane[l].remove /\ lane'[l].removed = lane[l].removed
        /\ lane'[l].killed = lane[l].killed
    BY <1>1, <2>1, <2>3 DEF LaneStates
  <2>5. now \in [pid : Pids, program : Programs]
    BY <2>2
  <2>6. lane'[l] \in LaneStates
    <3>1. lane[l].seen \cup new \in SUBSET [pid : Pids, program : Programs]
      BY <2>1, <2>3, <2>5 DEF LaneStates
    <3>2. lane[l].pids \ {pid} \in SUBSET Pids
      BY <2>1 DEF LaneStates
    <3> HIDE DEF now
    <3> QED BY <2>1, <2>3, <3>1, <3>2 DEF LaneStates
  <2>7. lane' \in [Lanes -> LaneStates]
    BY <2>1, <2>3, <2>6
  <2>8. PortTypes'
    BY <1>1, <2>7 DEF PortInv, PortTypes
  <2>9. Attributed(l) /\ AsRuled(l) /\ EndedOwn(l)
    BY DEF PortInv
  <2>10. Attributed(l)'
    <3>1. now.pid = pid /\ now.program = process[pid].program
      OBVIOUS
    <3> HIDE DEF now
    <3> QED BY <1>1, <2>3, <2>4, <2>9, <3>1 DEF Attributed
  <2>11. EndedOwn(l)' /\ AsRuled(l)'
    <3> HIDE DEF now
    <3>1. EndedOwn(l)'
      BY <1>1, <2>4, <2>9 DEF EndedOwn, MayEnd
    <3>2. AsRuled(l)'
      BY <1>1, <2>4, <2>9 DEF AsRuled, MayEnd, MayRemove
    <3> QED BY <3>1, <3>2
  <2>12. \A m \in Lanes \ {l} : Attributed(m)' /\ AsRuled(m)' /\ EndedOwn(m)'
    BY <1>1, <2>3, LaneRests
  <2> QED BY <2>8, <2>10, <2>11, <2>12 DEF PortInv
<1> QED BY <1>2, <1>3

LEMMA ListsForwardsKeeps == \A l \in Lanes : PortInv /\ ListsForwards(l) => PortInv'
<1> TAKE l \in Lanes
<1> SUFFICES ASSUME PortInv, ListsForwards(l) PROVE PortInv'
  OBVIOUS
<1>1. /\ lane[l].step = "observing" /\ UNCHANGED <<process, rows, starts, reused>>
  BY DEF ListsForwards, LaneAt
<1>2. PICK listed \in {rows, {}} :
        LET plan == Classify(l, lane[l].seen, listed) IN
        lane' = [lane EXCEPT ![l] =
          [@ EXCEPT !.step = IF plan.foreign THEN "foreign" ELSE "freeing",
                    !.listed = listed, !.kill = plan.kill, !.remove = plan.remove]]
  BY DEF ListsForwards
<1> DEFINE seen == lane[l].seen
           plan == Classify(l, seen, listed)
<1>3. /\ plan.kill = {s.pid : s \in {t \in seen : MayEnd(l, t.program)}}
      /\ plan.remove = {r \in listed : MayRemove(l, r)}
      /\ plan.foreign <=> \/ \E s \in Holders(l) : ~MayEnd(l, s.program)
                         \/ \E r \in listed : ~MayRemove(l, r)
  <2> DEFINE listeners == {s \in seen : ~IsAdbServer(s.program)}
             own == {s \in listeners : FreeUnowned[l] \/ OwnsListener(Owners[l], s.program)}
             removed == {r \in listed : FreeUnowned[l] \/ OwnsForward(Owners[l], r)}
  <2>1. /\ plan.kill = {s.pid : s \in own} /\ plan.remove = removed
        /\ plan.foreign = ((listeners \ own) # {} \/ listed \ removed # {})
    BY DEF Classify
  <2>2. own = {t \in seen : MayEnd(l, t.program)} /\ listeners = Holders(l)
    BY DEF MayEnd, Holders
  <2>3. removed = {r \in listed : MayRemove(l, r)}
    BY DEF MayRemove
  <2>4. listeners \ own # {} <=> \E s \in Holders(l) : ~MayEnd(l, s.program)
    BY DEF MayEnd, Holders
  <2>5. listed \ removed # {} <=> \E r \in listed : ~MayRemove(l, r)
    BY <2>3
  <2> HIDE DEF plan, own, listeners, removed
  <2> QED BY <2>1, <2>2, <2>3, <2>4, <2>5
<1>4. lane \in [Lanes -> LaneStates] /\ lane[l] \in LaneStates /\ rows \subseteq Serials
  BY DEF PortInv, PortTypes
<1> HIDE DEF plan
<1>5. lane' = [lane EXCEPT ![l] =
          [@ EXCEPT !.step = IF plan.foreign THEN "foreign" ELSE "freeing",
                    !.listed = listed, !.kill = plan.kill, !.remove = plan.remove]]
  BY <1>2 DEF plan
<1>6. /\ lane'[l] = [lane[l] EXCEPT !.step = IF plan.foreign THEN "foreign" ELSE "freeing",
                    !.listed = listed, !.kill = plan.kill, !.remove = plan.remove]
      /\ \A m \in Lanes \ {l} : lane'[m] = lane[m]
  BY <1>4, <1>5
<1>7. /\ lane'[l].step = (IF plan.foreign THEN "foreign" ELSE "freeing")
      /\ lane'[l].listed = listed /\ lane'[l].kill = plan.kill /\ lane'[l].remove = plan.remove
      /\ lane'[l].seen = seen /\ lane'[l].removed = lane[l].removed
      /\ lane'[l].killed = lane[l].killed
  BY <1>4, <1>6 DEF LaneStates
<1>8. plan.kill \in SUBSET Pids /\ plan.remove \in SUBSET Serials /\ listed \in SUBSET Serials
  BY <1>2, <1>3, <1>4 DEF LaneStates
<1>9. lane'[l] \in LaneStates
  <2>1. (IF plan.foreign THEN "foreign" ELSE "freeing") \in LaneSteps
    BY DEF LaneSteps
  <2> QED BY <1>4, <1>6, <1>8, <2>1 DEF LaneStates
<1>10. PortTypes'
  <2>1. lane' \in [Lanes -> LaneStates]
    BY <1>4, <1>5, <1>9
  <2> QED BY <1>1, <2>1 DEF PortInv, PortTypes
<1>11. Attributed(l) /\ AsRuled(l) /\ EndedOwn(l)
  BY DEF PortInv
<1>12. Attributed(l)' /\ EndedOwn(l)'
  BY <1>1, <1>7, <1>11 DEF Attributed, EndedOwn, MayEnd
<1>13. AsRuled(l)'
  <2>1. lane[l].removed = {} /\ lane[l].killed = {}
    BY <1>1, <1>11 DEF AsRuled
  <2>2. /\ Holders(l)' = Holders(l) /\ \A p : MayEnd(l, p)' <=> MayEnd(l, p)
        /\ \A r : MayRemove(l, r)' <=> MayRemove(l, r)
    BY <1>7 DEF Holders, MayEnd, MayRemove
  <2>3. lane'[l].kill \subseteq {s.pid : s \in {t \in lane'[l].seen : MayEnd(l, t.program)}}
    BY <1>3, <1>7
  <2>4. \A r \in lane'[l].remove \cup lane'[l].removed : MayRemove(l, r)
    BY <1>3, <1>7, <2>1
  <2>5. lane'[l].removed = {} /\ lane'[l].killed = {}
    BY <1>7, <2>1
  <2>6. CASE plan.foreign
    BY <1>3, <1>7, <2>2, <2>3, <2>4, <2>5, <2>6 DEF AsRuled, MayEnd, MayRemove
  <2>7. CASE ~plan.foreign
    BY <1>3, <1>7, <2>2, <2>3, <2>4, <2>5, <2>7 DEF AsRuled, MayEnd, MayRemove
  <2> QED BY <2>6, <2>7
<1>14. \A m \in Lanes \ {l} : Attributed(m)' /\ AsRuled(m)' /\ EndedOwn(m)'
  BY <1>1, <1>6, LaneRests
<1> QED BY <1>10, <1>12, <1>13, <1>14 DEF PortInv

LEMMA RemovesForwardKeeps == \A l \in Lanes : PortInv /\ RemovesForward(l) => PortInv'
<1> TAKE l \in Lanes
<1> SUFFICES ASSUME PortInv, RemovesForward(l) PROVE PortInv'
  OBVIOUS
<1>1. PICK serial \in lane[l].remove :
        /\ lane[l].step = "freeing" /\ UNCHANGED <<process, starts, reused>>
        /\ \/ /\ lane' = [lane EXCEPT ![l].remove = @ \ {serial}, ![l].removed = @ \union {serial}]
              /\ rows' \in {rows, rows \ {serial}}
           \/ Refuses(l, "error") /\ UNCHANGED rows
  BY DEF RemovesForward, LaneAt
<1>2. CASE Refuses(l, "error")
  BY <1>1, <1>2, LaneStops DEF Refuses
<1>3. CASE ~Refuses(l, "error")
  <2>1. lane \in [Lanes -> LaneStates] /\ lane[l] \in LaneStates /\ rows \subseteq Serials
    BY DEF PortInv, PortTypes
  <2>2. /\ lane'[l] = [lane[l] EXCEPT !.remove = @ \ {serial}, !.removed = @ \union {serial}]
        /\ \A m \in Lanes \ {l} : lane'[m] = lane[m]
        /\ rows' \subseteq rows
    BY <1>1, <1>3, <2>1
  <2>3. /\ lane'[l].step = "freeing" /\ lane'[l].seen = lane[l].seen /\ lane'[l].kill = lane[l].kill
        /\ lane'[l].remove = lane[l].remove \ {serial} /\ lane'[l].removed = lane[l].removed \cup {serial}
        /\ lane'[l].killed = lane[l].killed
    BY <1>1, <2>1, <2>2 DEF LaneStates
  <2>4. lane[l].remove \ {serial} \in SUBSET Serials /\ lane[l].removed \cup {serial} \in SUBSET Serials
    BY <1>1, <2>1 DEF LaneStates
  <2>5. lane'[l] \in LaneStates
    BY <2>1, <2>2, <2>4 DEF LaneStates
  <2>6. PortTypes'
    <3>1. lane' \in [Lanes -> LaneStates]
      BY <1>1, <1>3, <2>1, <2>5
    <3> QED BY <1>1, <2>1, <2>2, <3>1 DEF PortInv, PortTypes
  <2>7. Attributed(l) /\ AsRuled(l) /\ EndedOwn(l)
    BY DEF PortInv
  <2>8. Attributed(l)' /\ EndedOwn(l)'
    BY <1>1, <2>3, <2>7 DEF Attributed, EndedOwn, MayEnd
  <2>9. AsRuled(l)'
    <3>1. lane'[l].remove \cup lane'[l].removed = lane[l].remove \cup lane[l].removed
      BY <1>1, <2>3
    <3>2. Holders(l)' = Holders(l)
      BY <2>3 DEF Holders
    <3> QED BY <1>1, <2>3, <2>7, <3>1, <3>2 DEF AsRuled, MayEnd, MayRemove
  <2>10. \A m \in Lanes \ {l} : Attributed(m)' /\ AsRuled(m)' /\ EndedOwn(m)'
    BY <1>1, <2>2, LaneRests
  <2> QED BY <2>6, <2>8, <2>9, <2>10 DEF PortInv
<1> QED BY <1>2, <1>3

LEMMA KillsListenersKeeps == \A l \in Lanes : PortInv /\ KillsListeners(l) => PortInv'
<1> TAKE l \in Lanes
<1> SUFFICES ASSUME PortInv, KillsListeners(l) PROVE PortInv'
  OBVIOUS
<1> DEFINE struck == {<<pid, process[pid].program>> : pid \in {k \in lane[l].kill : process[k].alive}}
<1>1. /\ lane[l].step = "freeing" /\ UNCHANGED <<rows, starts, reused>>
      /\ lane' = [lane EXCEPT ![l].step = "freed", ![l].killed = struck]
  BY DEF KillsListeners, LaneAt
<1>2. PICK ignore \in SUBSET lane[l].kill :
        process' = [pid \in Pids |-> IF pid \in lane[l].kill \ ignore THEN Gone ELSE process[pid]]
  BY DEF KillsListeners
<1>3. /\ lane \in [Lanes -> LaneStates] /\ lane[l] \in LaneStates
      /\ process \in [Pids -> [alive : BOOLEAN, listens : BOOLEAN, program : Programs]]
  BY DEF PortInv, PortTypes
<1>4. struck \in SUBSET (Pids \X Programs)
  BY <1>3 DEF LaneStates
<1>5. \A k \in struck : k[1] \in lane[l].kill /\ process[k[1]].alive /\ process[k[1]].program = k[2]
  OBVIOUS
<1> HIDE DEF struck
<1>6. /\ lane'[l] = [lane[l] EXCEPT !.step = "freed", !.killed = struck]
      /\ \A m \in Lanes \ {l} : lane'[m] = lane[m]
  BY <1>1, <1>3
<1>7. /\ lane'[l].step = "freed" /\ lane'[l].seen = lane[l].seen /\ lane'[l].kill = lane[l].kill
      /\ lane'[l].remove = lane[l].remove /\ lane'[l].removed = lane[l].removed
      /\ lane'[l].killed = struck
  BY <1>3, <1>6 DEF LaneStates
<1>8. PortTypes'
  <2>1. Gone \in [alive : BOOLEAN, listens : BOOLEAN, program : Programs]
    BY PortBounds DEF Gone
  <2>2. process' \in [Pids -> [alive : BOOLEAN, listens : BOOLEAN, program : Programs]]
    BY <1>2, <1>3, <2>1
  <2>3. lane'[l] \in LaneStates
    BY <1>3, <1>4, <1>6 DEF LaneStates, LaneSteps
  <2>4. lane' \in [Lanes -> LaneStates]
    BY <1>1, <1>3, <2>3
  <2> QED BY <1>1, <2>2, <2>4 DEF PortInv, PortTypes
<1>9. Attributed(l) /\ AsRuled(l) /\ EndedOwn(l)
  BY DEF PortInv
<1>10. \A pid \in Pids : ~process'[pid].alive \/ process'[pid] = process[pid]
  BY <1>2 DEF Gone
<1>11. \A m \in Lanes : \A s \in lane[m].seen : ~process'[s.pid].alive \/ process'[s.pid] = process[s.pid]
  <2>1. \A m \in Lanes : \A s \in lane[m].seen : s.pid \in Pids
    BY <1>3 DEF LaneStates
  <2> QED BY <1>10, <2>1
<1>12. Attributed(l)'
  BY <1>1, <1>7, <1>9, <1>11 DEF Attributed
<1>13. EndedOwn(l)'
  <2> SUFFICES ASSUME NEW k \in struck PROVE MayEnd(l, k[2]) \/ k[1] \in reused[l]
    BY <1>1, <1>7 DEF EndedOwn, MayEnd
  <2>1. PICK s \in lane[l].seen : s.pid = k[1] /\ MayEnd(l, s.program)
    BY <1>5, <1>9 DEF AsRuled
  <2>2. k[1] \in reused[l] \/ process[k[1]].program = s.program
    BY <1>5, <1>9, <2>1 DEF Attributed
  <2> QED BY <1>5, <2>1, <2>2
<1>14. AsRuled(l)'
  <2>1. Holders(l)' = Holders(l)
    BY <1>7 DEF Holders
  <2> QED BY <1>1, <1>7, <1>9, <2>1 DEF AsRuled, MayEnd, MayRemove
<1>15. \A m \in Lanes \ {l} : Attributed(m)' /\ AsRuled(m)' /\ EndedOwn(m)'
  BY <1>1, <1>6, <1>11, LaneRests
<1> QED BY <1>8, <1>12, <1>13, <1>14, <1>15 DEF PortInv

LEMMA FreesAgainKeeps == \A l \in Lanes : PortInv /\ FreesAgain(l) => PortInv'
<1> TAKE l \in Lanes
<1> SUFFICES ASSUME PortInv, FreesAgain(l) PROVE PortInv'
  OBVIOUS
<1>1. /\ lane \in [Lanes -> LaneStates] /\ reused \in [Lanes -> SUBSET Pids]
  BY DEF PortInv, PortTypes
<1>2. /\ lane'[l] = Fresh /\ \A m \in Lanes \ {l} : lane'[m] = lane[m] /\ reused'[m] = reused[m]
      /\ UNCHANGED <<process, rows, starts>>
  BY <1>1 DEF FreesAgain
<1>3. PortTypes'
  <2>1. Fresh \in LaneStates
    BY DEF Fresh, LaneStates, LaneSteps
  <2>2. lane' \in [Lanes -> LaneStates] /\ reused' \in [Lanes -> SUBSET Pids]
    BY <1>1, <2>1 DEF FreesAgain
  <2> QED BY <1>2, <2>2 DEF PortInv, PortTypes
<1>4. Attributed(l)' /\ AsRuled(l)' /\ EndedOwn(l)'
  BY <1>2 DEF Attributed, AsRuled, EndedOwn, Fresh
<1>5. \A m \in Lanes \ {l} : Attributed(m)' /\ AsRuled(m)' /\ EndedOwn(m)'
  BY <1>2, LaneRests
<1> QED BY <1>3, <1>4, <1>5 DEF PortInv

LEMMA ProcessStartsKeeps ==
  \A pid \in Pids, program \in Programs : PortInv /\ ProcessStarts(pid, program) => PortInv'
<1> TAKE pid \in Pids, program \in Programs
<1> SUFFICES ASSUME PortInv, ProcessStarts(pid, program) PROVE PortInv'
  OBVIOUS
<1>1. /\ lane \in [Lanes -> LaneStates] /\ reused \in [Lanes -> SUBSET Pids]
      /\ process \in [Pids -> [alive : BOOLEAN, listens : BOOLEAN, program : Programs]]
      /\ starts \in 0 .. MaxStarts /\ MaxStarts \in Nat
  BY PortBounds DEF PortInv, PortTypes
<1>2. PICK listens \in {FALSE, Listeners = {}} :
        process' = [process EXCEPT ![pid] = [alive |-> TRUE, listens |-> listens, program |-> program]]
  BY DEF ProcessStarts
<1>3. /\ starts < MaxStarts /\ starts' = starts + 1 /\ UNCHANGED <<rows, lane>>
      /\ reused' = [l \in Lanes |-> IF pid \in lane[l].pids \union {s.pid : s \in lane[l].seen}
                                    THEN reused[l] \union {pid} ELSE reused[l]]
  BY DEF ProcessStarts
<1>4. PortTypes'
  <2>1. listens \in BOOLEAN
    BY <1>2
  <2>2. process' \in [Pids -> [alive : BOOLEAN, listens : BOOLEAN, program : Programs]]
    BY <1>1, <1>2, <2>1
  <2>3. reused' \in [Lanes -> SUBSET Pids]
    BY <1>1, <1>3
  <2>4. starts' \in 0 .. MaxStarts
    BY <1>1, <1>3
  <2> QED BY <1>3, <2>2, <2>3, <2>4 DEF PortInv, PortTypes
<1>5. ASSUME NEW m \in Lanes
      PROVE  /\ reused[m] \subseteq reused'[m]
             /\ \A s \in lane[m].seen : s.pid \in reused'[m] \/ process'[s.pid] = process[s.pid]
  <2>1. reused'[m] = IF pid \in lane[m].pids \union {s.pid : s \in lane[m].seen}
                     THEN reused[m] \union {pid} ELSE reused[m]
    BY <1>3
  <2>2. \A s \in lane[m].seen : s.pid = pid => pid \in reused'[m]
    BY <2>1
  <2>3. \A s \in lane[m].seen : s.pid # pid => process'[s.pid] = process[s.pid]
    <3>1. \A s \in lane[m].seen : s.pid \in Pids
      BY <1>1 DEF LaneStates
    <3> QED BY <1>1, <1>2, <3>1
  <2> QED BY <2>1, <2>2, <2>3
<1>6. \A m \in Lanes : Attributed(m)' /\ AsRuled(m)' /\ EndedOwn(m)'
  BY <1>3, <1>5, LaneRests
<1> QED BY <1>4, <1>6 DEF PortInv

LEMMA ProcessExitsKeeps == \A pid \in Pids : PortInv /\ ProcessExits(pid) => PortInv'
<1> TAKE pid \in Pids
<1> SUFFICES ASSUME PortInv, ProcessExits(pid) PROVE PortInv'
  OBVIOUS
<1>1. /\ lane \in [Lanes -> LaneStates]
      /\ process \in [Pids -> [alive : BOOLEAN, listens : BOOLEAN, program : Programs]]
      /\ process' = [process EXCEPT ![pid] = Gone] /\ UNCHANGED <<rows, lane, starts, reused>>
  BY DEF PortInv, PortTypes, ProcessExits
<1>2. PortTypes'
  <2>1. Gone \in [alive : BOOLEAN, listens : BOOLEAN, program : Programs]
    BY PortBounds DEF Gone
  <2> QED BY <1>1, <2>1 DEF PortInv, PortTypes
<1>3. \A m \in Lanes : \A s \in lane[m].seen :
        ~process'[s.pid].alive \/ process'[s.pid] = process[s.pid]
  <2>1. \A m \in Lanes : \A s \in lane[m].seen : s.pid \in Pids
    BY <1>1 DEF LaneStates
  <2> QED BY <1>1, <2>1 DEF Gone
<1>4. \A m \in Lanes : Attributed(m)' /\ AsRuled(m)' /\ EndedOwn(m)'
  BY <1>1, <1>3, LaneRests
<1> QED BY <1>2, <1>4 DEF PortInv

LEMMA ForwardAddedKeeps == \A l \in Lanes : PortInv /\ ForwardAdded(l) => PortInv'
<1> TAKE l \in Lanes
<1> SUFFICES ASSUME PortInv, ForwardAdded(l) PROVE PortInv'
  OBVIOUS
<1>1. /\ starts < MaxStarts /\ starts' = starts + 1 /\ rows' = {Owners[l].id}
      /\ UNCHANGED <<process, lane, reused>>
  BY DEF ForwardAdded
<1>2. PortTypes'
  <2>1. starts' \in 0 .. MaxStarts
    BY <1>1, PortBounds DEF PortInv, PortTypes
  <2> QED BY <1>1, <2>1 DEF PortInv, PortTypes, Serials
<1>3. \A m \in Lanes : Attributed(m)' /\ AsRuled(m)' /\ EndedOwn(m)'
  BY <1>1, LaneRests
<1> QED BY <1>2, <1>3 DEF PortInv

LEMMA PortKeeps == PortInv /\ [PoNext]_portVars => PortInv'
<1> SUFFICES ASSUME PortInv, [PoNext]_portVars PROVE PortInv'
  OBVIOUS
<1>1. CASE UNCHANGED portVars
  <2>1. UNCHANGED <<process, rows, lane, starts, reused>>
    BY <1>1 DEF portVars
  <2>2. PortTypes'
    BY <2>1 DEF PortInv, PortTypes
  <2>3. \A m \in Lanes : Attributed(m)' /\ AsRuled(m)' /\ EndedOwn(m)'
    BY <2>1, LaneRests
  <2> QED BY <2>2, <2>3 DEF PortInv
<1>2. CASE PoNext
  BY <1>2, ListsListenersKeeps, ObservesProcessKeeps, ListsForwardsKeeps, RemovesForwardKeeps,
     KillsListenersKeeps, FreesAgainKeeps, ProcessStartsKeeps, ProcessExitsKeeps,
     ForwardAddedKeeps DEF PoNext
<1> QED BY <1>1, <1>2

LEMMA PortInvTyped == PortInv => PoTypeOK
<1> SUFFICES ASSUME PortInv PROVE PoTypeOK
  OBVIOUS
<1>1. \A l \in Lanes : lane[l] \in LaneStates
  BY DEF PortInv, PortTypes
<1>2. \A l \in Lanes : /\ lane[l].pids \subseteq Pids /\ lane[l].kill \subseteq Pids
                       /\ lane[l].step \in {"idle", "observing", "freeing", "foreign", "freed", "error"}
  BY <1>1 DEF LaneStates, LaneSteps
<1>3. DOMAIN process = Pids /\ \A pid \in Pids : process[pid].program \in Programs
  BY DEF PortInv, PortTypes
<1> QED BY <1>2, <1>3 DEF PoTypeOK, PortInv, PortTypes, Serials

LEMMA PortInvKept == PortInv => PortKept
<1> SUFFICES ASSUME PortInv PROVE PortKept
  OBVIOUS
<1>1. \A l \in Lanes : AsRuled(l) /\ EndedOwn(l) /\ lane[l] \in LaneStates
  BY DEF PortInv, PortTypes
<1>2. \A l \in Lanes : \A s \in lane[l].seen : s.program \in Programs
  BY <1>1 DEF LaneStates
<1>3. \A l \in Lanes : \A k \in lane[l].killed : k[2] \in Programs
  BY <1>1 DEF LaneStates
<1>4. ASSUME NEW l \in Lanes, NEW p \in Programs
      PROVE  /\ MayEnd(l, p) => ~IsAdbServer(p)
             /\ MayEnd(l, p) /\ ~FreeUnowned[l] => RunsFor(Owners[l], p)
             /\ ~MayEnd(l, p) /\ ~IsAdbServer(p) => ~RunsFor(Owners[l], p)
  BY OwnsExactlyItsOwn DEF MayEnd
<1>5. \A l \in Lanes : \A r : MayRemove(l, r) /\ ~FreeUnowned[l] => r = Owners[l].id
  BY DEF MayRemove, OwnsForward
<1>6. \A l \in Lanes : \A r : ~MayRemove(l, r) => r # Owners[l].id \/ Owners[l].platform = "ios"
  BY PortBounds DEF MayRemove, OwnsForward
<1>7. OthersLeftAlone
  <2> SUFFICES ASSUME NEW l \in Lanes
               PROVE  /\ ~FreeUnowned[l] =>
                           /\ \A k \in lane[l].killed : RunsFor(Owners[l], k[2]) \/ k[1] \in reused[l]
                           /\ lane[l].removed \subseteq {Owners[l].id}
                      /\ \A k \in lane[l].killed : ~IsAdbServer(k[2]) \/ k[1] \in reused[l]
                      /\ LaneAt(l, "foreign") =>
                           /\ lane[l].killed = {} /\ lane[l].removed = {}
                           /\ \/ \E s \in lane[l].seen : ~RunsFor(Owners[l], s.program)
                              \/ \E r \in lane[l].listed : r # Owners[l].id \/ Owners[l].platform = "ios"
    BY DEF OthersLeftAlone
  <2>1. \A k \in lane[l].killed : /\ ~IsAdbServer(k[2]) \/ k[1] \in reused[l]
                                  /\ ~FreeUnowned[l] => RunsFor(Owners[l], k[2]) \/ k[1] \in reused[l]
    BY <1>1, <1>3, <1>4 DEF EndedOwn
  <2>2. ~FreeUnowned[l] => lane[l].removed \subseteq {Owners[l].id}
    BY <1>1, <1>5 DEF AsRuled
  <2>3. LaneAt(l, "foreign") => lane[l].killed = {} /\ lane[l].removed = {}
    BY <1>1 DEF AsRuled, LaneAt
  <2>4. LaneAt(l, "foreign") =>
           \/ \E s \in lane[l].seen : ~RunsFor(Owners[l], s.program)
           \/ \E r \in lane[l].listed : r # Owners[l].id \/ Owners[l].platform = "ios"
    BY <1>1, <1>2, <1>4, <1>6 DEF AsRuled, LaneAt, Holders
  <2> QED BY <2>1, <2>2, <2>3, <2>4
<1>8. NothingForeignIgnored
  BY <1>1, <1>2, <1>4 DEF NothingForeignIgnored, AsRuled, Holders, LaneAt
<1> QED BY <1>7, <1>8 DEF PortKept

-----------------------------------------------------------------------------
(* The choice of a device.                                                   *)

(* What there is on disk by the step that is next.                           *)
FilesAt(step) ==
  CASE step \in {"phones", "directory-removal"} -> {"listing"}
    [] step = "write" -> {"directory"}
    [] step = "protect" -> {"directory", "token"}
    [] step = "resolved" -> {"directory", "token", "mode"}
    [] OTHER -> {}

(* Before a device is picked, and from then on.                              *)
Choosing == {"scaffold", "simulators", "directory", "phones", "directory-removal", "serial"}
Asking == {"others", "state", "boot", "model", "mint"}
Minting == {"write", "protect", "resolved"}

ByStep ==
  LET step == resolution.step IN
  /\ step \in {"simulators", "others"} => Asks.kind = "simulator"
  /\ step = "others" => Asks.terminateOnOtherSimulators
  /\ step \in {"directory", "phones", "directory-removal"} => Asks.kind = "device"
  /\ step \in {"serial", "state", "boot", "model"} => Asks.kind = "android"
  /\ step = "scaffold" => Asks.kind # "android"
  /\ step \in Choosing => ~Picked
  /\ step \in Asking \union Minting => Picked
  /\ step \in Choosing \union (Asking \ {"mint"}) => resolution.others = {}
  /\ step # "failed" => resolution.files = FilesAt(step)

ByFailure ==
  AtStepOf("failed") =>
    /\ resolution.files = IF resolution.failedAt = "phones" THEN {} ELSE FilesAt(resolution.failedAt)
    /\ resolution.failedAt \in Choosing \union Asking \union {"write", "protect"}
    /\ resolution.failedAt \in {"write", "protect"} => Picked

BootedMeanwhile ==
  /\ Asks.kind = "android" /\ altered = 0
  /\ resolution.step \in {"model", "mint", "write", "protect", "resolved"}
  => Asked({"booted"})

WellPicked == NoneAdopted /\ ExplicitWins /\ BestAdopted

ResInv == ReTypeOK /\ ByStep /\ ByFailure /\ WellPicked /\ OthersAreOthers /\ BootedMeanwhile

LEMMA RequestsTyped ==
  Requests \subseteq [kind : {"simulator", "device", "android"}, device : Text, destination : Text,
                      adoptUnownedDevice : BOOLEAN, terminateOnOtherSimulators : BOOLEAN]
BY Listings

LEMMA DevicesNamed ==
  /\ \A i \in DOMAIN Simulators : Simulators[i].udid \in STRING /\ Simulators[i].udid # Unpicked
  /\ \A i \in DOMAIN Phones : Phones[i].udid \in STRING /\ Phones[i].udid # Unpicked
  /\ \A i \in DOMAIN Emulators : Emulators[i].serial \in STRING /\ Emulators[i].serial # Unpicked
<1>1. ASSUME NEW S, NEW list \in Seq(S), NEW i \in DOMAIN list PROVE list[i] \in S
  OBVIOUS
<1>2. \A i \in DOMAIN Simulators : Simulators[i] \in [udid : STRING, name : Text, runtime : Seq(Nat)]
  BY <1>1, Listings, Zenon
<1>3. \A i \in DOMAIN Emulators : Emulators[i] \in [serial : STRING, emulator : BOOLEAN]
  BY <1>1, Listings, Zenon
<1>4. \A i \in DOMAIN Phones :
        Phones[i] \in [udid : STRING, identifier : STRING, name : Text, model : Text,
                       platform : STRING, reality : STRING, features : SUBSET STRING]
  BY <1>1, Listings, Zenon
<1>5. \A i \in DOMAIN Simulators : Simulators[i].udid \in STRING
  BY <1>2
<1>6. \A i \in DOMAIN Phones : Phones[i].udid \in STRING
  BY <1>4
<1>7. \A i \in DOMAIN Emulators : Emulators[i].serial \in STRING
  BY <1>3
<1> QED BY <1>5, <1>6, <1>7, Listings, Zenon

LEMMA ResolutionTyped ==
  ASSUME ReTypeOK
  PROVE  /\ DOMAIN resolution = {"request", "picked", "others", "throws", "step", "files",
                                 "listed", "phones", "failedAt"}
         /\ Asks \in Requests /\ Asks.kind \in {"simulator", "device", "android"}
         /\ resolution.picked \in STRING \union {Unpicked} /\ resolution.others \in SUBSET STRING
         /\ resolution.step \in Choosing \union Asking \union Minting \union {"failed"}
BY RequestsTyped DEF ReTypeOK, Resolutions, ResolutionSteps, Asks, Choosing, Asking, Minting

(* While request, listings and pick rest, what was said of the pick holds on.*)
LEMMA PickRests ==
  ASSUME WellPicked, resolution'.request = resolution.request, resolution'.picked = resolution.picked,
         resolution'.listed = resolution.listed, resolution'.phones = resolution.phones
  PROVE  WellPicked'
<1>1. NoneAdopted'
  BY DEF WellPicked, NoneAdopted, Picked, Asks, PickedSimulators, PickedPhones
<1>2. ExplicitWins'
  BY DEF WellPicked, ExplicitWins, Picked, Asks, PickedSimulators
<1>3. BestAdopted'
  BY DEF WellPicked, BestAdopted, Picked, Asks, PickedSimulators
<1> QED BY <1>1, <1>2, <1>3 DEF WellPicked

(* And while none is picked.                                                 *)
LEMMA NonePicked == ~Picked => WellPicked
BY DEF WellPicked, NoneAdopted, ExplicitWins, BestAdopted

LEMMA ResolutionStarts == ReInit => ResInv
<1> SUFFICES ASSUME ReInit PROVE ResInv
  OBVIOUS
<1>1. PICK r \in Requests : resolution = NewResolution(r)
  BY DEF ReInit
<1>2. ReTypeOK
  <2>1. resolution.step \in {"serial", "scaffold"}
    BY <1>1 DEF NewResolution
  <2>2. /\ simState \in [DOMAIN Simulators -> {"booted", "shutdown", "gone"}]
        /\ adbState \in [DOMAIN Emulators -> {"gone", "offline", "booting", "booted"}]
        /\ pairedPhones \subseteq DOMAIN Phones /\ altered \in 0 .. MaxAltered
    BY Listings DEF ReInit
  <2>3. resolution \in Resolutions
    BY <1>1, <2>1, <2>2 DEF NewResolution, Resolutions, ResolutionSteps
  <2> QED BY <2>2, <2>3 DEF ReTypeOK
<1>3. ~Picked /\ resolution.others = {} /\ resolution.files = {} /\ resolution.request = r
  BY <1>1 DEF NewResolution, Picked
<1>4. ByStep /\ ByFailure /\ BootedMeanwhile
  BY <1>1, <1>3, RequestsTyped
     DEF ByStep, ByFailure, BootedMeanwhile, Asks, NewResolution, FilesAt, Choosing, Asking, Minting, AtStepOf
<1>5. OthersAreOthers
  BY <1>3 DEF OthersAreOthers
<1> QED BY <1>2, <1>3, <1>4, <1>5, NonePicked DEF ResInv

(* A step that fails keeps what is there and tells where it was.             *)
LEMMA FailureKeeps ==
  ASSUME ResInv, Fails, HostRests,
         resolution.step \in (Choosing \ {"phones"}) \union Asking \union {"write", "protect"}
  PROVE  ResInv'
<1>1. /\ DOMAIN resolution = {"request", "picked", "others", "throws", "step", "files",
                              "listed", "phones", "failedAt"}
      /\ UNCHANGED <<simState, pairedPhones, adbState, altered>>
  BY ResolutionTyped DEF ResInv, HostRests
<1>2. /\ resolution'.step = "failed" /\ resolution'.failedAt = resolution.step
      /\ resolution'.request = resolution.request /\ resolution'.picked = resolution.picked
      /\ resolution'.listed = resolution.listed /\ resolution'.phones = resolution.phones
      /\ resolution'.others = resolution.others /\ resolution'.files = resolution.files
  BY <1>1 DEF Fails
<1>3. ReTypeOK'
  BY <1>1 DEF ResInv, ReTypeOK, Resolutions, ResolutionSteps, Fails
<1>4. WellPicked'
  BY <1>2, PickRests DEF ResInv
<1>5. ByStep'
  BY <1>2 DEF ByStep, Choosing, Asking, Minting
<1>6. ByFailure'
  BY <1>2 DEF ByFailure, ResInv, ByStep, AtStepOf, Picked, Choosing, Asking, Minting
<1>7. OthersAreOthers'
  BY <1>2 DEF ResInv, OthersAreOthers, Asks
<1>8. BootedMeanwhile'
  BY <1>2 DEF BootedMeanwhile
<1> QED BY <1>3, <1>4, <1>5, <1>6, <1>7, <1>8 DEF ResInv

(* One that goes on without a pick or a file.                                *)
LEMMA MoveKeeps ==
  ASSUME ResInv, HostRests, NEW to, Moves(to),
         \/ AtStepOf("scaffold") /\ to = IF Asks.kind = "device" THEN "directory" ELSE "simulators"
         \/ AtStepOf("state") /\ to = "boot"
         \/ AtStepOf("boot") /\ to = "model" /\ Asked({"booted"})
         \/ AtStepOf("model") /\ to = "mint"
  PROVE  ResInv'
<1>1. /\ DOMAIN resolution = {"request", "picked", "others", "throws", "step", "files",
                              "listed", "phones", "failedAt"}
      /\ UNCHANGED <<simState, pairedPhones, adbState, altered>>
      /\ Asks.kind \in {"simulator", "device", "android"}
  BY ResolutionTyped DEF ResInv, HostRests
<1>2. /\ resolution'.step = to /\ resolution'.failedAt = resolution.failedAt
      /\ resolution'.request = resolution.request /\ resolution'.picked = resolution.picked
      /\ resolution'.listed = resolution.listed /\ resolution'.phones = resolution.phones
      /\ resolution'.others = resolution.others /\ resolution'.files = resolution.files
  BY <1>1 DEF Moves
<1>3. ReTypeOK'
  <2>1. to \in ResolutionSteps
    BY DEF ResolutionSteps
  <2> QED BY <1>1, <2>1 DEF ResInv, ReTypeOK, Resolutions, Moves
<1>4. WellPicked'
  BY <1>2, PickRests DEF ResInv
<1>5. ByStep'
  BY <1>1, <1>2 DEF ResInv, ByStep, Choosing, Asking, Minting, FilesAt, Picked, Asks, AtStepOf
<1>6. ByFailure'
  BY <1>2 DEF ByFailure, AtStepOf
<1>7. OthersAreOthers'
  BY <1>2 DEF ResInv, OthersAreOthers, Asks
<1>8. BootedMeanwhile'
  BY <1>1, <1>2 DEF ResInv, BootedMeanwhile, Asked, Asks, AtStepOf
<1> QED BY <1>3, <1>4, <1>5, <1>6, <1>7, <1>8 DEF ResInv

(* What selectSimulator picks is what was asked for.                         *)
LEMMA SimulatorAsAsked ==
  ASSUME ReTypeOK, AtStepOf("simulators"), Asks.kind = "simulator",
         NEW i \in PickSimulator(Asks, simState), NEW goesTo,
         resolution' = [resolution EXCEPT !.listed = simState, !.step = goesTo, !.picked = Simulators[i].udid]
  PROVE  WellPicked' /\ i \in DOMAIN Simulators /\ simState[i] # "gone"
<1> DEFINE r == Asks
           available == {j \in DOMAIN Simulators : simState[j] # "gone"}
           iphones == {j \in available : IsPhoneName(Simulators[j].name)}
           booted == {j \in iphones : simState[j] = "booted"}
           named == {j \in available : Simulators[j].name = r.device}
           byUdid == {j \in available : Simulators[j].udid \in ExplicitUdid(r)}
           including == {j \in available : Includes(Simulators[j].name, r.device)}
<1>1. i \in IF ExplicitUdid(r) # {} THEN First(byUdid)
            ELSE IF r.device # <<>> /\ named # {} THEN First(named)
            ELSE IF r.device # <<>> THEN First(including)
            ELSE AdoptedSimulator(r, booted, iphones)
  BY DEF PickSimulator
<1>2. /\ Asks' = r /\ resolution'.picked = Simulators[i].udid /\ resolution'.listed = simState
  BY ResolutionTyped DEF Asks
<1>3. i \in available
  BY <1>1 DEF First, Newest, AdoptedSimulator
<1>4. i \in PickedSimulators'
  BY <1>2, <1>3 DEF PickedSimulators
<1>5. NoneAdopted'
  <2>1. CASE ExplicitUdid(r) # {}
    <3>1. Simulators[i].udid \in ExplicitUdid(r)
      BY <1>1, <2>1 DEF First
    <3> QED BY <1>2, <3>1 DEF NoneAdopted, ExplicitUdid, Picked
  <2>2. CASE ExplicitUdid(r) = {} /\ r.device # <<>> /\ named # {}
    <3>1. Simulators[i].name = r.device /\ r.device \in Seq(STRING)
      BY <1>1, <2>2, ResolutionTyped, RequestsTyped DEF First, Text
    <3>2. Len(r.device) \in Nat /\ SubSeq(r.device, 0 + 1, 0 + Len(r.device)) = r.device
      BY <3>1
    <3>3. Includes(Simulators[i].name, r.device)
      BY <3>1, <3>2 DEF Includes
    <3> QED BY <1>2, <1>4, <2>2, <3>3 DEF NoneAdopted, Picked
  <2>3. CASE ExplicitUdid(r) = {} /\ r.device # <<>> /\ named = {}
    <3>1. Includes(Simulators[i].name, r.device)
      BY <1>1, <2>3 DEF First
    <3> QED BY <1>2, <1>4, <2>3, <3>1 DEF NoneAdopted, Picked
  <2>4. CASE ExplicitUdid(r) = {} /\ r.device = <<>>
    <3>1. r.adoptUnownedDevice
      BY <1>1, <2>4 DEF AdoptedSimulator
    <3> QED BY <1>2, <3>1 DEF NoneAdopted, Picked
  <2> QED BY <2>1, <2>2, <2>3, <2>4
<1>6. ExplicitWins'
  <2>1. ExplicitUdid(r) # {} => Simulators[i].udid \in ExplicitUdid(r)
    BY <1>1 DEF First
  <2>2. ExplicitUdid(r) = {} /\ r.device # <<>> =>
          \/ Simulators[i].name = r.device
          \/ \A j \in DOMAIN Simulators : simState[j] # "gone" => Simulators[j].name # r.device
    BY <1>1 DEF First
  <2>3. (ParseUdid(Asks.device) # {} => Simulators[i].udid \in ParseUdid(Asks.device))
        /\ (Asks.device = <<>> /\ ParseUdid(Asks.destination) # {} =>
              Simulators[i].udid \in ParseUdid(Asks.destination))
    <3>1. r.device = <<>> => ParseUdid(r.device) = {}
      BY DEF ParseUdid, First
    <3> QED BY <2>1, <3>1 DEF ExplicitUdid
  <2> QED BY <1>2, <1>4, <2>2, <2>3 DEF ExplicitWins, Picked
<1>7. BestAdopted'
  <2> SUFFICES ASSUME ExplicitUdid(r) = {}, r.device = <<>>
               PROVE  /\ i \in iphones
                      /\ \A j \in iphones :
                           /\ simState[j] = "booted" => simState[i] = "booted"
                           /\ simState[j] = simState[i] =>
                                ~IsNewer(Simulators[j].runtime, Simulators[i].runtime)
    BY <1>2, <1>4 DEF BestAdopted, Picked
  <2>1. i \in IF booted # {} THEN First(Newest(booted)) ELSE First(Newest(iphones))
    BY <1>1 DEF AdoptedSimulator
  <2>2. CASE booted # {}
    BY <2>1, <2>2 DEF First, Newest
  <2>3. CASE booted = {}
    BY <2>1, <2>3 DEF First, Newest
  <2> QED BY <2>2, <2>3
<1> QED BY <1>3, <1>5, <1>6, <1>7 DEF WellPicked

LEMMA SelectsSimulatorKeeps == ResInv /\ SelectsSimulator => ResInv'
<1> SUFFICES ASSUME ResInv, SelectsSimulator PROVE ResInv'
  OBVIOUS
<1> DEFINE goesTo == IF Asks.terminateOnOtherSimulators THEN "others" ELSE "mint"
<1>1. /\ AtStepOf("simulators") /\ HostRests /\ ReTypeOK
      /\ Asks.kind = "simulator" /\ resolution.others = {} /\ resolution.files = {}
  <2>1. AtStepOf("simulators") /\ HostRests
    BY DEF SelectsSimulator
  <2> QED BY <2>1 DEF ResInv, ByStep, AtStepOf, Choosing, FilesAt
<1>c. \/ \E i \in PickSimulator(Asks, simState) :
           resolution' = [resolution EXCEPT !.listed = simState, !.step = goesTo,
                                            !.picked = Simulators[i].udid]
      \/ Fails
  BY DEF SelectsSimulator, Asks
<1>n. goesTo \in {"others", "mint"} /\ (goesTo = "others" => Asks.terminateOnOtherSimulators)
  OBVIOUS
<1> HIDE DEF goesTo
<1>2. CASE Fails
  BY <1>1, <1>2, FailureKeeps DEF AtStepOf, Choosing
<1>3. ASSUME NEW i \in PickSimulator(Asks, simState),
             resolution' = [resolution EXCEPT !.listed = simState, !.step = goesTo,
                                              !.picked = Simulators[i].udid]
      PROVE  ResInv'
  <2>1. WellPicked' /\ i \in DOMAIN Simulators
    BY <1>1, <1>3, SimulatorAsAsked
  <2>2. Simulators[i].udid \in STRING /\ Simulators[i].udid # Unpicked
    BY <2>1, DevicesNamed
  <2>4. /\ resolution'.step = goesTo /\ resolution'.picked = Simulators[i].udid
        /\ resolution'.others = {} /\ resolution'.files = {} /\ Asks' = Asks
    BY <1>1, <1>3, ResolutionTyped DEF Asks
  <2>5. ReTypeOK'
    <3>1. UNCHANGED <<simState, pairedPhones, adbState, altered>> /\ goesTo \in ResolutionSteps
      BY <1>1, <1>n DEF HostRests, ResolutionSteps
    <3> QED BY <1>1, <1>3, <2>2, <3>1 DEF ReTypeOK, Resolutions
  <2>6. ByStep'
    BY <1>1, <2>2, <1>n, <2>4 DEF ByStep, Picked, Choosing, Asking, Minting, FilesAt
  <2>7. ByFailure' /\ BootedMeanwhile'
    BY <1>1, <1>n, <2>4 DEF ByFailure, BootedMeanwhile, AtStepOf
  <2>8. OthersAreOthers'
    BY <2>4 DEF OthersAreOthers
  <2> QED BY <2>1, <2>5, <2>6, <2>7, <2>8 DEF ResInv
<1> QED BY <1>c, <1>2, <1>3

LEMMA ListsOthersKeeps == ResInv /\ ListsOthers => ResInv'
<1> SUFFICES ASSUME ResInv, ListsOthers PROVE ResInv'
  OBVIOUS
<1> DEFINE others == {Simulators[i].udid : i \in {j \in DOMAIN Simulators : simState[j] = "booted"}}
                     \ {resolution.picked}
<1>1. /\ AtStepOf("others") /\ HostRests /\ ReTypeOK /\ WellPicked
      /\ Asks.kind = "simulator" /\ Asks.terminateOnOtherSimulators /\ Picked /\ resolution.files = {}
  BY DEF ListsOthers, ResInv, ByStep, AtStepOf, Asking, FilesAt
<1>2. CASE Fails
  BY <1>1, <1>2, FailureKeeps DEF AtStepOf, Asking
<1>3. CASE resolution' = [resolution EXCEPT !.step = "mint", !.others = others]
  <2>1. others \in SUBSET STRING /\ resolution.picked \notin others
    BY DevicesNamed
  <2> HIDE DEF others
  <2>2. /\ resolution'.step = "mint" /\ resolution'.picked = resolution.picked
        /\ resolution'.others = others /\ resolution'.files = {}
        /\ resolution'.request = resolution.request
        /\ resolution'.listed = resolution.listed /\ resolution'.phones = resolution.phones
    BY <1>1, <1>3, ResolutionTyped
  <2>3. ReTypeOK'
    <3>1. UNCHANGED <<simState, pairedPhones, adbState, altered>>
      BY <1>1 DEF HostRests
    <3> QED BY <1>1, <1>3, <2>1, <3>1 DEF ReTypeOK, Resolutions, ResolutionSteps
  <2>4. WellPicked'
    BY <1>1, <2>2, PickRests
  <2>5. ByStep' /\ ByFailure' /\ BootedMeanwhile'
    BY <1>1, <2>2 DEF ByStep, ByFailure, BootedMeanwhile, AtStepOf, Picked, Asks, Choosing, Asking, Minting, FilesAt
  <2>6. OthersAreOthers'
    BY <1>1, <2>1, <2>2 DEF OthersAreOthers, Asks
  <2> QED BY <2>3, <2>4, <2>5, <2>6 DEF ResInv
<1> QED BY <1>2, <1>3 DEF ListsOthers

LEMMA MakesDirectoryKeeps == ResInv /\ MakesDirectory => ResInv'
<1> SUFFICES ASSUME ResInv, MakesDirectory PROVE ResInv'
  OBVIOUS
<1>1. /\ AtStepOf("directory") /\ HostRests /\ ReTypeOK
      /\ Asks.kind = "device" /\ ~Picked /\ resolution.files = {} /\ resolution.others = {}
  BY DEF MakesDirectory, ResInv, ByStep, AtStepOf, Choosing, FilesAt
<1>2. CASE Fails
  BY <1>1, <1>2, FailureKeeps DEF AtStepOf, Choosing
<1>3. CASE resolution' = [resolution EXCEPT !.files = @ \union {"listing"}, !.step = "phones"]
  <2>1. /\ resolution'.step = "phones" /\ resolution'.picked = resolution.picked
        /\ resolution'.others = {} /\ resolution'.files = {"listing"}
        /\ resolution'.request = resolution.request
    BY <1>1, <1>3, ResolutionTyped
  <2>2. ReTypeOK'
    <3>1. UNCHANGED <<simState, pairedPhones, adbState, altered>>
      BY <1>1 DEF HostRests
    <3> QED BY <1>1, <1>3, <3>1 DEF ReTypeOK, Resolutions, ResolutionSteps
  <2>3. ~Picked'
    BY <1>1, <2>1 DEF Picked
  <2>4. ByStep' /\ ByFailure' /\ BootedMeanwhile' /\ OthersAreOthers'
    BY <1>1, <2>1, <2>3
       DEF ByStep, ByFailure, BootedMeanwhile, OthersAreOthers, AtStepOf, Asks, Choosing, Asking, Minting, FilesAt
  <2>5. WellPicked'
    BY <2>3 DEF WellPicked, NoneAdopted, ExplicitWins, BestAdopted
  <2> QED BY <2>2, <2>4, <2>5 DEF ResInv
<1> QED BY <1>2, <1>3 DEF MakesDirectory

LEMMA ReadsPhonesKeeps == ResInv /\ ReadsPhones => ResInv'
<1> SUFFICES ASSUME ResInv, ReadsPhones PROVE ResInv'
  OBVIOUS
<1>1. /\ AtStepOf("phones") /\ HostRests /\ ReTypeOK
      /\ Asks.kind = "device" /\ ~Picked /\ resolution.files = {"listing"} /\ resolution.others = {}
  BY DEF ReadsPhones, ResInv, ByStep, AtStepOf, Choosing, FilesAt
<1>2. \/ resolution' = [resolution EXCEPT !.phones = UsablePhones(pairedPhones), !.step = "directory-removal"]
      \/ resolution' = [resolution EXCEPT !.throws = TRUE, !.step = "directory-removal"]
  BY DEF ReadsPhones
<1>3. /\ resolution'.step = "directory-removal" /\ resolution'.picked = resolution.picked
      /\ resolution'.others = {} /\ resolution'.files = {"listing"}
      /\ resolution'.request = resolution.request
  BY <1>1, <1>2, ResolutionTyped
<1>4. ReTypeOK'
  <2>1. UNCHANGED <<simState, pairedPhones, adbState, altered>>
    BY <1>1 DEF HostRests
  <2>2. UsablePhones(pairedPhones) \in SUBSET DOMAIN Phones
    BY <1>1 DEF UsablePhones, ReTypeOK
  <2>3. resolution \in Resolutions
    BY <1>1 DEF ReTypeOK
  <2>4. [resolution EXCEPT !.phones = UsablePhones(pairedPhones), !.step = "directory-removal"] \in Resolutions
    BY <2>2, <2>3 DEF Resolutions, ResolutionSteps
  <2>5. [resolution EXCEPT !.throws = TRUE, !.step = "directory-removal"] \in Resolutions
    BY <2>3 DEF Resolutions, ResolutionSteps
  <2> QED BY <1>1, <1>2, <2>1, <2>4, <2>5 DEF ReTypeOK
<1>5. ~Picked'
  BY <1>1, <1>3 DEF Picked
<1>6. ByStep' /\ ByFailure' /\ BootedMeanwhile' /\ OthersAreOthers'
  BY <1>1, <1>3, <1>5
     DEF ByStep, ByFailure, BootedMeanwhile, OthersAreOthers, AtStepOf, Asks, Choosing, Asking, Minting, FilesAt
<1>7. WellPicked'
  BY <1>5 DEF WellPicked, NoneAdopted, ExplicitWins, BestAdopted
<1> QED BY <1>4, <1>6, <1>7 DEF ResInv

LEMMA RemovesDirectoryKeeps == ResInv /\ RemovesDirectory => ResInv'
<1> SUFFICES ASSUME ResInv, RemovesDirectory PROVE ResInv'
  OBVIOUS
<1> DEFINE pick == PickPhone(Asks, resolution.phones)
<1>1. /\ AtStepOf("directory-removal") /\ HostRests /\ ReTypeOK
      /\ Asks.kind = "device" /\ ~Picked /\ resolution.files = {"listing"} /\ resolution.others = {}
      /\ UNCHANGED <<simState, pairedPhones, adbState, altered>>
  <2>1. AtStepOf("directory-removal") /\ HostRests
    BY DEF RemovesDirectory
  <2> QED BY <2>1 DEF ResInv, ByStep, AtStepOf, Choosing, FilesAt, HostRests
<1>c. \/ \E i \in pick : resolution' = [[resolution EXCEPT !.files = @ \ {"listing"}]
                                            EXCEPT !.picked = Phones[i].udid, !.step = "mint"]
      \/ resolution' = [[resolution EXCEPT !.files = @ \ {"listing"}]
                           EXCEPT !.step = "failed", !.failedAt = "phones"]
      \/ Fails
  BY DEF RemovesDirectory, Asks
<1>2. CASE Fails
  BY <1>1, <1>2, FailureKeeps DEF AtStepOf, Choosing
<1>3. CASE resolution' = [[resolution EXCEPT !.files = @ \ {"listing"}]
                            EXCEPT !.step = "failed", !.failedAt = "phones"]
  <2>1. /\ resolution'.step = "failed" /\ resolution'.failedAt = "phones"
        /\ resolution'.picked = resolution.picked /\ resolution'.others = {}
        /\ resolution'.files = {} /\ resolution'.request = resolution.request
    BY <1>1, <1>3, ResolutionTyped
  <2>2. ReTypeOK'
    BY <1>1, <1>3 DEF ReTypeOK, Resolutions, ResolutionSteps
  <2>3. ~Picked'
    BY <1>1, <2>1 DEF Picked
  <2>4. ByStep' /\ ByFailure' /\ BootedMeanwhile' /\ OthersAreOthers'
    BY <1>1, <2>1, <2>3
       DEF ByStep, ByFailure, BootedMeanwhile, OthersAreOthers, AtStepOf, Asks, Choosing, Asking, Minting, FilesAt
  <2>5. WellPicked'
    BY <2>3 DEF WellPicked, NoneAdopted, ExplicitWins, BestAdopted
  <2> QED BY <2>2, <2>4, <2>5 DEF ResInv
<1>4. ASSUME NEW i \in pick,
             resolution' = [[resolution EXCEPT !.files = @ \ {"listing"}]
                              EXCEPT !.picked = Phones[i].udid, !.step = "mint"]
      PROVE  ResInv'
  <2>1. /\ i \in resolution.phones
        /\ \/ \A j \in resolution.phones : j = i
           \/ PhoneMatches(Phones[i], Asks.device)
           \/ /\ PhoneMentions(Phones[i], Asks.device)
              /\ \A j \in resolution.phones \ {i} : ~PhoneMentions(Phones[j], Asks.device)
    BY <1>4 DEF PickPhone, First
  <2>2. i \in DOMAIN Phones /\ Phones[i].udid \in STRING /\ Phones[i].udid # Unpicked
    BY <1>1, <2>1, DevicesNamed DEF ReTypeOK, Resolutions
  <2>3. /\ resolution'.step = "mint" /\ resolution'.picked = Phones[i].udid
        /\ resolution'.others = {} /\ resolution'.files = {}
        /\ resolution'.phones = resolution.phones /\ Asks' = Asks
    BY <1>1, <1>4, ResolutionTyped DEF Asks
  <2>4. ReTypeOK'
    BY <1>1, <1>4, <2>2 DEF ReTypeOK, Resolutions, ResolutionSteps
  <2>5. ByStep' /\ ByFailure' /\ BootedMeanwhile'
    BY <1>1, <2>2, <2>3
       DEF ByStep, ByFailure, BootedMeanwhile, AtStepOf, Picked, Choosing, Asking, Minting, FilesAt
  <2>6. OthersAreOthers'
    BY <2>3 DEF OthersAreOthers
  <2>7. NoneAdopted'
    <3>1. i \in PickedPhones'
      BY <2>1, <2>3 DEF PickedPhones
    <3> QED BY <1>1, <2>1, <2>3, <3>1 DEF NoneAdopted
  <2>8. ExplicitWins' /\ BestAdopted'
    BY <1>1, <2>3 DEF ExplicitWins, BestAdopted
  <2> QED BY <2>4, <2>5, <2>6, <2>7, <2>8 DEF ResInv, WellPicked
<1> HIDE DEF pick
<1> QED BY <1>c, <1>2, <1>3, <1>4

LEMMA SelectsSerialKeeps == ResInv /\ SelectsSerial => ResInv'
<1> SUFFICES ASSUME ResInv, SelectsSerial PROVE ResInv'
  OBVIOUS
<1> DEFINE answers == {i \in DOMAIN Emulators : adbState[i] # "gone" /\ Asks.device = <<Emulators[i].serial>>}
<1>1. /\ AtStepOf("serial") /\ HostRests /\ ReTypeOK
      /\ Asks.kind = "android" /\ ~Picked /\ resolution.files = {} /\ resolution.others = {}
      /\ UNCHANGED <<simState, pairedPhones, adbState, altered>>
  BY DEF SelectsSerial, ResInv, ByStep, AtStepOf, Choosing, FilesAt, HostRests
<1>2. CASE Fails
  BY <1>1, <1>2, FailureKeeps DEF AtStepOf, Choosing
<1>3. ASSUME NEW i \in IF Asks.device = <<>> THEN PickSerial(Asks, adbState) ELSE answers,
             Picks(Emulators[i].serial, "state")
      PROVE  ResInv'
  <2>1. /\ i \in DOMAIN Emulators
        /\ Asks.adoptUnownedDevice \/ Asks.device = <<Emulators[i].serial>>
    BY <1>3 DEF PickSerial, First
  <2>2. Emulators[i].serial \in STRING /\ Emulators[i].serial # Unpicked
    BY <2>1, DevicesNamed
  <2>3. /\ resolution'.step = "state" /\ resolution'.picked = Emulators[i].serial
        /\ resolution'.others = {} /\ resolution'.files = {} /\ Asks' = Asks
    BY <1>1, <1>3, ResolutionTyped DEF Asks, Picks
  <2>4. ReTypeOK'
    BY <1>1, <1>3, <2>2 DEF ReTypeOK, Resolutions, ResolutionSteps, Picks
  <2>5. ByStep' /\ ByFailure' /\ BootedMeanwhile'
    BY <1>1, <2>2, <2>3
       DEF ByStep, ByFailure, BootedMeanwhile, AtStepOf, Picked, Choosing, Asking, Minting, FilesAt
  <2>6. OthersAreOthers'
    BY <2>3 DEF OthersAreOthers
  <2>7. NoneAdopted' /\ ExplicitWins' /\ BestAdopted'
    BY <1>1, <2>1, <2>3 DEF NoneAdopted, ExplicitWins, BestAdopted
  <2> QED BY <2>4, <2>5, <2>6, <2>7 DEF ResInv, WellPicked
<1> QED BY <1>2, <1>3 DEF SelectsSerial, Asks

LEMMA ChecksDeviceKeeps == ResInv /\ ChecksDevice => ResInv'
<1> SUFFICES ASSUME ResInv, ChecksDevice PROVE ResInv'
  OBVIOUS
<1>1. HostRests
  BY DEF ChecksDevice
<1>2. CASE resolution.step \in {"state", "boot", "model"} /\ Fails
  BY <1>1, <1>2, FailureKeeps DEF Asking
<1>3. CASE AtStepOf("state") /\ Moves("boot")
  BY <1>1, <1>3, MoveKeeps
<1>4. CASE AtStepOf("boot") /\ Asked({"booted"}) /\ Moves("model")
  BY <1>1, <1>4, MoveKeeps
<1>5. CASE AtStepOf("model") /\ Moves("mint")
  BY <1>1, <1>5, MoveKeeps
<1> QED BY <1>2, <1>3, <1>4, <1>5 DEF ChecksDevice

LEMMA FindsScaffoldKeeps == ResInv /\ FindsScaffold => ResInv'
<1> SUFFICES ASSUME ResInv, FindsScaffold PROVE ResInv'
  OBVIOUS
<1>1. HostRests /\ AtStepOf("scaffold")
  BY DEF FindsScaffold
<1>2. CASE Fails
  BY <1>1, <1>2, FailureKeeps DEF Choosing, AtStepOf
<1>3. CASE Moves(IF Asks.kind = "device" THEN "directory" ELSE "simulators")
  BY <1>1, <1>3, MoveKeeps
<1> QED BY <1>2, <1>3 DEF FindsScaffold, Asks

LEMMA MintsTokenKeeps == ResInv /\ MintsToken => ResInv'
<1> SUFFICES ASSUME ResInv, MintsToken PROVE ResInv'
  OBVIOUS
<1>1. PICK made \in {<<"mint", "directory", "write">>, <<"write", "token", "protect">>,
                     <<"protect", "mode", "resolved">>} :
        /\ AtStepOf(made[1])
        /\ \/ resolution' = [resolution EXCEPT !.files = @ \union {made[2]}, !.step = made[3]]
           \/ Fails
  BY DEF MintsToken
<1>2. /\ HostRests /\ ReTypeOK /\ WellPicked /\ Picked
      /\ UNCHANGED <<simState, pairedPhones, adbState, altered>>
      /\ resolution.step \in {"mint", "write", "protect"} /\ resolution.files = FilesAt(resolution.step)
  BY <1>1 DEF MintsToken, ResInv, ByStep, AtStepOf, Asking, Minting, HostRests
<1>3. CASE Fails
  BY <1>2, <1>3, FailureKeeps DEF Asking
<1>4. CASE resolution' = [resolution EXCEPT !.files = @ \union {made[2]}, !.step = made[3]]
  <2>1. /\ made[2] \in {"directory", "token", "mode"} /\ made[3] \in {"write", "protect", "resolved"}
        /\ resolution.files \union {made[2]} = FilesAt(made[3])
    BY <1>1, <1>2 DEF AtStepOf, FilesAt
  <2>2. /\ resolution'.step = made[3] /\ resolution'.picked = resolution.picked
        /\ resolution'.others = resolution.others /\ resolution'.files = FilesAt(made[3])
        /\ resolution'.request = resolution.request
        /\ resolution'.listed = resolution.listed /\ resolution'.phones = resolution.phones
    BY <1>2, <1>4, <2>1, ResolutionTyped
  <2>3. ReTypeOK'
    BY <1>2, <1>4, <2>1 DEF ReTypeOK, Resolutions, ResolutionSteps
  <2>4. WellPicked'
    BY <1>2, <2>2, PickRests
  <2>5. ByStep' /\ ByFailure'
    BY <1>2, <2>1, <2>2 DEF ByStep, ByFailure, AtStepOf, Picked, Choosing, Asking, Minting
  <2>6. BootedMeanwhile'
    BY <1>2, <2>2 DEF ResInv, BootedMeanwhile, Asked, Asks
  <2>7. OthersAreOthers'
    BY <2>2 DEF ResInv, OthersAreOthers, Asks
  <2> QED BY <2>3, <2>4, <2>5, <2>6, <2>7 DEF ResInv
<1> QED BY <1>1, <1>3, <1>4

LEMMA HostChangesKeeps == ResInv /\ HostChanges => ResInv'
<1> SUFFICES ASSUME ResInv, HostChanges PROVE ResInv'
  OBVIOUS
<1>1. /\ altered < MaxAltered /\ altered' = altered + 1 /\ resolution' = resolution
      /\ altered \in 0 .. MaxAltered
  BY DEF HostChanges, ResInv, ReTypeOK
<1>2. ReTypeOK'
  <2>1. simState' \in [DOMAIN Simulators -> {"booted", "shutdown", "gone"}]
    BY DEF HostChanges, ResInv, ReTypeOK
  <2>2. pairedPhones' \subseteq DOMAIN Phones
    BY DEF HostChanges, ResInv, ReTypeOK
  <2>3. adbState' \in [DOMAIN Emulators -> {"gone", "offline", "booting", "booted"}]
    BY DEF HostChanges, ResInv, ReTypeOK
  <2>4. altered' \in 0 .. MaxAltered
    BY <1>1, Listings
  <2> QED BY <1>1, <2>1, <2>2, <2>3, <2>4 DEF ResInv, ReTypeOK
<1>3. WellPicked'
  BY <1>1, PickRests DEF ResInv
<1>4. ByStep' /\ ByFailure' /\ OthersAreOthers'
  BY <1>1 DEF ResInv, ByStep, ByFailure, OthersAreOthers, AtStepOf, Asks, Picked
<1>5. BootedMeanwhile'
  BY <1>1 DEF BootedMeanwhile
<1> QED BY <1>2, <1>3, <1>4, <1>5 DEF ResInv

LEMMA ResolutionKeeps == ResInv /\ [ReNext]_resolveVars => ResInv'
<1> SUFFICES ASSUME ResInv, [ReNext]_resolveVars PROVE ResInv'
  OBVIOUS
<1>1. CASE UNCHANGED resolveVars
  <2>1. UNCHANGED <<simState, pairedPhones, adbState, resolution, altered>>
    BY <1>1 DEF resolveVars
  <2>2. ReTypeOK' /\ WellPicked' /\ BootedMeanwhile'
    BY <2>1, PickRests DEF ResInv, ReTypeOK, BootedMeanwhile, Asked, Asks
  <2>3. ByStep' /\ ByFailure' /\ OthersAreOthers'
    BY <2>1 DEF ResInv, ByStep, ByFailure, OthersAreOthers, AtStepOf, Asks, Picked
  <2> QED BY <2>2, <2>3 DEF ResInv
<1>2. CASE ReNext
  BY <1>2, FindsScaffoldKeeps, SelectsSimulatorKeeps, ListsOthersKeeps, MakesDirectoryKeeps,
     ReadsPhonesKeeps, RemovesDirectoryKeeps, SelectsSerialKeeps, ChecksDeviceKeeps,
     MintsTokenKeeps, HostChangesKeeps DEF ReNext
<1> QED BY <1>1, <1>2

LEMMA ResInvAsAsked == ResInv => ResolvedAsAsked
<1> SUFFICES ASSUME ResInv PROVE ResolvedAsAsked
  OBVIOUS
<1>1. resolution.step \in Choosing \union Asking \union Minting \union {"failed"}
  BY ResolutionTyped DEF ResInv
<1>2. FilesAccountedFor
  <2>1. CASE AtStepOf("failed")
    BY <2>1 DEF ResInv, ByFailure, FilesAccountedFor, FilesAt, AtStepOf, Choosing, Asking
  <2>2. CASE ~AtStepOf("failed")
    BY <1>1, <2>2 DEF ResInv, ByStep, FilesAccountedFor, FilesAt, AtStepOf, Choosing, Asking, Minting
  <2> QED BY <2>1, <2>2
<1>3. TakenIsBooted
  BY DEF ResInv, BootedMeanwhile, TakenIsBooted, AtStepOf
<1> QED BY <1>2, <1>3 DEF ResInv, WellPicked, ResolvedAsAsked

-----------------------------------------------------------------------------
(* For any targets, programs and number of runs: every variable of freePort  *)
(* keeps its type (process-runner.ts).                                       *)
THEOREM PortIsTyped == PoSpec => []PoTypeOK
BY PortStarts, PortKeeps, PortInvTyped, PTL DEF PoSpec

(* For any targets and programs, and however processes come, go and take ids *)
(* that were used before: a run frees what is its own, never another's and   *)
(* never the adb server, and nothing at all once it saw a foreign holder     *)
(* (classifyPortHolders of port-ownership.ts, freePort of process-runner.ts).*)
THEOREM PortIsKept == PoSpec => []PortKept
BY PortStarts, PortKeeps, PortInvKept, PTL DEF PoSpec

(* For any requests, devices and changes of them meanwhile, every variable of *)
(* resolve.ts keeps its type.                                                *)
THEOREM ResolutionIsTyped == ReSpec => []ReTypeOK
<1>1. ResInv => ReTypeOK
  BY DEF ResInv
<1> QED BY ResolutionStarts, ResolutionKeeps, <1>1, PTL DEF ReSpec

(* For any requests, devices and changes of them meanwhile: no device is     *)
(* taken that the run was not told to take, what is named explicitly wins,   *)
(* other simulators are touched only where asked for and never the picked    *)
(* one, no token is made before a device is picked, and whichever step fails *)
(* leaves only what it failed to make or to remove (resolve.ts).             *)
THEOREM ResolutionIsAsAsked == ReSpec => []ResolvedAsAsked
BY ResolutionStarts, ResolutionKeeps, ResInvAsAsked, PTL DEF ReSpec

(* The runner of MCRunner is the four of them: a behaviour of it is one of   *)
(* each, so that what was proved of each holds of it.                        *)
THEOREM RunnerIsItsParts == RunnerSpec => Spec /\ PoSpec /\ HookSpec /\ ReSpec
<1>1. RunnerInit => Init /\ PoInit /\ HookInit /\ ReInit
  BY DEF RunnerInit
<1>2. [RunnerNext]_<<part, vars, portVars, hookVars, resolveVars>> =>
        [Next]_vars /\ [PoNext]_portVars /\ [HookNext]_hookVars /\ [ReNext]_resolveVars
  BY DEF RunnerNext, HookOver, Resolved
<1> QED BY <1>1, <1>2, PTL DEF RunnerSpec, Spec, PoSpec, HookSpec, ReSpec

(* What the runner starts it ends and keeps hold of, whatever a project      *)
(* contributes and wherever its steps go, whom the port belongs to it leaves *)
(* alone, and the device it takes is one it was told to take (execute.ts,    *)
(* process-runner.ts, target-hooks.ts, port-ownership.ts, resolve.ts).       *)
THEOREM OwnershipIsKept == RunnerSpec => []OwnershipKept
<1>1. PoSpec => []PortInv
  BY PortStarts, PortKeeps, PTL DEF PoSpec
<1>2. HookSpec => []HooksInv
  BY HooksStart, HooksKeep, PTL DEF HookSpec
<1>3. PortInv /\ HooksInv /\ ResolvedAsAsked => OwnershipKept
  BY PortInvKept, HooksInvKept DEF OwnershipKept
<1> QED BY <1>1, <1>2, <1>3, ResolutionIsAsAsked, RunnerIsItsParts, PTL

(* Every variable of the four keeps its type.                                *)
THEOREM RunnerIsTyped == RunnerSpec => []TypesOK
<1>1. TypeOK /\ PoTypeOK /\ HookTypeOK /\ ReTypeOK => TypesOK
  BY DEF TypesOK
<1> QED BY <1>1, TypeCorrect, PortIsTyped, HooksAreTyped, ResolutionIsTyped, RunnerIsItsParts, PTL
=============================================================================
