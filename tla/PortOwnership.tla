---------------------------- MODULE PortOwnership ----------------------------
(* freePort of the runner (runner/process-runner.ts, port-ownership.ts): who *)
(* holds the companion port, which of them belong to the target this run has *)
(* selected, and what is freed. Runs on one host, each with a device of its  *)
(* own, do this for the same port at the same time, while processes come and *)
(* go and ids of processes are used again.                                   *)
EXTENDS Naturals, Sequences, FiniteSets

CONSTANTS Lanes,        \* runs at a time
          Owners,       \* the target of each: platform, kind and identifier
          FreeUnowned,  \* companion.freeUnownedPort of each
          Programs,     \* what may run on the host: its mapped executables, its command line
          Pids,
          MaxStarts     \* bound: processes and forwards that appear on the port

ASSUME PortBounds ==
  /\ Owners \in [Lanes -> [platform : {"ios", "android"}, kind : {"simulator", "device"}, id : STRING]]
  /\ FreeUnowned \in [Lanes -> BOOLEAN]
  /\ Programs # {}
  /\ Programs \subseteq [executables : SUBSET [name : STRING, simulator : STRING], argv : Seq(STRING)]
  /\ MaxStarts \in Nat

(* A command line is the sequence of its words, a path in it reduced to its  *)
(* last component; a mapped executable is its name and the simulator below   *)
(* whose directory it lies.                                                  *)
ThePort == "8999"
Numbers == {"8999", "9000"}

-----------------------------------------------------------------------------
(* port-ownership.ts.                                                        *)

IsAdbServer(p) == p.argv # <<>> /\ p.argv[1] = "adb"

(* Mutant of OwnsSimulatorCompanion: of any simulator.                       *)
OwnsAnyCompanion(owner, p) ==
  \E x \in p.executables : x.name = "runner" /\ x.simulator # "none"

OwnsSimulatorCompanion(owner, p) ==
  \E x \in p.executables : x.name = "runner" /\ x.simulator = owner.id

(* forwardArgv: what follows pymobiledevice3, run directly, as a script of   *)
(* an interpreter, or as a module.                                           *)
ForwardArgv(argv) ==
  LET n == Len(argv)
      word(i) == IF i <= n THEN argv[i] ELSE ""
  IN CASE word(1) = "pymobiledevice3"                          -> SubSeq(argv, 2, n)
       [] word(1) = "python" /\ word(2) = "pymobiledevice3"    -> SubSeq(argv, 3, n)
       [] word(1) = "python" /\ word(2) = "-m" /\ word(3) = "pymobiledevice3" -> SubSeq(argv, 4, n)
       [] OTHER -> <<>>

(* Of the words after "usbmux forward", one --serial with a value and two     *)
(* port numbers, in any order; any other word makes it foreign.              *)
OwnsDeviceForward(owner, p) ==
  LET rest == ForwardArgv(p.argv)
  IN /\ \E x \in p.executables : x.name \in {"pymobiledevice3", "python"}
     /\ Len(rest) = 6 /\ rest[1] = "usbmux" /\ rest[2] = "forward"
     /\ \E i \in 3 .. 5 :
          LET ports == (3 .. 6) \ {i, i + 1} IN
          /\ rest[i] = "--serial" /\ rest[i + 1] = owner.id
          /\ \A n \in ports : rest[n] \in Numbers
          /\ \A n \in ports : (\A m \in ports : n <= m) => rest[n] = ThePort

OwnsListener(owner, p) ==
  /\ owner.platform = "ios"
  /\ IF owner.kind = "simulator" THEN OwnsSimulatorCompanion(owner, p) ELSE OwnsDeviceForward(owner, p)

OwnsForward(owner, serial) == owner.platform = "android" /\ serial = owner.id

(* classifyPortHolders.                                                      *)
Classify(l, seen, rows) ==
  LET listeners == {s \in seen : ~IsAdbServer(s.program)}
      own == {s \in listeners : FreeUnowned[l] \/ OwnsListener(Owners[l], s.program)}
      removed == {r \in rows : FreeUnowned[l] \/ OwnsForward(Owners[l], r)}
  IN [kill |-> {s.pid : s \in own}, remove |-> removed,
      foreign |-> (listeners \ own) # {} \/ rows \ removed # {}]

-----------------------------------------------------------------------------
VARIABLES
  process,     \* what runs under each process id, and whether it listens
  rows,        \* serials with a forward of the port at the adb server
  lane,        \* freePort of each run
  starts,
  reused       \* history: ids that another process took while a run held them for observed

portVars == <<process, rows, lane, starts, reused>>

Gone == [alive |-> FALSE, listens |-> FALSE, program |-> CHOOSE p \in Programs : TRUE]
Fresh == [step |-> "idle", pids |-> {}, seen |-> {}, listed |-> {}, kill |-> {}, remove |-> {},
          killed |-> {}, removed |-> {}]
Listeners == {pid \in Pids : process[pid].alive /\ process[pid].listens}

PoInit ==
  /\ process = [pid \in Pids |-> Gone]
  /\ rows = {}
  /\ lane = [l \in Lanes |-> Fresh]
  /\ starts = 0
  /\ reused = [l \in Lanes |-> {}]

LaneAt(l, step) == lane[l].step = step
Refuses(l, how) == lane' = [lane EXCEPT ![l].step = how]

(* freePort: the ids of the listeners. lsof may fail.                        *)
ListsListeners(l) ==
  /\ LaneAt(l, "idle")
  /\ \/ lane' = [lane EXCEPT ![l].step = "observing", ![l].pids = Listeners]
     \/ Refuses(l, "error")
  /\ UNCHANGED <<process, rows, starts, reused>>

(* observeProcess, one after the other: what runs under the id by now. One   *)
(* that is gone is dropped; one that cannot be observed ends freePort.       *)
ObservesProcess(l) ==
  \E pid \in lane[l].pids :
    LET rest == [lane EXCEPT ![l].pids = @ \ {pid}] IN
    /\ LaneAt(l, "observing")
    /\ \/ /\ process[pid].alive
          /\ lane' = [rest EXCEPT ![l].seen = @ \union {[pid |-> pid, program |-> process[pid].program]}]
       \/ ~process[pid].alive /\ lane' = rest
       \/ Refuses(l, "error")
    /\ UNCHANGED <<process, rows, starts, reused>>

(* adb forward --list; when that fails, there are none. Then the plan, and a *)
(* foreign holder ends freePort before anything is freed.                    *)
ListsForwards(l) ==
  /\ LaneAt(l, "observing") /\ lane[l].pids = {}
  /\ \E listed \in {rows, {}} :
       LET plan == Classify(l, lane[l].seen, listed) IN
       lane' = [lane EXCEPT ![l] =
         [@ EXCEPT !.step = IF plan.foreign THEN "foreign" ELSE "freeing",
                   !.listed = listed, !.kill = plan.kill, !.remove = plan.remove]]
  /\ UNCHANGED <<process, rows, starts, reused>>

(* adb forward --remove for each serial; its outcome is not looked at, but   *)
(* that adb cannot be run ends freePort.                                     *)
RemovesForward(l) ==
  \E serial \in lane[l].remove :
    /\ LaneAt(l, "freeing")
    /\ \/ /\ lane' = [lane EXCEPT ![l].remove = @ \ {serial}, ![l].removed = @ \union {serial}]
          /\ rows' \in {rows, rows \ {serial}}
       \/ Refuses(l, "error") /\ UNCHANGED rows
    /\ UNCHANGED <<process, starts, reused>>

(* SIGTERM to every id, at one go; a process may ignore it for a while.      *)
KillsListeners(l) ==
  /\ LaneAt(l, "freeing") /\ lane[l].remove = {}
  /\ lane' = [lane EXCEPT ![l].step = "freed",
                          ![l].killed = {<<pid, process[pid].program>> :
                                           pid \in {k \in lane[l].kill : process[k].alive}}]
  /\ \E ignore \in SUBSET lane[l].kill :
       process' = [pid \in Pids |-> IF pid \in lane[l].kill \ ignore THEN Gone ELSE process[pid]]
  /\ UNCHANGED <<rows, starts, reused>>

(* The next freePort of the run: before the companion, and at the end.       *)
FreesAgain(l) ==
  /\ lane[l].step \in {"error", "foreign", "freed"}
  /\ lane' = [lane EXCEPT ![l] = Fresh]
  /\ reused' = [reused EXCEPT ![l] = {}]
  /\ UNCHANGED <<process, rows, starts>>

(* A process starts, and listens if the port is free; under an id that was   *)
(* used before, too.                                                         *)
ProcessStarts(pid, program) ==
  /\ starts < MaxStarts /\ starts' = starts + 1
  /\ ~process[pid].alive
  /\ \E listens \in {FALSE, Listeners = {}} :
       process' = [process EXCEPT ![pid] = [alive |-> TRUE, listens |-> listens, program |-> program]]
  /\ reused' = [l \in Lanes |-> IF pid \in lane[l].pids \union {s.pid : s \in lane[l].seen}
                                THEN reused[l] \union {pid} ELSE reused[l]]
  /\ UNCHANGED <<rows, lane>>

ProcessExits(pid) ==
  /\ process[pid].alive
  /\ process' = [process EXCEPT ![pid] = Gone]
  /\ UNCHANGED <<rows, lane, starts, reused>>

(* A run forwards the port to its device: adb forward --no-rebind.           *)
ForwardAdded(l) ==
  /\ starts < MaxStarts /\ starts' = starts + 1
  /\ Owners[l].platform = "android" /\ rows = {}
  /\ rows' = {Owners[l].id}
  /\ UNCHANGED <<process, lane, reused>>

PoNext ==
  \/ \E l \in Lanes :
       \/ ListsListeners(l) \/ ObservesProcess(l) \/ ListsForwards(l)
       \/ RemovesForward(l) \/ KillsListeners(l) \/ FreesAgain(l) \/ ForwardAdded(l)
  \/ \E pid \in Pids : ProcessExits(pid) \/ \E program \in Programs : ProcessStarts(pid, program)

PoSpec == PoInit /\ [][PoNext]_portVars

-----------------------------------------------------------------------------
PoTypeOK ==
  /\ DOMAIN process = Pids
  /\ \A pid \in Pids : process[pid].program \in Programs
  /\ rows \subseteq {Owners[l].id : l \in Lanes}
  /\ \A l \in Lanes : /\ lane[l].pids \subseteq Pids /\ lane[l].kill \subseteq Pids
                      /\ lane[l].step \in {"idle", "observing", "freeing", "foreign", "freed", "error"}
  /\ starts \in 0..MaxStarts

(* What runs for a target, as the plans start it: the companion in its       *)
(* simulator, or a forward of the port to its device in whatever form ps     *)
(* shows it, the options of pymobiledevice3 in any order.                    *)
Heads == {<<"pymobiledevice3">>, <<"python", "pymobiledevice3">>, <<"python", "-m", "pymobiledevice3">>}
Forwards(id) ==
  {<<"usbmux", "forward", "--serial", id, ThePort, to>> : to \in Numbers} \union
  {<<"usbmux", "forward", ThePort, "--serial", id, to>> : to \in Numbers} \union
  {<<"usbmux", "forward", ThePort, to, "--serial", id>> : to \in Numbers}
RunsFor(owner, p) ==
  CASE owner.platform = "android" -> FALSE
    [] owner.platform = "ios" /\ owner.kind = "simulator" ->
         [name |-> "runner", simulator |-> owner.id] \in p.executables
    [] OTHER ->
         /\ \E x \in p.executables : x.name \in {"python", "pymobiledevice3"}
         /\ \E head \in Heads, words \in Forwards(owner.id) : p.argv = head \o words

(* A run that may free only what is its own ends no process and removes no   *)
(* forward of anybody else, not even of a run that takes the port meanwhile; *)
(* what it ends by mistake runs under an id that was used again after it was *)
(* listed. A foreign holder it saw keeps it from freeing anything, and an    *)
(* own one does not count as foreign. And the adb server is never ended.     *)
OthersLeftAlone ==
  \A l \in Lanes :
    LET own == lane[l].killed IN
    /\ ~FreeUnowned[l] =>
         /\ \A k \in own : RunsFor(Owners[l], k[2]) \/ k[1] \in reused[l]
         /\ lane[l].removed \subseteq {Owners[l].id}
    /\ \A k \in own : ~IsAdbServer(k[2]) \/ k[1] \in reused[l]
    /\ LaneAt(l, "foreign") =>
         /\ lane[l].killed = {} /\ lane[l].removed = {}
         /\ \/ \E s \in lane[l].seen : ~RunsFor(Owners[l], s.program)
            \/ \E r \in lane[l].listed : r # Owners[l].id \/ Owners[l].platform = "ios"

(* What a run's own freePort returns over: every holder it saw was its own,  *)
(* or the adb server's, or it may free any.                                  *)
NothingForeignIgnored ==
  \A l \in Lanes : LaneAt(l, "freed") /\ ~FreeUnowned[l] =>
    \A s \in lane[l].seen : RunsFor(Owners[l], s.program) \/ IsAdbServer(s.program)

PortKept == OthersLeftAlone /\ NothingForeignIgnored
=============================================================================
