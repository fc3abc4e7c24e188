----------------------------- MODULE DeviceFiles -----------------------------
(* device.files (packages/driver/src/files): pull and push of one file of    *)
(* the app's sandbox, by way of a host file system (simctl), of a staging    *)
(* directory (devicectl) or of a shell on the device (adb). Operations run   *)
(* at the same time as each other, as disconnect and connect, and as the     *)
(* app, which writes and removes the file when it likes.                     *)
(*                                                                           *)
(* Bytes are reduced to their number and to where they come from; a path is  *)
(* the sequence of its segments, as split at "/", below the container. The   *)
(* container may hold a symbolic link "d" to a directory outside. When the   *)
(* app is installed anew its container goes and another comes; a push that   *)
(* is under way may make the old path again, which nothing but this module   *)
(* then looks at: what is there is called a relic.                           *)
EXTENDS Integers, Sequences, FiniteSets

CONSTANTS MaxFileOps,   \* bound: operations at a time
          MaxObjects,   \* bound: connections, each with a DeviceFiles object
          MaxBuffer,    \* options.maxBuffer, in bytes
          Headroom,     \* READ_DIAGNOSTIC_HEADROOM
          RemotePaths,  \* the paths operations ask for
          Targets       \* the targets a device is connected with

ASSUME FileBounds ==
  /\ MaxFileOps \in Nat /\ MaxObjects \in Nat
  /\ MaxBuffer \in Nat \ {0} /\ Headroom \in Nat
  /\ RemotePaths \subseteq Seq(STRING)
  /\ Targets \subseteq [platform : {"ios", "android"}, device : BOOLEAN, app : BOOLEAN,
                        kind : {"unset", "simulator", "device", "typo"}, grammatical : BOOLEAN]

FileOps == 1..MaxFileOps
Missing == -1
Gone    == -2
Sizes   == 0..(MaxBuffer + Headroom + 1)
Codes   == {"UNAVAILABLE", "UNSUPPORTED", "NOT_FOUND", "TOO_LARGE", "TRANSPORT_FAILED"}

VARIABLES
  objects,      \* DeviceFiles objects made so far, one per connection
  liveObject,   \* the one whose connection is up, 0 if none is
  bound,        \* the target each object was made with
  container,    \* the container each object has cached: of which install, 0 if none
  install,      \* which install of the app is the current one
  size,         \* bytes of the remote file, or Missing
  dir,          \* "d" in the container: not there, a directory, a link to outside
  relic,        \* bytes of a file at the path of a removed container, Missing if
                \* only directories are there, Gone if nothing is
  op            \* every operation

fiEnv  == <<objects, liveObject, bound, install>>
fiDisk == <<size, dir, relic>>
fiVars == <<fiEnv, container, fiDisk, op>>

-----------------------------------------------------------------------------
(* Where an operation goes: the target, the root and the path.               *)

(* resolveFileTarget, and selectFileTransport of its result.                 *)
ResolveFileTarget(t) ==
  IF ~t.device \/ ~t.app THEN "UNAVAILABLE"
  ELSE IF t.platform = "android" THEN (IF t.grammatical THEN "adb" ELSE "UNAVAILABLE")
  ELSE IF t.kind = "typo" THEN "UNSUPPORTED"
  ELSE IF t.kind = "device" THEN "devicectl" ELSE "simctl"

(* The segments that name something, in their order.                         *)
Kept(p)    == {i \in 1..Len(p) : p[i] \notin {"", "."}}
Rank(I, i) == Cardinality({j \in I : j <= i})
Named(p)   == [k \in 1..Cardinality(Kept(p)) |-> p[CHOOSE i \in Kept(p) : Rank(Kept(p), i) = k]]

Climbs(p) == \E i \in 1..Len(p) : p[i] = ".."

(* "d" is the name of a directory: no file is asked for under this name.     *)
ASSUME DirectoryAssumption ==
  \A p \in RemotePaths : Named(p) # <<>> => Named(p)[Len(Named(p))] # "d"

(* resolveRemotePath and assertPathSupported throw UNSUPPORTED.              *)
PathRefused(t, root, p) ==
  CASE root = "absolute" -> p[1] # "" \/ Len(p) = 1 \/ Climbs(p) \/ t.platform = "ios"
    [] root = "document" -> Named(p) = <<>> \/ Climbs(Named(p))
    [] OTHER             -> TRUE

(* Otherwise the place that is asked for: the path as it is given, or below  *)
(* the container.                                                            *)
Place(root, p) == IF root = "absolute" THEN p ELSE <<"Documents">> \o Named(p)

(* What a file system makes of a place that climbs.                          *)
Above(place) ==
  \E n \in 1..Len(place) :
    2 * Cardinality({i \in 1..n : place[i] = ".."}) > n

-----------------------------------------------------------------------------
(* The file system the simulator shares with the host.                       *)

ByD(place, n) == \E i \in 1..n : place[i] = "d"

(* realpath of the first n segments.                                         *)
RealPath(place, n) ==
  IF (ByD(place, n) /\ dir = "none") \/ (n = Len(place) /\ size = Missing) THEN "ENOENT"
  ELSE IF (ByD(place, n) /\ dir = "link") \/ Above(place) THEN "outside" ELSE "inside"

(* Mutant of Contained: what does not exist yet cannot lead outside.         *)
ContainedIfThere(place) == RealPath(place, Len(place)) # "outside"

(* resolveInsideContainer: the longest ancestor that exists is inside.       *)
Contained(place) ==
  LET there == {n \in 0..Len(place) : RealPath(place, n) # "ENOENT"}
      deepest == CHOOSE n \in there : \A m \in there : m <= n
  IN RealPath(place, deepest) = "inside"

-----------------------------------------------------------------------------
(* What went wrong, from the words of a tool.                                *)

Markers == {"unsupported", "device", "missing"}

(* Causes of a tool's failure, and the markers its words may match: the same *)
(* phrase says that a file or that a device couldn't be found.               *)
Words(cause) ==
  CASE cause = "noFile"      -> {{"missing"}}
    [] cause = "noDevice"      -> {{"device"}, {"device", "missing"}}
    [] cause = "notDebuggable" -> {{"unsupported"}, {"unsupported", "device"}}
    [] OTHER                    -> {{}}

(* classifyCliFailure; the words of the path itself are masked beforehand.   *)
ClassifyCliFailure(words) ==
  IF "unsupported" \in words THEN "UNSUPPORTED"
  ELSE IF "missing" \in words /\ "device" \notin words THEN "NOT_FOUND" ELSE "TRANSPORT_FAILED"

-----------------------------------------------------------------------------
(* Operations.                                                               *)

FreshOp == [
  step    |-> "new",       \* what it does next
  kind    |-> "none",      \* pull or push
  via     |-> "none",      \* its transport
  object  |-> 0,           \* the DeviceFiles object
  place   |-> <<>>,        \* the remote place
  holds   |-> 0,           \* bytes it has read, or is to write
  room    |-> 0,           \* the length of the buffer it reads into
  staged  |-> Missing,     \* bytes of the payload in its staging directory
  result  |-> "none",      \* "ok" or a code
  found   |-> 0,           \* history: the install there was when it found its container
  touched |-> "nothing",   \* what it read, or what its write did
  cause   |-> "none"]      \* why something failed

FiInit ==
  /\ objects = 0 /\ liveObject = 0
  /\ bound \in {[k \in 1..MaxObjects |-> t] : t \in Targets}
  /\ container = [k \in 1..MaxObjects |-> 0]
  /\ install = 1
  /\ size \in {Missing, 1}
  /\ dir \in {"none", "real", "link"} /\ relic = Gone
  /\ op = [o \in FileOps |-> FreshOp]

At(o, step) == op[o].step = step
Live(o)     == liveObject = op[o].object
Pulls(o)    == op[o].kind = "pull"
Goes(o, step) == op' = [op EXCEPT ![o].step = step]

(* What the remote side of adb and devicectl reaches.                        *)
Reached(o) == IF Above(op[o].place) THEN "outside" ELSE "file"

(* The transport is done with o; a staging directory is removed first.       *)
Concludes(o, result, touched, cause) ==
  op' = [op EXCEPT ![o].step = IF op[o].staged # Missing THEN "unstage" ELSE "check",
                   ![o].room = 0, ![o].place = <<>>,
                   ![o].result = result, ![o].touched = touched, ![o].cause = cause]

Fails(o, code, cause) == Concludes(o, code, op[o].touched, cause)

(* It ends before the transport is asked.                                    *)
Refused(o, code) == op' = [op EXCEPT ![o].step = "ended", ![o].result = code]

FirstStep == [simctl |-> "locate", devicectl |-> "stage", adb |-> "shell"]

(* What refuses an operation before its first await, "none" if nothing does. *)
Refusal(k, kind, cap, root, p, b) ==
  CASE liveObject # k               -> "UNAVAILABLE"
    [] liveObject = k /\ cap <= 0   -> "UNSUPPORTED"
    [] liveObject = k /\ cap > 0 /\ ResolveFileTarget(bound[k]) \in Codes -> ResolveFileTarget(bound[k])
    [] OTHER -> IF PathRefused(bound[k], root, p) THEN "UNSUPPORTED"
                ELSE IF kind = "push" /\ b > cap THEN "TOO_LARGE" ELSE "none"

(* pull and push up to their first await. A push has b bytes, or (Missing)   *)
(* the name of a local file.                                                 *)
StartsOp(o, k, kind, cap, root, p, b) ==
  LET fresh == [FreshOp EXCEPT !.kind = kind, !.object = k]
      no    == Refusal(k, kind, cap, root, p, b)
      via   == ResolveFileTarget(bound[k])
  IN
  /\ At(o, "new") \/ At(o, "ended")
  /\ k \in 1..objects
  /\ op' = [op EXCEPT ![o] =
        IF no # "none" THEN [fresh EXCEPT !.step = "ended", !.result = no]
        ELSE [fresh EXCEPT !.via = via, !.place = Place(root, p),
                           !.step = IF kind = "push" /\ b = Missing THEN "probe" ELSE FirstStep[via],
                           !.holds = IF b = Missing THEN 0 ELSE b]]
  /\ UNCHANGED <<fiEnv, container, fiDisk>>

(* A local source: its size, then its bytes, no more than the buffer takes.  *)
(* The file is anybody's: each look at it may find another size, or none.    *)
ProbesSource(o) ==
  /\ At(o, "probe")
  /\ \/ \E code \in {"NOT_FOUND", "TRANSPORT_FAILED", "TOO_LARGE"} : Refused(o, code)
     \/ Goes(o, "load")
  /\ UNCHANGED <<fiEnv, container, fiDisk>>

(* Mutant of LoadsSource: no look at the token after the file was read.      *)
LoadsSourceAnyhow(o) ==
  /\ At(o, "load")
  /\ \E bytes \in 0..MaxBuffer :
       op' = [op EXCEPT ![o].step = FirstStep[op[o].via], ![o].holds = bytes]
  /\ UNCHANGED <<fiEnv, container, fiDisk>>

LoadsSource(o) ==
  /\ At(o, "load")
  /\ \/ \E code \in {"NOT_FOUND", "TRANSPORT_FAILED", "TOO_LARGE"} : Refused(o, code)
     \/ ~Live(o) /\ Refused(o, "UNAVAILABLE")
     \/ /\ Live(o)
        /\ \E bytes \in 0..MaxBuffer :
             op' = [op EXCEPT ![o].step = FirstStep[op[o].via], ![o].holds = bytes]
  /\ UNCHANGED <<fiEnv, container, fiDisk>>

(* assertLive after the transport.                                           *)
ChecksToken(o) ==
  /\ At(o, "check")
  /\ op' = [op EXCEPT ![o].step = "ended",
                      ![o].result = IF @ = "ok" /\ ~Live(o) THEN "UNAVAILABLE" ELSE @]
  /\ UNCHANGED <<fiEnv, container, fiDisk>>

-----------------------------------------------------------------------------
(* simctl: the container, containment, and the host's file system.           *)

LocatesContainer(o) ==
  LET k == op[o].object IN
  /\ At(o, "locate")
  /\ \/ Goes(o, "contain")
        /\ container' = [container EXCEPT ![k] = IF @ = 0 THEN install ELSE @]
     \/ container[k] = 0 /\ Fails(o, "TRANSPORT_FAILED", "tool") /\ UNCHANGED container
  /\ UNCHANGED <<fiEnv, fiDisk>>

Current(o) == container[op[o].object] = install

(* There is no directory at the path that is cached.                         *)
Vanished(o) == ~Current(o) /\ relic = Gone

(* What is at that path: the app's container, a relic of it, or nothing.     *)
Site(o) == IF Current(o) THEN "file" ELSE IF Vanished(o) THEN "noContainer" ELSE "relic"

(* The app was installed anew after this operation had found its container.  *)
Superseded(o) == op[o].found # 0 /\ op[o].found # install

(* Mutant of FindsContainer: the container that is cached is taken for one   *)
(* that is there.                                                            *)
TrustsCache(o) ==
  /\ At(o, "contain")
  /\ op' = [op EXCEPT ![o].step = "walk", ![o].found = install]
  /\ UNCHANGED <<fiEnv, container, fiDisk>>

(* resolveInsideContainer: realpath of the container,                        *)
FindsContainer(o) ==
  /\ At(o, "contain")
  /\ \/ Fails(o, "TRANSPORT_FAILED", IF Vanished(o) THEN "noContainer" ELSE "host")
     \/ ~Vanished(o) /\ op' = [op EXCEPT ![o].step = "walk", ![o].found = install]
  /\ UNCHANGED <<fiEnv, container, fiDisk>>

(* and of the longest ancestor of the place that exists, which is outside if *)
(* the container went meanwhile. A realpath may fail for reasons of its own. *)
ResolvesInside(o) ==
  LET inside == IF Current(o) THEN Contained(op[o].place) ELSE ~Vanished(o) /\ ~Above(op[o].place) IN
  /\ At(o, "walk")
  /\ \/ Fails(o, "TRANSPORT_FAILED", "host")
     \/ ~inside /\ Fails(o, "UNSUPPORTED", IF Vanished(o) THEN "noContainer" ELSE "escape")
     \/ inside /\ Goes(o, IF Pulls(o) THEN "size" ELSE "write")
  /\ UNCHANGED <<fiEnv, container, fiDisk>>

Whole(o) == RealPath(op[o].place, Len(op[o].place))
Staged(o) == op[o].via = "devicectl"

(* The bytes there are to read: the container's file or the staged payload.  *)
Bytes(o) ==
  IF Staged(o) THEN op[o].staged
  ELSE IF ~Current(o) THEN (IF relic = Gone THEN Missing ELSE relic)
  ELSE IF Whole(o) = "ENOENT" THEN Missing ELSE size

(* mapNodeFsError says NOT_FOUND of ENOENT, whatever it is that is not there *)
(* (a relic may hold another file); of a staged payload nothing says so, as  *)
(* it is not the remote file that is missing then. Other errors are failures *)
(* of the transport.                                                         *)
FsError(o) ==
  \/ ~Staged(o) /\ (Bytes(o) = Missing \/ Site(o) = "relic")
     /\ Fails(o, "NOT_FOUND", IF Current(o) THEN "noFile" ELSE Site(o))
  \/ Fails(o, "TRANSPORT_FAILED", "host")

ProbesSize(o) ==
  /\ At(o, "size")
  /\ \/ FsError(o)
     \/ Bytes(o) > MaxBuffer /\ Fails(o, "TOO_LARGE", "size")
     \/ Bytes(o) \in 0..MaxBuffer /\ Goes(o, "open")
  /\ UNCHANGED <<fiEnv, container, fiDisk>>

OverflowCap == MaxBuffer + 1

Lesser(a, b) == IF a < b THEN a ELSE b

(* readFileBoundedFromDisk: a buffer one byte longer than the file is now,   *)
OpensFile(o) ==
  /\ At(o, "open")
  /\ \/ FsError(o)
     \/ /\ Bytes(o) # Missing
        /\ op' = [op EXCEPT ![o].step = "read", ![o].holds = 0,
                            ![o].room = Lesser(Bytes(o), MaxBuffer) + 1]
  /\ UNCHANGED <<fiEnv, container, fiDisk>>

(* and reads until the end or the cap, growing the buffer once. The file may *)
(* grow and shrink meanwhile; of a removed file the handle keeps the rest.   *)
ReadsFile(o) ==
  LET held == op[o].holds
      rest == IF Superseded(o) THEN Missing ELSE Bytes(o)
      out  == (~Staged(o) /\ Current(o) /\ Whole(o) = "outside") \/ Above(op[o].place)
      room == IF held = op[o].room /\ op[o].room < OverflowCap THEN OverflowCap ELSE op[o].room
      what == IF out THEN "outside" ELSE IF rest > held THEN "part"
              ELSE IF Staged(o) THEN "file" ELSE Site(o)
      ends == IF held > MaxBuffer THEN Fails(o, "TOO_LARGE", "size")
              ELSE Concludes(o, "ok", what, "none")
      more == IF rest = Missing THEN room ELSE Lesser(rest, room)
  IN
  /\ At(o, "read")
  /\ \/ held >= OverflowCap /\ ends
     \/ held < OverflowCap /\ rest <= held /\ ends
     \/ held < OverflowCap
        /\ \E n \in (held + 1)..more : op' = [op EXCEPT ![o].room = room, ![o].holds = n]
  /\ UNCHANGED <<fiEnv, container, fiDisk>>

Through(o) == ByD(op[o].place, Len(op[o].place))
Outside(o) == (Current(o) /\ Through(o) /\ dir = "link") \/ Above(op[o].place)

(* The directories that are missing are made, those of a container that is   *)
(* gone too, and then the file has so many bytes.                            *)
Puts(o, bytes) ==
  /\ size' = IF Current(o) /\ ~Outside(o) THEN bytes ELSE size
  /\ dir' = IF Current(o) /\ Through(o) /\ dir = "none" THEN "real" ELSE dir
  /\ relic' = IF Current(o) \/ Outside(o) THEN relic ELSE bytes

(* writeFile under the canonical path; what fails may have been half done.   *)
WritesFile(o) ==
  /\ At(o, "write")
  /\ \/ /\ FsError(o)
        /\ \/ UNCHANGED fiDisk
           \/ \E bytes \in {Bytes(o)} \union 0..op[o].holds : Puts(o, bytes)
     \/ Concludes(o, "ok", IF Outside(o) THEN "outside" ELSE Site(o), "none") /\ Puts(o, op[o].holds)
  /\ UNCHANGED <<fiEnv, container>>

-----------------------------------------------------------------------------
(* devicectl: a payload in a staging directory, and a tool that copies it.   *)

Stages(o) ==
  /\ At(o, "stage")
  /\ \/ Fails(o, "TRANSPORT_FAILED", "host")
     \/ op' = [op EXCEPT ![o].staged = 0, ![o].step = IF Pulls(o) THEN "copy" ELSE "payload"]
  /\ UNCHANGED <<fiEnv, container, fiDisk>>

StagesPayload(o) ==
  /\ At(o, "payload")
  /\ \/ Fails(o, "TRANSPORT_FAILED", "host")
     \/ op' = [op EXCEPT ![o].staged = op[o].holds, ![o].step = "copy"]
  /\ UNCHANGED <<fiEnv, container, fiDisk>>

(* Why a tool that reads or writes the remote file may fail.                 *)
Causes(o) == {"noDevice", "notDebuggable", "other"} \union
             (IF Pulls(o) /\ size = Missing THEN {"noFile"} ELSE {})

(* A tool says in its own words what went wrong; or it could not be run, or  *)
(* took too long. A write it was to do may have been done, or half done.     *)
ToolFails(o) ==
  /\ \/ \E cause \in Causes(o) : \E words \in Words(cause) :
          Fails(o, ClassifyCliFailure(words), cause)
     \/ Fails(o, "TRANSPORT_FAILED", "tool")
  /\ size' \in IF Pulls(o) THEN {size} ELSE {size} \union 0..op[o].holds

Copies(o) ==
  /\ At(o, "copy")
  /\ \/ ToolFails(o)
     \/ /\ Pulls(o) /\ size # Missing
        /\ op' = [op EXCEPT ![o].staged = size, ![o].step = "size"]
        /\ UNCHANGED size
     \/ /\ ~Pulls(o)
        /\ Concludes(o, "ok", Reached(o), "none")
        /\ size' = op[o].holds
  /\ UNCHANGED <<fiEnv, container, dir, relic>>

(* finally: the staging directory is removed, or that fails, silently.       *)
RemovesStaging(o) ==
  /\ At(o, "unstage")
  /\ op' = [op EXCEPT ![o].step = "check", ![o].staged = Missing]
  /\ UNCHANGED <<fiEnv, container, fiDisk>>

-----------------------------------------------------------------------------
(* adb: one command of a shell on the device, whose output has to say for    *)
(* itself how the command ended.                                             *)

(* pull, of an output with or without the last sentinel, the status behind   *)
(* it, and the words or the bytes in front of it.                            *)
ReadVerdict(sentinel, status, words, bytes) ==
  CASE ~sentinel                        -> ClassifyCliFailure(words)
    [] sentinel /\ status = "garbled"   -> "TRANSPORT_FAILED"
    [] sentinel /\ status = "1"         -> ClassifyCliFailure(words)
    [] OTHER                            -> IF bytes > MaxBuffer THEN "TOO_LARGE" ELSE "ok"

(* The command may not be run at all, overflow the buffer of the host, never *)
(* reach the shell, or have cat fail or succeed.                             *)
Cats(o) ==
  /\ At(o, "shell") /\ Pulls(o)
  /\ \/ Fails(o, "TRANSPORT_FAILED", "tool")
     \/ size > MaxBuffer + Headroom /\ Fails(o, "TOO_LARGE", "size")
     \/ \E cause \in {"noDevice", "notDebuggable", "other"} : \E words \in Words(cause) :
          Concludes(o, ReadVerdict(FALSE, "", words, 0), "diagnostic", cause)
     \/ \E cause \in {IF size = Missing THEN "noFile" ELSE "other"}, status \in {"1", "garbled"} :
          \E words \in Words(cause) :
            Concludes(o, ReadVerdict(TRUE, status, words, 0), "diagnostic", cause)
     \/ /\ size \in 0..(MaxBuffer + Headroom)
        /\ op' = [op EXCEPT ![o].step = "check", ![o].place = <<>>, ![o].holds = size,
                            ![o].result = ReadVerdict(TRUE, "0", {}, size), ![o].touched = Reached(o)]
  /\ UNCHANGED <<fiEnv, container, fiDisk>>

(* mkdir, cat > file and the sentinel, which has to end the output.          *)
Pipes(o) ==
  /\ At(o, "shell") /\ ~Pulls(o)
  /\ \/ ToolFails(o)
     \/ Concludes(o, "ok", Reached(o), "none") /\ size' = op[o].holds
  /\ UNCHANGED <<fiEnv, container, dir, relic>>

-----------------------------------------------------------------------------
(* Everybody else.                                                           *)

(* connect, also over a connection that is up, makes an object of its own    *)
(* for the target; disconnect revokes it.                                    *)
MakesObject ==
  /\ objects < MaxObjects
  /\ objects' = objects + 1
  /\ liveObject' = objects + 1
  /\ UNCHANGED <<bound, install, container, fiDisk, op>>

RevokesToken ==
  /\ liveObject # 0
  /\ liveObject' = 0
  /\ UNCHANGED <<objects, bound, install, container, fiDisk, op>>

AppWrites ==
  /\ size' \in Sizes \union {Missing}
  /\ UNCHANGED <<fiEnv, container, dir, relic, op>>

AppReinstalled ==
  /\ install = 1
  /\ install' = 2
  /\ size' = Missing
  /\ UNCHANGED <<objects, liveObject, bound, container, dir, relic, op>>

OpStep(o) ==
  \/ ProbesSource(o) \/ LoadsSource(o) \/ ChecksToken(o)
  \/ LocatesContainer(o) \/ FindsContainer(o) \/ ResolvesInside(o) \/ ProbesSize(o) \/ OpensFile(o)
  \/ ReadsFile(o) \/ WritesFile(o)
  \/ Stages(o) \/ StagesPayload(o) \/ Copies(o) \/ RemovesStaging(o)
  \/ Cats(o) \/ Pipes(o)

FiNext ==
  \/ \E o \in FileOps :
       \/ OpStep(o)
       \/ \E k \in 1..objects, root \in {"document", "absolute", "documents"}, p \in RemotePaths :
            \/ \E cap \in {0, MaxBuffer} : StartsOp(o, k, "pull", cap, root, p, 0)
            \/ \E b \in {Missing, MaxBuffer, MaxBuffer + 1} : StartsOp(o, k, "push", MaxBuffer, root, p, b)
  \/ MakesObject \/ RevokesToken \/ AppWrites \/ AppReinstalled

FiSpec == FiInit /\ [][FiNext]_fiVars

(* Files end, and a host command has a time-out.                             *)
FiFairness == \A o \in FileOps : WF_fiVars(OpStep(o))

-----------------------------------------------------------------------------
FiTypeOK ==
  /\ objects \in 0..MaxObjects /\ liveObject \in 0..objects
  /\ bound \in [1..MaxObjects -> Targets]
  /\ container \in [1..MaxObjects -> 0..2] /\ install \in 1..2
  /\ size \in Sizes \union {Missing}
  /\ dir \in {"none", "real", "link"} /\ relic \in Sizes \union {Missing, Gone}
  /\ \A o \in FileOps :
       /\ op[o].object \in 0..objects
       /\ op[o].holds \in Sizes /\ op[o].room \in 0..(MaxBuffer + 1)
       /\ op[o].staged \in Sizes \union {Missing}
       /\ op[o].result \in Codes \union {"none", "ok"}

(* Whatever changes during an operation: what pull returns is the file of    *)
(* the app, all of it and no more than maxBuffer, never a tool's words about *)
(* it and never a file outside the container; a push that succeeds has       *)
(* written the file inside the container; NOT_FOUND means that the file was  *)
(* not there, not that the device or a staged copy was not; and a container  *)
(* that is gone is a failure of the transport. That is excepted only where   *)
(* the container went after this operation had found it (simctl.ts looks     *)
(* once): then a pull says NOT_FOUND, either says UNSUPPORTED if it went     *)
(* while the path was resolved, and a push makes the path again and succeeds.*)
(* What is done in a relic, which such a push left, looks like any success.  *)
(* No staging directory outlives its operation.                              *)
FilesTrue ==
  \A o \in FileOps :
    /\ op[o].result = "ok" =>
         /\ op[o].touched \in IF Superseded(o) THEN {"file", "relic", "noContainer"} ELSE {"file", "relic"}
         /\ op[o].holds <= MaxBuffer
    /\ op[o].result = "NOT_FOUND" => op[o].cause \in {"none", "noFile", "relic", "noContainer"}
    /\ op[o].cause = "noContainer" => op[o].result = "TRANSPORT_FAILED" \/ Superseded(o)
    /\ At(o, "ended") => op[o].staged = Missing

(* A transport is asked to write only with the connection up whose object    *)
(* the caller uses, and no operation succeeds after that connection ended,   *)
(* even if another one is up by then.                                        *)
FilesNeedConnection ==
  [][\A o \in FileOps :
       /\ At(o, "load") /\ op'[o].step \in {"locate", "stage", "shell"} => Live(o)
       /\ ~At(o, "ended") /\ op'[o].step = "ended" /\ op'[o].result = "ok" => Live(o)]_fiVars

(* Every operation that was begun ends.                                      *)
FileOpEnds == \A o \in FileOps : ~At(o, "new") ~> At(o, "ended")
=============================================================================
