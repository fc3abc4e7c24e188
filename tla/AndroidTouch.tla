----------------------------- MODULE AndroidTouch -----------------------------
(* Touch input on Android, from end to end: createTouchBackend, which every  *)
(* connect() of RNDevice calls (packages/driver/src/touch/index.ts), the     *)
(* backend that speaks HTTP to the companion (instrumentation-backend.ts)    *)
(* with the companion itself (RNDriverTouchCompanion.kt), and the one that   *)
(* runs adb shell input (cli-backend.ts). The companion takes one connection *)
(* after the other, in the order they are made, and outlives the sessions.   *)
(*                                                                           *)
(* A session is a backend createTouchBackend made or tried to make; a point  *)
(* is named by the request that brought it. The caller awaits its commands.  *)
(* The commands of the native-module backend are left out: they run in the   *)
(* app; its init() is not. Pixels are left out, and so is typeText.          *)
EXTENDS Naturals, Sequences, FiniteSetsExt, SequencesExt

CONSTANTS TouchConfigs,   \* TouchBackendConfig of a test
          TouchCommands,  \* the commands it uses
          MaxSessions,    \* bound: connect() calls
          MaxAsks,        \* bound: requests, every hello among them
          MaxFailed       \* bound: requests that failed before another is made

ASSUME AndroidBounds == MaxSessions \in Nat \ {0} /\ MaxAsks \in Nat \ {0} /\ MaxFailed \in Nat
ASSUME TouchCommandsAssumption ==
  TouchCommands \subseteq {"tap", "swipe", "down", "move", "up"}

Sessions == 1..MaxSessions
Asks     == 1..MaxAsks
NoAsk    == 0
Types    == {"xctest", "instrumentation", "cli", "native-module"}

ASSUME TouchConfigsAssumption ==
  TouchConfigs \subseteq [mode : {"auto", "force"}, backend : Types \union {"unset"},
                         order : Seq(Types), enabled : SUBSET Types]

VARIABLES
  touchConfig,
  authorized,   \* the client's token is the companion's
  oldSdk,       \* the device's API level is below MOTION_EVENT_MIN_API
  sessions,     \* createTouchBackend: its stage, the places of the order it tried
  asks,         \* requests: session, kind, point, promise, reply on its way
  askCount,     \* how many
  known,        \* cli: sdkLevel and density, once they were read
  lastPoint,    \* cli: lastPoint, none unless isTouchActive
  running,      \* cli: input processes on the device
  serving,      \* the companion is up
  backlog,      \* connections it has not accepted
  cut,          \* those whose client left before the request was through
  handling,     \* the command it performs, and the events still to inject
  activeDown, lastXY,
  stream        \* history: the touch events the device has seen

androidVars ==
  <<touchConfig, authorized, oldSdk, sessions, asks, askCount, known, lastPoint, running,
    serving, backlog, cut, handling, activeDown, lastXY, stream>>
fixedVars     == <<touchConfig, authorized, oldSdk>>
cliVars       == <<known, lastPoint, running>>
serverVars    == <<serving, backlog, cut, handling, activeDown, lastXY>>

Unasked == [of |-> NoAsk, kind |-> "none", at |-> NoAsk, promise |-> "unsent", reply |-> "none"]
NoWork  == [ask |-> NoAsk, todo |-> <<>>]

AnInit ==
  /\ touchConfig \in TouchConfigs
  /\ authorized \in BOOLEAN /\ oldSdk \in BOOLEAN
  /\ sessions = [b \in Sessions |-> [stage |-> "none", tried |-> {}]]
  /\ asks = [n \in Asks |-> Unasked] /\ askCount = 0
  /\ known = [b \in Sessions |-> {}]
  /\ lastPoint = [b \in Sessions |-> NoAsk]
  /\ running = {}
  /\ serving \in BOOLEAN
  /\ backlog = <<>> /\ cut = {} /\ handling = NoWork
  /\ activeDown = FALSE /\ lastXY = NoAsk
  /\ stream = <<>>

-----------------------------------------------------------------------------
(* Requests.                                                                 *)

Waiting == {n \in Asks : asks[n].promise = "waiting"}
Touch(act, n, at) == [act |-> act, by |-> n, at |-> at]

(* What a command puts in at once, from a down to an up of its own.          *)
Tap(n)   == <<Touch("down", n, n), Touch("up", n, n)>>
Swipe(n) == <<Touch("down", n, n), Touch("move", n, n), Touch("up", n, n)>>
Stroke(kind, n) == IF kind = "swipe" THEN Swipe(n) ELSE Tap(n)

(* A request of a backend; at is the point a cli up is given.                *)
NewAsk(b, kind, at, promise) ==
  /\ askCount < MaxAsks
  /\ Cardinality({n \in Asks : asks[n].promise = "rejected"}) <= MaxFailed
  /\ askCount' = askCount + 1
  /\ asks' = [asks EXCEPT ![askCount + 1] =
                [of |-> b, kind |-> kind, at |-> at, promise |-> promise, reply |-> "none"]]

(* An answer nobody waits for any more is ignored.                           *)
Answers(n, reply) ==
  asks' = IF asks[n].promise = "waiting" THEN [asks EXCEPT ![n].reply = reply] ELSE asks

(* sendCommand: a POST on a connection of its own; to a companion that is    *)
(* not there it fails.                                                       *)
SendCommand(b, kind) ==
  /\ NewAsk(b, kind, NoAsk, "waiting")
  /\ backlog' = IF serving THEN Append(backlog, askCount + 1) ELSE backlog
  /\ UNCHANGED <<serving, cut, handling, activeDown, lastXY>>

-----------------------------------------------------------------------------
(* createTouchBackend.                                                       *)

IsBackendSupportedOnPlatform(t) == t \in {"instrumentation", "cli", "native-module"}
IsBackendEnabled(t) == t \in touchConfig.enabled
Usable(t) == IsBackendSupportedOnPlatform(t) /\ IsBackendEnabled(t)

DefaultOrder == <<"instrumentation">>

Order ==
  IF touchConfig.mode = "force"
  THEN <<IF touchConfig.backend = "unset" THEN DefaultOrder[1] ELSE touchConfig.backend>>
  ELSE IF touchConfig.order = <<>> THEN DefaultOrder ELSE touchConfig.order

(* The backend is made and its init() called.                                *)
StartsInit(b, t) ==
  IF t = "instrumentation" THEN SendCommand(b, "hello") ELSE UNCHANGED <<asks, askCount, serverVars>>

(* The loop goes on after the places tried: the next backend that is usable  *)
(* is made and its init() called, or none is left and the call rejects.      *)
Left(tried) == {i \in DOMAIN Order : Usable(Order[i]) /\ \A j \in tried : j < i}

TriesNext(b, tried) ==
  IF Left(tried) = {}
  THEN /\ sessions' = [sessions EXCEPT ![b] = [stage |-> "failed", tried |-> tried]]
       /\ UNCHANGED <<asks, askCount, serverVars>>
  ELSE LET i == Min(Left(tried)) IN
       /\ sessions' = [sessions EXCEPT ![b] = [stage |-> "trying", tried |-> tried \union {i}]]
       /\ StartsInit(b, Order[i])

Backend(b) == Order[Max(sessions[b].tried)]

CreateTouchBackend(b) ==
  /\ sessions[b].stage = "none"
  /\ \A c \in 1..(b - 1) : sessions[c].stage \in {"failed", "closed"}
  /\ Waiting = {}
  /\ TriesNext(b, {})
  /\ UNCHANGED <<fixedVars, cliVars, stream>>

(* init() resolves or rejects: the hello, which is the latest request, did;  *)
(* adb get-state says device or something else; the app has the module or    *)
(* has not.                                                                  *)
GetState     == {"resolved", "rejected"}
EnsureModule == {"resolved", "rejected"}

Hello        == {asks[askCount].promise}

Inited(b, outcome) ==
  outcome \in CASE Backend(b) = "instrumentation" -> Hello
                 [] Backend(b) = "cli"             -> GetState
                 [] Backend(b) = "native-module"   -> EnsureModule

InitSucceeds(b) ==
  /\ sessions[b].stage = "trying" /\ Inited(b, "resolved")
  /\ sessions' = [sessions EXCEPT ![b].stage = "ready"]
  /\ UNCHANGED <<fixedVars, asks, askCount, cliVars, serverVars, stream>>

(* The backend is disposed of, which these do nothing for; mode force has no *)
(* other candidate.                                                          *)
InitFails(b) ==
  /\ sessions[b].stage = "trying" /\ Inited(b, "rejected")
  /\ TriesNext(b, sessions[b].tried)
  /\ UNCHANGED <<fixedVars, cliVars, stream>>

(* The connection is torn down.                                              *)
Leaves(b) ==
  /\ sessions[b].stage = "ready" /\ Waiting = {}
  /\ sessions' = [sessions EXCEPT ![b].stage = "closed"]
  /\ UNCHANGED <<fixedVars, asks, askCount, cliVars, serverVars, stream>>

Ready(b, t) == sessions[b].stage = "ready" /\ Backend(b) = t /\ Waiting = {}

-----------------------------------------------------------------------------
(* The instrumentation backend and adb shell input.                          *)

InstrumentationCommand(b, kind) ==
  /\ Ready(b, "instrumentation")
  /\ SendCommand(b, kind)
  /\ UNCHANGED <<fixedVars, sessions, cliVars, stream>>

Streaming(kind) == kind \in {"down", "move", "up"}

(* The API level is asked for once, and the density, which an up needs not.  *)
EnsureSdk(b, kind)     == known[b] \union (IF Streaming(kind) THEN {"sdk"} ELSE {})
EnsureDensity(b, kind) == IF kind = "up" THEN {} ELSE {"density"}

(* A cli command that rejects before input is run: getprop failed, the API   *)
(* level is too low, no touch is active, the app gave no density.            *)
CliRefuses(b, kind) ==
  /\ Ready(b, "cli")
  /\ NewAsk(b, kind, NoAsk, "rejected")
  /\ \/ /\ Streaming(kind) /\ "sdk" \notin known[b]
        /\ UNCHANGED known
     \/ /\ \/ Streaming(kind) /\ oldSdk
           \/ kind \in {"move", "up"} /\ lastPoint[b] = NoAsk
           \/ ~(EnsureDensity(b, kind) \subseteq known[b])
        /\ known' = [known EXCEPT ![b] = EnsureSdk(b, kind)]
  /\ UNCHANGED <<fixedVars, sessions, lastPoint, running, serverVars, stream>>

CliRuns(b, kind) ==
  /\ Ready(b, "cli")
  /\ Streaming(kind) => ~oldSdk
  /\ kind \in {"move", "up"} => lastPoint[b] # NoAsk
  /\ NewAsk(b, kind, IF kind = "up" THEN lastPoint[b] ELSE askCount + 1, "waiting")
  /\ known' = [known EXCEPT ![b] = EnsureSdk(b, kind) \union EnsureDensity(b, kind)]
  /\ running' = running \union {askCount + 1}
  /\ UNCHANGED <<fixedVars, sessions, lastPoint, serverVars, stream>>

(* The input process does its work, or fails; one whose adb was killed does  *)
(* so as well, and tells nobody.                                             *)
ProcessInjects(n) ==
  /\ n \in running
  /\ running' = running \ {n}
  /\ stream' = stream \o (IF Streaming(asks[n].kind)
                          THEN <<Touch(asks[n].kind, n, asks[n].at)>>
                          ELSE Stroke(asks[n].kind, n))
  /\ Answers(n, "ok")
  /\ UNCHANGED <<fixedVars, sessions, askCount, known, lastPoint, serverVars>>

ProcessFails(n) ==
  /\ n \in running
  /\ running' = running \ {n}
  /\ Answers(n, "error")
  /\ UNCHANGED <<fixedVars, sessions, askCount, known, lastPoint, serverVars, stream>>

(* The point a cli command that resolved has reached.                        *)
ReachesPoint(n) == IF asks[n].kind = "up" THEN NoAsk ELSE n

(* The answer is there, and the command settles.                             *)
AskReturns(n) ==
  /\ asks[n].promise = "waiting" /\ asks[n].reply # "none"
  /\ asks' = [asks EXCEPT ![n].promise = IF asks[n].reply = "ok" THEN "resolved" ELSE "rejected"]
  /\ LET b == asks[n].of IN
       IF asks[n].reply = "ok" /\ Backend(b) = "cli" /\ Streaming(asks[n].kind)
       THEN lastPoint' = [lastPoint EXCEPT ![b] = ReachesPoint(n)]
       ELSE UNCHANGED lastPoint
  /\ UNCHANGED <<fixedVars, sessions, askCount, known, running, serverVars, stream>>

(* The process on the device may die with its adb.                           *)
AdbKilled(n) == {running, running \ {n}}

(* The timer aborts the fetch or kills adb, or the connection is lost, or    *)
(* the answer cannot be read. What was sent may have been cut short.         *)
GivesUp(n) ==
  /\ asks[n].promise = "waiting"
  /\ asks' = [asks EXCEPT ![n].promise = "rejected", ![n].reply = "none"]
  /\ running' \in AdbKilled(n)
  /\ cut' \in {cut} \union (IF n \in ToSet(backlog) THEN {cut \union {n}} ELSE {})
  /\ UNCHANGED <<fixedVars, sessions, askCount, known, lastPoint>>
  /\ UNCHANGED <<serving, backlog, handling, activeDown, lastXY, stream>>

-----------------------------------------------------------------------------
(* The companion: one thread.                                                *)

(* Mutant of Accepts: a thread for every connection.                         *)
AcceptsAny(i) == handling = NoWork

Accepts(i) == handling = NoWork /\ i = 1

(* readHttpRequest: a request that was cut ends early, and is no JSON.       *)
ReadWhole(n) == n \notin cut

(* A move or an up with no touch under way does nothing.                     *)
EventsFor(n) ==
  LET kind == asks[n].kind IN
  CASE kind \in {"tap", "swipe"}      -> Stroke(kind, n)
    [] kind = "down"                  -> <<Touch("down", n, n)>>
    [] kind = "move" /\ activeDown    -> <<Touch("move", n, n)>>
    [] kind = "up" /\ activeDown      -> <<Touch("up", n, lastXY)>>
    [] OTHER                          -> <<>>

(* injectDown and injectMove set these before they inject.                   *)
TracksTouch(n) ==
  LET kind == asks[n].kind IN
  /\ activeDown' = (activeDown \/ kind = "down")
  /\ lastXY' = IF kind = "down" \/ (kind = "move" /\ activeDown) THEN n ELSE lastXY

(* handleCommand: what is cut or comes with another token is refused, what   *)
(* injects nothing is answered at once.                                      *)
HandleClient(i) ==
  LET n == backlog[i] IN
  /\ Accepts(i)
  /\ backlog' = RemoveAt(backlog, i)
  /\ cut' = cut \ {n}
  /\ \/ /\ ~ReadWhole(n) \/ ~authorized
        /\ Answers(n, "error")
        /\ UNCHANGED <<handling, activeDown, lastXY>>
     \/ /\ ReadWhole(n) /\ authorized
        /\ TracksTouch(n)
        /\ IF EventsFor(n) = <<>>
           THEN Answers(n, "ok") /\ UNCHANGED handling
           ELSE handling' = [ask |-> n, todo |-> EventsFor(n)] /\ UNCHANGED asks
  /\ UNCHANGED <<fixedVars, sessions, askCount, cliVars, serving, stream>>

(* injectUp clears it after it has injected.                                 *)
EndsTouch(n) == activeDown' = (activeDown /\ asks[n].kind # "up")

(* injectEvent, one event after the other; after the last the answer is sent.*)
InjectEvent ==
  /\ handling # NoWork
  /\ stream' = Append(stream, Head(handling.todo))
  /\ LET n == handling.ask
         rest == Tail(handling.todo)
     IN IF rest # <<>>
        THEN handling' = [handling EXCEPT !.todo = rest] /\ UNCHANGED <<asks, activeDown>>
        ELSE /\ handling' = NoWork
             /\ Answers(n, "ok")
             /\ EndsTouch(n)
  /\ UNCHANGED <<fixedVars, sessions, askCount, cliVars, serving, backlog, cut, lastXY>>

(* It throws: the rest is left out, and a touch stays under way.             *)
InjectEventThrows ==
  /\ handling # NoWork
  /\ Answers(handling.ask, "error")
  /\ handling' = NoWork
  /\ UNCHANGED <<fixedVars, sessions, askCount, cliVars, stream>>
  /\ UNCHANGED <<serving, backlog, cut, activeDown, lastXY>>

(* The instrumentation process ends, with all it had still to do.            *)
CompanionDies ==
  /\ serving
  /\ serving' = FALSE
  /\ backlog' = <<>> /\ cut' = {} /\ handling' = NoWork
  /\ activeDown' = FALSE /\ lastXY' = NoAsk
  /\ UNCHANGED <<fixedVars, sessions, asks, askCount, cliVars, stream>>

-----------------------------------------------------------------------------
AnNext ==
  \/ \E b \in Sessions :
       \/ CreateTouchBackend(b) \/ InitSucceeds(b) \/ InitFails(b) \/ Leaves(b)
       \/ \E kind \in TouchCommands :
            InstrumentationCommand(b, kind) \/ CliRefuses(b, kind) \/ CliRuns(b, kind)
  \/ \E n \in Asks :
       \/ ProcessInjects(n) \/ ProcessFails(n) \/ AskReturns(n) \/ GivesUp(n)
  \/ \E i \in DOMAIN backlog : HandleClient(i)
  \/ InjectEvent \/ InjectEventThrows \/ CompanionDies

(* Every request has a timer, and so have adb and evaluate, on which init()  *)
(* waits. Nothing is assumed of the companion or the device.                 *)
AnFairness ==
  /\ \A n \in Asks : WF_androidVars(GivesUp(n))
  /\ \A b \in Sessions : WF_androidVars(InitSucceeds(b) \/ InitFails(b))

AnSpec == AnInit /\ [][AnNext]_androidVars /\ AnFairness

-----------------------------------------------------------------------------
(* Properties.                                                               *)

Touches == [act : {"down", "move", "up"}, by : Asks, at : Asks]

(* Types, and at most one command waits, for the caller awaits them.         *)
AnTypeOK ==
  /\ \A b \in Sessions : /\ sessions[b].stage \in {"none", "trying", "ready", "failed", "closed"}
                         /\ sessions[b].tried \subseteq DOMAIN Order
                         /\ known[b] \subseteq {"sdk", "density"}
                         /\ lastPoint[b] \in {NoAsk} \union Asks
  /\ \A n \in Asks : /\ asks[n].promise \in {"unsent", "waiting", "resolved", "rejected"}
                     /\ asks[n].reply \in {"none", "ok", "error"}
                     /\ asks[n].promise = "unsent" <=> n > askCount
  /\ running \subseteq 1..askCount /\ ToSet(backlog) \subseteq 1..askCount /\ cut \subseteq ToSet(backlog)
  /\ activeDown \in BOOLEAN /\ lastXY \in {NoAsk} \union Asks
  /\ handling.ask \in {NoAsk} \union Asks /\ ToSet(handling.todo) \subseteq Touches
  /\ ToSet(stream) \subseteq Touches
  /\ \A m, n \in Waiting : m = n

(* The device has seen these events of n, in this order, and no others of n. *)
Saw(n, events) ==
  \E at \in [DOMAIN events -> DOMAIN stream] :
    /\ \A i, j \in DOMAIN events : i < j => at[i] < at[j]
    /\ \A i \in DOMAIN events : stream[at[i]] = events[i]
    /\ \A k \in DOMAIN stream : stream[k].by = n => \E i \in DOMAIN events : k = at[i]

(* A command that resolved has been performed, once, and wholly              *)
(* (instrumentation-backend.ts:80-98, cli-backend.ts:241-247).               *)
OkMeansInjected ==
  \A n \in Asks : asks[n].promise = "resolved" =>
    /\ asks[n].kind \in {"tap", "swipe"} => Saw(n, Stroke(asks[n].kind, n))
    /\ asks[n].kind = "down" => Saw(n, <<Touch("down", n, n)>>)

(* A down, moves and an up, in this order, that all resolved.                *)
Drag(d, u) ==
  /\ d < u /\ asks[d].kind = "down" /\ asks[u].kind = "up"
  /\ \A n \in d..u : asks[n].of = asks[u].of /\ asks[n].promise = "resolved"
  /\ \A n \in (d + 1)..(u - 1) : asks[n].kind = "move"

(* A command that was given up may still be performed. One of the companion  *)
(* comes before any command it gets later; one of adb, or of the companion   *)
(* while adb is in use, comes at any time.                                   *)
Stray(n, u) ==
  /\ asks[n].promise = "rejected"
  /\ ~(Backend(asks[n].of) = "instrumentation" /\ Backend(asks[u].of) = "instrumentation")

(* A drag reaches the device as its own events, in order, once each, the     *)
(* finger lifted where it was moved to last, and no other command between    *)
(* them: whatever was given up before it is over, in this session or an      *)
(* earlier one, but for strays (RNDriverTouchCompanion.kt:79-81, 231-256).   *)
DragsWhole ==
  \A d, u \in Asks : Drag(d, u) =>
    \E at \in [d..u -> DOMAIN stream] :
      /\ \A m, n \in d..u : m < n => at[m] < at[n]
      /\ \A n \in d..u : stream[at[n]] = Touch(asks[n].kind, n, IF n = u THEN u - 1 ELSE n)
      /\ \A k \in at[d]..at[u] : Stray(stream[k].by, u) \/ \E n \in d..u : k = at[n]

(* The backend is the first of the order that is meant for the platform, is  *)
(* enabled and can be used now; mode force never falls back to another; the  *)
(* call rejects only when every candidate failed (touch/index.ts:50-98).     *)
SelectionRight ==
  \A b \in Sessions :
    LET s == sessions[b] IN
    /\ \A i \in s.tried : Usable(Order[i])
    /\ \A i \in DOMAIN Order :
         Usable(Order[i]) /\ (s.stage = "failed" \/ \E j \in s.tried : i < j) => i \in s.tried
    /\ touchConfig.mode = "force" => s.tried \subseteq {1}
    /\ s.stage = "ready" =>
         (Backend(b) = "instrumentation" <=>
          \E n \in Asks : asks[n].of = b /\ asks[n].kind = "hello" /\ asks[n].promise = "resolved")

AndroidTold == OkMeansInjected /\ DragsWhole /\ SelectionRight

(* A call of createTouchBackend ends, and so does every command, also when   *)
(* the companion or adb never answers (instrumentation-backend.ts:70): one   *)
(* at a time, as they are awaited.                                           *)
Unsettled == Waiting # {} \/ \E b \in Sessions : sessions[b].stage = "trying"
AndroidSettles == Unsettled ~> ~Unsettled
=============================================================================
