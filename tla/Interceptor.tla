---------------------------- MODULE Interceptor ----------------------------
(***************************************************************************)
(* The fs interceptors of the workspaces of one process.  They all patch   *)
(* the same module: an interceptor keeps the function it finds, puts its   *)
(* wrapper in the place, and puts back what it kept when it is removed.    *)
(* All patched functions go through this together, so one chain of         *)
(* wrappers stands for each of them.                                       *)
(*                                                                         *)
(* A call that names a path is reported by every wrapper it passes.  A     *)
(* call that names a descriptor is reported if the wrapper saw the         *)
(* descriptor open and does not take it for the inside of a stream.  open  *)
(* and close have callbacks that run when other calls have been made; any  *)
(* other call and its completion are one step here, since DirtyTracking    *)
(* has calls in flight, and what a workspace does with a report.           *)
(* A path names a file, and a file has one path at most.  External: node's *)
(* fs (descriptor numbers, streams, callbacks).                            *)
(***************************************************************************)
EXTENDS Integers, Sequences, FiniteSets, Functions

CONSTANTS
    Workspaces,  \* each with its interceptor
    Paths,
    Fds,         \* descriptor numbers
    Streams,     \* write streams
    MaxInstalls, \* bound on the calls of install()
    MaxFlights,  \* bound on open and close calls whose callback is to run
    None

ASSUME FdsAssumption == Fds \subseteq Nat
ASSUME NoneAssumption ==
    /\ None \notin Workspaces \cup Streams \cup Fds \cup Paths
    /\ None \notin [path : Paths, suppressed : BOOLEAN]
    /\ None \notin [path : Paths, user : Streams \cup {None}]
ASSUME BoundsAssumption == MaxInstalls \in Nat /\ MaxFlights \in Nat

VARIABLES
    chain,      \* the wrappers in the fs module, the one called first in front
    installed,  \* VfsInterceptor.installed
    kept,       \* restoreOriginals: the chain found by install()
    descriptorPaths,         \* per interceptor: fd -> [path, suppressed], or None
    streamPathSuppressions,  \* per interceptor: the count of every path
    streamSuppressionOwners, \* streams with an owner, shared by the interceptors
    fds,        \* the open descriptors: [path it was opened by, user], or None
    at,         \* the path of the file that is open, or None if that is removed
    flights,    \* open and close calls whose callback has not run
    streams,    \* [state, path, owner, fd] of every write stream
    heard,      \* the paths reported to a workspace since it began to watch
    installs,   \* the calls of install() so far
    lifo,       \* history: each uninstall() removed the wrapper in front
    told,       \* history: who heard of a stream, and watches since before it
    deaf,       \* history: who cannot know of a descriptor
    stale,      \* history: descriptors closed past a wrapper that had them
    missed      \* history: who was not told of a change, and how it was made

hookVars == <<chain, installed, kept, installs, lifo>>
mapVars == <<descriptorPaths, streamPathSuppressions, streamSuppressionOwners>>
fsVars == <<fds, at, flights, streams>>
historyVars == <<told, deaf, stale, missed>>
vars == <<hookVars, mapVars, fsVars, heard, historyVars>>

Hooks == Range(chain)
NoPaths == [f \in Fds |-> None]
\* How a change is made that a workspace may not be told of; see ChangesHeard.
Gaps == {"open", "number", "moved", "deaf", "earlier stream"}
NotSuppressed == [p \in Paths |-> 0]
IdleStream == [state |-> "unused", path |-> None, owner |-> None, fd |-> None]

Init ==
    /\ chain = <<>> /\ kept = [w \in Workspaces |-> <<>>]
    /\ installed = [w \in Workspaces |-> FALSE]
    /\ installs = 0 /\ lifo = TRUE
    /\ descriptorPaths = [w \in Workspaces |-> NoPaths]
    /\ streamPathSuppressions = [w \in Workspaces |-> NotSuppressed]
    /\ streamSuppressionOwners = {}
    /\ fds = NoPaths /\ at = NoPaths /\ flights = {}
    /\ streams = [s \in Streams |-> IdleStream]
    /\ heard = [w \in Workspaces |-> {}]
    /\ told = [s \in Streams |-> {}] /\ deaf = [f \in Fds |-> {}]
    /\ stale = [w \in Workspaces |-> {}] /\ missed = {}
-----------------------------------------------------------------------------
(* install(), uninstall(), and a snapshot: from then on a checkpoint must  *)
(* hear of every change, whatever was reported before.                     *)

BeginWatch(w) ==
    /\ heard' = [heard EXCEPT ![w] = {}]
    /\ told' = [s \in Streams |-> told[s] \ {w}]

\* Mutant: a second install() patches again.
Install_Again(w) ==
    /\ installs < MaxInstalls
    /\ installs' = installs + 1
    /\ kept' = [kept EXCEPT ![w] = chain]
    /\ chain' = <<w>> \o chain
    /\ installed' = [installed EXCEPT ![w] = TRUE]
    /\ BeginWatch(w)
    /\ UNCHANGED <<lifo, mapVars, fsVars, deaf, stale, missed>>

Install(w) ==
    /\ ~installed[w]
    /\ installs < MaxInstalls
    /\ installs' = installs + 1
    /\ kept' = [kept EXCEPT ![w] = chain]
    /\ chain' = <<w>> \o chain
    /\ installed' = [installed EXCEPT ![w] = TRUE]
    /\ BeginWatch(w)
    /\ UNCHANGED <<lifo, mapVars, fsVars, deaf, stale, missed>>

\* The wrappers put in front since are dropped with it.
Uninstall(w) ==
    /\ installed[w]
    /\ chain' = kept[w]
    /\ kept' = [kept EXCEPT ![w] = <<>>]
    /\ installed' = [installed EXCEPT ![w] = FALSE]
    /\ descriptorPaths' = [descriptorPaths EXCEPT ![w] = NoPaths]
    /\ streamPathSuppressions' = [streamPathSuppressions EXCEPT ![w] = NotSuppressed]
    /\ lifo' = (lifo /\ chain # <<>> /\ Head(chain) = w)
    /\ deaf' = [f \in Fds |-> IF fds[f] = None THEN deaf[f] ELSE deaf[f] \cup {w}]
    /\ stale' = [stale EXCEPT ![w] = {}]
    /\ UNCHANGED <<installs, streamSuppressionOwners, fsVars, heard, told, missed>>

Snapshot(w) ==
    /\ heard[w] # {}
    /\ BeginWatch(w)
    /\ UNCHANGED <<hookVars, mapVars, fsVars, deaf, stale, missed>>
-----------------------------------------------------------------------------
(* Reports *)

\* Everyone in S hears of the paths in P.
Hear(S, P) ==
    heard' = [w \in Workspaces |-> IF w \in S THEN heard[w] \cup P ELSE heard[w]]

\* resolveDescriptorPathLike: unknown and suppressed descriptors name no path.
Resolves(w, f) ==
    /\ w \in Hooks
    /\ descriptorPaths[w][f] # None
    /\ ~descriptorPaths[w][f].suppressed

HearOfDescriptor(f) ==
    heard' = [w \in Workspaces |->
                IF Resolves(w, f) THEN heard[w] \cup {descriptorPaths[w][f].path}
                                  ELSE heard[w]]

\* History: a call that passed the interceptors changed the files in P; how it
\* was made depends on what a workspace can know of it.
NoteChange(P, how) ==
    missed' = missed \cup {[who |-> w, how |-> how[w]] :
                             w \in {v \in Workspaces :
                                     installed[v] /\ lifo /\ ~(P \subseteq heard'[v])}}

Reported == [w \in Workspaces |-> "report"]
Unreported(gap) == [w \in Workspaces |-> gap]

\* A patched function that names its path and changes the file there.
PathCall(p) ==
    /\ Hear(Hooks, {p})
    /\ NoteChange({p}, Reported)
    /\ UNCHANGED <<hookVars, mapVars, fsVars, told, deaf, stale>>

\* unlink, rm, and the rename of a file that no descriptor is open on over p:
\* what is open on the old file stays so.
Remove(p) ==
    /\ Hear(Hooks, {p})
    /\ NoteChange({p}, Reported)
    /\ at' = [f \in Fds |-> IF at[f] = p THEN None ELSE at[f]]
    /\ UNCHANGED <<hookVars, mapVars, fds, flights, streams, told, deaf, stale>>

\* Descriptors follow the file; what the wrappers store for them does not.
Rename(p, q) ==
    /\ p # q
    /\ Hear(Hooks, {p, q})
    /\ NoteChange({p, q}, Reported)
    /\ at' = [f \in Fds |-> CASE at[f] = p -> q
                              [] at[f] = q -> None
                              [] OTHER -> at[f]]
    /\ UNCHANGED <<hookVars, mapVars, fds, flights, streams, told, deaf, stale>>

\* A descriptor its holder knows of and has not given up.
Usable(f) ==
    /\ fds[f] # None
    /\ \A x \in flights : x.fd = f => x.op = "close" /\ x.done

\* A change through f, of the file where it is now.
NoteWrite(f, how) ==
    IF at[f] = None THEN UNCHANGED missed ELSE NoteChange({at[f]}, how)

Moved(f) == at[f] # fds[f].path

\* write, writev, truncate, fchmod, futimes on a descriptor of the program.
DescriptorCall(f) ==
    /\ Usable(f) /\ fds[f].user = None
    /\ HearOfDescriptor(f)
    /\ NoteWrite(f, [w \in Workspaces |-> CASE w \in deaf[f] -> "deaf"
                                             [] w \notin deaf[f] /\ Moved(f) -> "moved"
                                             [] OTHER -> "report"])
    /\ UNCHANGED <<hookVars, mapVars, fsVars, told, deaf, stale>>

\* writeFile and appendFile given a descriptor: a number or a FileHandle is no
\* path, and these do not look it up.  (With a callback node writes through the patched write,
\* which is a DescriptorCall.)
WriteByNumber(f) ==
    /\ Usable(f) /\ fds[f].user = None
    /\ UNCHANGED heard
    /\ NoteWrite(f, Unreported("number"))
    /\ UNCHANGED <<hookVars, mapVars, fsVars, told, deaf, stale>>
-----------------------------------------------------------------------------
(* Descriptors.  A number is given again as soon as it is closed. *)

FreeFd(f) == fds[f] = None /\ \A g \in Fds : g < f => fds[g] # None

\* Who takes a descriptor opened on p for the inside of a stream.
IsSuppressedStreamPath(p) == {w \in Hooks : streamPathSuppressions[w][p] > 0}

\* History: who has no wrapper in place, or wrongly takes p for a stream's.
DeafTo(p) ==
    {w \in Workspaces :
       \/ w \notin Hooks
       \/ \E s \in Streams : /\ streams[s].owner = w /\ streams[s].path = p
                             /\ streams[s].state # "ended"}

\* Mutant: a path that is stored for the number is kept.
SetPath_KeepsFirst(via, f, p, quiet) ==
    /\ descriptorPaths' = [w \in Workspaces |->
         IF w \in via /\ descriptorPaths[w][f] = None
         THEN [descriptorPaths[w] EXCEPT ![f] = [path |-> p, suppressed |-> w \in quiet]]
         ELSE descriptorPaths[w]]
    /\ UNCHANGED stale

\* The wrappers in via store the path, with what they thought when called.
SetPath(via, f, p, quiet) ==
    /\ descriptorPaths' = [w \in Workspaces |->
         IF w \in via
         THEN [descriptorPaths[w] EXCEPT ![f] = [path |-> p, suppressed |-> w \in quiet]]
         ELSE descriptorPaths[w]]
    /\ stale' = [w \in Workspaces |-> IF w \in via THEN stale[w] \ {f} ELSE stale[w]]

DeletePath(via, f) ==
    descriptorPaths' = [w \in Workspaces |->
      IF w \in via THEN [descriptorPaths[w] EXCEPT ![f] = None] ELSE descriptorPaths[w]]

\* History: f is closed, and only the wrappers in via take note of it.
NoteClose(f, via) ==
    stale' = [w \in Workspaces |->
                IF w \in via \/ descriptorPaths[w][f] = None
                THEN stale[w] \ {f} ELSE stale[w] \cup {f}]

\* f is opened on the file at p.
Opened(f, p, user) ==
    /\ fds' = [fds EXCEPT ![f] = [path |-> p, user |-> user]]
    /\ at' = [at EXCEPT ![f] = p]

Closed(f) ==
    /\ fds' = [fds EXCEPT ![f] = None]
    /\ at' = [at EXCEPT ![f] = None]

\* With the flags for it, an open creates or empties the file: no report of that.
OpenChanges(p, how) ==
    UNCHANGED heard /\ (UNCHANGED missed \/ NoteChange({p}, how))

OpenSync(p, f) ==
    /\ FreeFd(f)
    /\ Opened(f, p, None)
    /\ OpenChanges(p, Unreported("open"))
    /\ deaf' = [deaf EXCEPT ![f] = DeafTo(p)]
    /\ SetPath(Hooks, f, p, IsSuppressedStreamPath(p))
    /\ UNCHANGED <<hookVars, streamPathSuppressions, streamSuppressionOwners, flights,
                   streams, told>>

\* Mutant: the path stays after the descriptor is closed.
CloseSync_PathStays(f) ==
    /\ Usable(f) /\ fds[f].user = None
    /\ Closed(f)
    /\ NoteClose(f, Hooks)
    /\ UNCHANGED <<hookVars, mapVars, flights, streams, heard, told, deaf, missed>>

CloseSync(f) ==
    /\ Usable(f) /\ fds[f].user = None
    /\ Closed(f)
    /\ DeletePath(Hooks, f)
    /\ NoteClose(f, Hooks)
    /\ UNCHANGED <<hookVars, streamPathSuppressions, streamSuppressionOwners, flights,
                   streams, heard, told, deaf, missed>>

\* fs.promises.open, and a close() without callback or of a FileHandle, are
\* not patched.
OpenUnseen(p, f) ==
    /\ FreeFd(f)
    /\ Opened(f, p, None)
    /\ deaf' = [deaf EXCEPT ![f] = Workspaces]
    /\ UNCHANGED <<hookVars, mapVars, flights, streams, heard, told, stale, missed>>

CloseUnseen(f) ==
    /\ Usable(f) /\ fds[f].user = None
    /\ Closed(f)
    /\ NoteClose(f, {})
    /\ UNCHANGED <<hookVars, mapVars, flights, streams, heard, told, deaf, missed>>
-----------------------------------------------------------------------------
(* open and close with a callback: the call, its run in the thread pool,   *)
(* and the callback, which goes through the wrappers the call went through *)
(* even if they have been removed since.                                   *)

OpenFlight(p, user) ==
    [op |-> "open", fd |-> None, path |-> p, user |-> user, done |-> FALSE,
     via |-> Hooks, quiet |-> IsSuppressedStreamPath(p), deaf |-> DeafTo(p)]

CloseFlight(f) ==
    [op |-> "close", fd |-> f, path |-> fds[f].path, user |-> fds[f].user, done |-> FALSE,
     via |-> Hooks, quiet |-> {}, deaf |-> {}]

Depart(x) ==
    /\ Cardinality(flights) < MaxFlights
    /\ x \notin flights
    /\ flights' = flights \cup {x}

OpenCall(p) ==
    /\ Depart(OpenFlight(p, None))
    /\ UNCHANGED <<hookVars, mapVars, fds, at, streams, heard, historyVars>>

\* Who was told that the stream would write.
StreamReport(s) ==
    [w \in Workspaces |-> IF w \in told[s] THEN "report" ELSE "earlier stream"]

OpenRuns(x, f) ==
    /\ x.op = "open" /\ ~x.done
    /\ FreeFd(f)
    /\ Opened(f, x.path, x.user)
    /\ OpenChanges(x.path, IF x.user = None THEN Unreported("open") ELSE StreamReport(x.user))
    /\ flights' = (flights \ {x}) \cup {[x EXCEPT !.done = TRUE, !.fd = f]}
    /\ UNCHANGED <<hookVars, mapVars, streams, told, deaf, stale>>

OpenCallback(x) ==
    /\ x.op = "open" /\ x.done
    /\ flights' = flights \ {x}
    /\ SetPath(x.via, x.fd, x.path, x.quiet)
    /\ deaf' = [deaf EXCEPT ![x.fd] = x.deaf]
    /\ streams' = IF x.user = None THEN streams
                  ELSE [streams EXCEPT ![x.user].state = "open", ![x.user].fd = x.fd]
    /\ UNCHANGED <<hookVars, streamPathSuppressions, streamSuppressionOwners, fds, at, heard,
                   told, missed>>

CloseCall(f) ==
    /\ Usable(f) /\ fds[f].user = None
    /\ Depart(CloseFlight(f))
    /\ UNCHANGED <<hookVars, mapVars, fds, at, streams, heard, historyVars>>

CloseRuns(x) ==
    /\ x.op = "close" /\ ~x.done
    /\ Closed(x.fd)
    /\ flights' = (flights \ {x}) \cup {[x EXCEPT !.done = TRUE]}
    /\ NoteClose(x.fd, {})
    /\ UNCHANGED <<hookVars, mapVars, streams, heard, told, deaf, missed>>

\* If the number is in use again, its new path is deleted.
CloseCallback(x) ==
    /\ x.op = "close" /\ x.done
    /\ flights' = flights \ {x}
    /\ DeletePath(x.via, x.fd)
    /\ stale' = [w \in Workspaces |-> IF w \in x.via THEN stale[w] \ {x.fd} ELSE stale[w]]
    /\ deaf' = IF Usable(x.fd) THEN [deaf EXCEPT ![x.fd] = @ \cup x.via] ELSE deaf
    /\ UNCHANGED <<hookVars, streamPathSuppressions, streamSuppressionOwners, fds, at, streams,
                   heard, told, missed>>
-----------------------------------------------------------------------------
(* createWriteStream *)

Owner == IF chain = <<>> THEN None ELSE chain[Len(chain)]

\* Mutant: a wrapper that finds the stream owned leaves its path suppressed.
Suppressing_All == Hooks

\* The innermost wrapper owns the stream; the others find it owned and release
\* the path they have just suppressed.
Suppressing == {Owner} \ {None}

CreateStream(s, p) ==
    /\ streams[s].state = "unused"
    /\ Hear(Hooks, {p})
    /\ told' = [told EXCEPT ![s] = Hooks]
    /\ streams' = [streams EXCEPT ![s] =
         [state |-> "created", path |-> p, owner |-> Owner, fd |-> None]]
    /\ streamSuppressionOwners' =
         IF Owner = None THEN streamSuppressionOwners ELSE streamSuppressionOwners \cup {s}
    /\ streamPathSuppressions' = [w \in Workspaces |->
         IF w \in Suppressing THEN [streamPathSuppressions[w] EXCEPT ![p] = @ + 1]
         ELSE streamPathSuppressions[w]]
    /\ UNCHANGED <<hookVars, descriptorPaths, fds, at, flights, deaf, stale, missed>>

\* The stream opens its file later, through the wrappers in place by then.
StreamOpens(s) ==
    /\ streams[s].state = "created"
    /\ streams' = [streams EXCEPT ![s].state = "opening"]
    /\ Depart(OpenFlight(streams[s].path, s))
    /\ UNCHANGED <<hookVars, mapVars, fds, at, heard, historyVars>>

StreamWrites(s) ==
    /\ streams[s].state = "open"
    /\ HearOfDescriptor(streams[s].fd)
    /\ NoteWrite(streams[s].fd, IF Moved(streams[s].fd) THEN Unreported("moved")
                                                       ELSE StreamReport(s))
    /\ UNCHANGED <<hookVars, mapVars, fsVars, told, deaf, stale>>

\* Mutant: the count is taken down even if it was cleared.
Release_BelowZero(s) ==
    IF streams[s].owner = None
    THEN UNCHANGED <<streamPathSuppressions, streamSuppressionOwners>>
    ELSE /\ streamSuppressionOwners' = streamSuppressionOwners \ {s}
         /\ streamPathSuppressions' =
              [streamPathSuppressions EXCEPT ![streams[s].owner][streams[s].path] = @ - 1]

\* release, on finish, error or close, whichever is first.
Release(s) ==
    LET owner == streams[s].owner
        p == streams[s].path
    IN  IF owner = None THEN UNCHANGED <<streamPathSuppressions, streamSuppressionOwners>>
        ELSE /\ streamSuppressionOwners' = streamSuppressionOwners \ {s}
             /\ streamPathSuppressions' = [streamPathSuppressions EXCEPT ![owner][p] =
                                             IF @ <= 1 THEN 0 ELSE @ - 1]

\* finish, or an error after the file was opened, and the close that follows.
StreamEnds(s) ==
    /\ streams[s].state = "open"
    /\ streams' = [streams EXCEPT ![s].state = "ended"]
    /\ Release(s)
    /\ Depart(CloseFlight(streams[s].fd))
    /\ UNCHANGED <<hookVars, descriptorPaths, fds, at, heard, historyVars>>

\* The file cannot be opened; a stream then emits error.
OpenFails(x) ==
    /\ x.op = "open" /\ ~x.done
    /\ flights' = flights \ {x}
    /\ IF x.user = None
       THEN UNCHANGED <<streams, streamPathSuppressions, streamSuppressionOwners>>
       ELSE streams' = [streams EXCEPT ![x.user].state = "ended"] /\ Release(x.user)
    /\ UNCHANGED <<hookVars, descriptorPaths, fds, at, heard, historyVars>>
-----------------------------------------------------------------------------
Next ==
    \/ \E w \in Workspaces : Install(w) \/ Uninstall(w) \/ Snapshot(w)
    \/ \E p \in Paths : PathCall(p) \/ Remove(p) \/ OpenCall(p)
    \/ \E p, q \in Paths : Rename(p, q)
    \/ \E p \in Paths, f \in Fds : OpenSync(p, f) \/ OpenUnseen(p, f)
    \/ \E f \in Fds : \/ DescriptorCall(f) \/ WriteByNumber(f)
                       \/ CloseSync(f) \/ CloseUnseen(f) \/ CloseCall(f)
    \/ \E x \in flights : \/ OpenFails(x) \/ OpenCallback(x)
                          \/ CloseRuns(x) \/ CloseCallback(x)
                          \/ \E f \in Fds : OpenRuns(x, f)
    \/ \E s \in Streams : \/ StreamOpens(s) \/ StreamWrites(s) \/ StreamEnds(s)
                          \/ \E p \in Paths : CreateStream(s, p)

Spec == Init /\ [][Next]_vars
-----------------------------------------------------------------------------
FdStates == {None} \cup [path : Paths, user : Streams \cup {None}]

TypeOK ==
    /\ chain \in Seq(Workspaces) /\ kept \in [Workspaces -> Seq(Workspaces)]
    /\ installed \in [Workspaces -> BOOLEAN]
    /\ descriptorPaths \in
         [Workspaces -> [Fds -> {None} \cup [path : Paths, suppressed : BOOLEAN]]]
    /\ streamPathSuppressions \in [Workspaces -> [Paths -> Nat]]
    /\ streamSuppressionOwners \subseteq Streams
    /\ fds \in [Fds -> FdStates] /\ at \in [Fds -> Paths \cup {None}]
    /\ \A x \in flights : /\ x.op \in {"open", "close"} /\ x.fd \in Fds \cup {None}
                          /\ x.path \in Paths /\ x.via \subseteq Workspaces
    /\ streams \in [Streams ->
         [state : {"unused", "created", "opening", "open", "ended"},
          path : Paths \cup {None}, owner : Workspaces \cup {None}, fd : Fds \cup {None}]]
    /\ heard \in [Workspaces -> SUBSET Paths]
    /\ installs \in 0..MaxInstalls /\ lifo \in BOOLEAN
    /\ told \in [Streams -> SUBSET Workspaces] /\ deaf \in [Fds -> SUBSET Workspaces]
    /\ stale \in [Workspaces -> SUBSET Fds]
    /\ missed \subseteq [who : Workspaces, how : Gaps \cup {"report"}]

\* As long as interceptors are removed in the reverse order of installation,
\* the patched functions are the wrappers of the installed ones, each once,
\* and each keeps the functions below it (vfs-interceptor.ts:87-198).  Without
\* the premise an installed interceptor may have no wrapper, and one that was
\* uninstalled may have one for good.
HooksMatch ==
    lifo => /\ Hooks = {w \in Workspaces : installed[w]}
            /\ Len(chain) = Cardinality(Hooks)
            /\ \A i \in DOMAIN chain : kept[chain[i]] = SubSeq(chain, i + 1, Len(chain))

\* The path stored for a descriptor is the one by which the file open under
\* that number was opened, though numbers are reused and callbacks run late;
\* except for a number whose last close went past the wrapper, or whose close
\* callback has not run yet (descriptorPaths, vfs-interceptor.ts:366-466).  It
\* is where the file is unless that was renamed, replaced or removed since, which
\* the wrappers do not follow.
MappingTrue ==
    \A w \in Workspaces, f \in Fds :
        Usable(f) /\ descriptorPaths[w][f] # None /\ f \notin stale[w]
            => descriptorPaths[w][f].path = fds[f].path

\* A path is not suppressed beyond the streams that write to it: suppression
\* does not outlast them, however many interceptors wrap one stream and
\* whenever they are removed (markStreamPathSuppressed, vfs-interceptor.ts:533).
SuppressionEnds ==
    \A w \in Workspaces, p \in Paths :
        streamPathSuppressions[w][p] <=
            Cardinality({s \in Streams : /\ streams[s].owner = w /\ streams[s].path = p
                                         /\ streams[s].state # "ended"})

\* A workspace with an interceptor is told of every change that a patched call
\* makes, at the latest before it is made, but for these gaps: an open that
\* creates or empties the file; writeFile or appendFile on a descriptor number;
\* a write through a descriptor to a file that was renamed since it was opened
\* ("moved"), or whose open the wrapper did not see, took for the inside of a
\* stream on the same path, or forgot with a late close callback ("deaf"); and
\* the writes of a stream that was created before the latest snapshot.
ChangesHeard == \A m \in missed : m.how \in Gaps
=============================================================================
